------------------------------- MODULE Parsing -------------------------------
(* dvc/parsing: how dvc.yaml with "vars", "foreach" and ${...} becomes plain *)
(* stages, and which values of which files each stage has used.              *)
(*                                                                           *)
(* Nested data is a function from the paths in it to nodes, each a mapping,  *)
(* a list or a plain value that knows the file and the path it was read at.  *)
(* A subtree has the path <<>> as well.                                      *)
EXTENDS Naturals, Sequences, FiniteSets, SequencesExt

CONSTANT LocalSource  \* the source of what was not read from a file

(* An error, and that of _get_vars, which looks up what was found before.    *)
Failed == [ok |-> FALSE, lost |-> FALSE]
Lost == [ok |-> FALSE, lost |-> TRUE]

-----------------------------------------------------------------------------
(* context.py: nodes and contexts.                                           *)

(* Value, Container: a node with its Meta.                                   *)
Nodes(data, source) ==
    [p \in DOMAIN data |->
        [kind |-> data[p].kind, val |-> data[p].val, source |-> source, at |-> p]]

Below(T, p) == {q \in DOMAIN T : IsPrefix(p, q)}
Rest(p, q) == SubSeq(q, Len(p) + 1, Len(q))

(* Container.select and Node: the subtree at a path.                         *)
Sub(T, p) == [r \in {Rest(p, q) : q \in Below(T, p)} |-> T[p \o r]]

(* Node.value: what is left without the Meta.                                *)
Unwrap(S) == [r \in DOMAIN S |-> [kind |-> S[r].kind, val |-> S[r].val]]

(* _merge without overwrite: mappings are merged, all else may be there once.*)
Clash(into, update) ==
    \E p \in DOMAIN into \cap DOMAIN update :
        ~(into[p].kind = "map" /\ update[p].kind = "map")
Merged(into, update) ==
    [p \in DOMAIN into \cup DOMAIN update |-> IF p \in DOMAIN into THEN into[p] ELSE update[p]]

(* Context.load_from: the keys asked for must all be there.                  *)
HasKeys(data, keys) == \A k \in keys : <<k>> \in DOMAIN data
Selected(data, keys) ==
    IF keys = {} THEN data
    ELSE [p \in {p \in DOMAIN data : p[1] \in keys} |-> data[p]]

(* Container.__setitem__ with overwriting, as foreach uses it.               *)
Put(T, k, S) ==
    LET kept == {p \in DOMAIN T : p[1] # k}
        new == {<<k>> \o r : r \in DOMAIN S}
    IN [p \in kept \cup new |-> IF p \in new THEN S[Tail(p)] ELSE T[p]]

(* Context._track_data, get_sources: of what is interpolated, a plain value  *)
(* or a list is tracked, a mapping is not.                                   *)
Tracks(node) == node.source # LocalSource /\ node.kind # "map"

-----------------------------------------------------------------------------
(* DataResolver: loading.                                                    *)

(* check_loaded: a file is loaded whole or in parts, no part twice. loaded   *)
(* has {} for a file that was loaded whole.                                  *)
LoadedAlready(loaded, path, keys) ==
    /\ path \in DOMAIN loaded
    /\ \/ keys = {} /\ loaded[path] # {}
       \/ keys # {} /\ loaded[path] = {}
       \/ keys \cap loaded[path] # {}

With(f, k, v) == [x \in DOMAIN f \cup {k} |-> IF x = k THEN v ELSE f[x]]

(* load_from_vars, for one item: a file, with or without keys, or data.      *)
LoadData(s, data) ==
    IF Clash(s.ctx, data) THEN Failed ELSE [s EXCEPT !.ctx = Merged(@, data)]

LoadFile(files, wdir, s, item) ==
    LET path == <<wdir, item.file>>
    IN IF path \in DOMAIN s.loaded /\ s.loaded[path] = {} /\ item.keys = {} THEN s
       ELSE IF \/ LoadedAlready(s.loaded, path, item.keys)
               \/ path \notin DOMAIN files
               \/ ~HasKeys(files[path], item.keys)
            THEN Failed
       ELSE LET t == LoadData(s, Nodes(Selected(files[path], item.keys), path))
            IN IF t.ok THEN [t EXCEPT !.loaded = With(@, path, item.keys)] ELSE t

Load(files, wdir, s, item) ==
    IF ~s.ok THEN s
    ELSE IF item.inline THEN LoadData(s, Nodes(item.data, LocalSource))
    ELSE LoadFile(files, wdir, s, item)

LoadVars(files, wdir, s, items) == FoldLeft(LAMBDA t, item : Load(files, wdir, t, item), s, items)

(* DataResolver.__init__: params.yaml, if it is there, and the global vars.  *)
DefaultParams == "params.yaml"

GlobalCtx(files, wdir, items) ==
    LET path == <<wdir, DefaultParams>>
        start == IF path \in DOMAIN files
                 THEN [ok |-> TRUE, ctx |-> Nodes(files[path], path), loaded |-> [p \in {path} |-> {}]]
                 ELSE [ok |-> TRUE, ctx |-> <<>>, loaded |-> <<>>]
    IN LoadVars(files, wdir, start, items)

-----------------------------------------------------------------------------
(* DataResolver: one stage. Its fields are the places where it interpolates, *)
(* a whole value or, joined, part of a string.                               *)

(* _resolve_wdir: before the vars of the stage are loaded.                   *)
WdirOf(ctx, wdir, fields) ==
    IF "wdir" \notin DOMAIN fields THEN wdir ELSE ctx[fields["wdir"].path].val

(* Context.resolve_str and str_interpolate.                                  *)
Interpolates(ctx, use) ==
    /\ use.path \in DOMAIN ctx
    /\ use.joined => ctx[use.path].kind = "value"

(* Context.tracked: the files and paths of what the stage interpolated.      *)
Tracked(ctx, fields) ==
    {<<ctx[fields[f].path].source, ctx[fields[f].path].at>> :
        f \in {f \in DOMAIN fields : Tracks(ctx[fields[f].path])}}

(* _get_vars: the values are looked up in the context again.                 *)
Vars(ctx, T) == [t \in T |-> Unwrap(Sub(ctx, t[2]))]

ResolveStage(files, wdir, g, ctx, def) ==
    IF "wdir" \in DOMAIN def.fields /\ ~Interpolates(ctx, def.fields["wdir"]) THEN Failed
    ELSE LET s == LoadVars(files, WdirOf(ctx, wdir, def.fields),
                           [ok |-> TRUE, ctx |-> ctx, loaded |-> g.loaded], def.vars)
         IN IF ~s.ok \/ \E f \in DOMAIN def.fields : ~Interpolates(s.ctx, def.fields[f]) THEN Failed
            ELSE LET T == Tracked(s.ctx, def.fields)
                 IN IF \E t \in T : t[2] \notin DOMAIN s.ctx THEN Lost
                    ELSE [ok |-> TRUE,
                          wdir |-> WdirOf(ctx, wdir, def.fields),
                          data |-> [f \in DOMAIN def.fields |->
                                       Unwrap(Sub(s.ctx, def.fields[f].path))],
                          vars |-> Vars(s.ctx, T)]

-----------------------------------------------------------------------------
(* DataResolver: foreach. Its data is a subtree whose nodes may be references.*)

Refs(T) == {p \in DOMAIN T : T[p].kind = "ref"}

(* Context.resolve with unwrap=False: references become nodes, that know     *)
(* where they come from.                                                     *)
Resolved(ctx, T) ==
    LET refs == Refs(T)
        grafted == UNION {{p \o r : r \in DOMAIN Sub(ctx, T[p].val)} : p \in refs}
        of(q) == CHOOSE p \in refs : IsPrefix(p, q)
    IN [q \in (DOMAIN T \ refs) \cup grafted |->
            IF q \in grafted THEN ctx[T[of(q)].val \o Rest(of(q), q)]
            ELSE [kind |-> T[q].kind, val |-> T[q].val, source |-> LocalSource, at |-> q]]

(* _resolve_foreach_data.                                                    *)
Iterable(ctx, T) ==
    /\ \A p \in Refs(T) : T[p].val \in DOMAIN ctx
    /\ Resolved(ctx, T)[<<>>].kind \in {"map", "list"}

Keys(S) == {q[1] : q \in {q \in DOMAIN S : Len(q) = 1}}

(* _each_iter: "item", and "key" for a mapping, over what the context has;   *)
(* the name is that of the key, or of the value of the item of a list.       *)
KeyNode(k) == [r \in {<<>>} |-> [kind |-> "value", val |-> k, source |-> LocalSource, at |-> <<"key">>]]

ItemContext(ctx, S, k) ==
    LET c == Put(ctx, "item", Sub(S, <<k>>))
    IN IF S[<<>>].kind = "map" THEN Put(c, "key", KeyNode(k)) ELSE c

Suffix(S, k) ==
    CASE S[<<>>].kind = "map" -> k
      [] S[<<k>>].kind = "value" -> S[<<k>>].val
      [] OTHER -> Unwrap(Sub(S, <<k>>))

EachIter(files, wdir, g, def, S, k) ==
    [name |-> Append(def.name, Suffix(S, k)),
     stage |-> ResolveStage(files, wdir, g, ItemContext(g.ctx, S, k), def)]

(* _foreach and _resolve_entry: what one entry of dvc.yaml generates, in     *)
(* order; order gives that of the keys.                                      *)
Entry(files, wdir, g, def, order) ==
    IF ~def.foreach
    THEN <<[name |-> def.name, stage |-> ResolveStage(files, wdir, g, g.ctx, def)]>>
    ELSE IF ~Iterable(g.ctx, def.over) THEN <<[name |-> def.name, stage |-> Failed]>>
    ELSE LET S == Resolved(g.ctx, def.over)
             keys == SelectSeq(order, LAMBDA k : k \in Keys(S))
         IN [i \in DOMAIN keys |-> EachIter(files, wdir, g, def, S, keys[i])]

(* resolve: the dictionaries of the entries are joined, so of two stages     *)
(* with one name the last stays; tracked_vars keeps the last as well.        *)
Generated(files, wdir, g, defs, order) ==
    FlattenSeq([i \in DOMAIN defs |-> Entry(files, wdir, g, defs[i], order)])

Resolve(files, wdir, items, defs, order) ==
    LET g == GlobalCtx(files, wdir, items)
    IN IF ~g.ok THEN Failed
       ELSE LET all == Generated(files, wdir, g, defs, order)
                last(n) == CHOOSE i \in DOMAIN all :
                              all[i].name = n /\ \A j \in DOMAIN all : all[j].name = n => j <= i
            IN IF \E i \in DOMAIN all : ~all[i].stage.ok THEN Failed
               ELSE [ok |-> TRUE,
                     stages |-> [n \in {all[i].name : i \in DOMAIN all} |-> all[last(n)].stage]]

-----------------------------------------------------------------------------
(* What a reader of dvc.yaml relies on.                                      *)

Leaves(T) == {p \in DOMAIN T : T[p].kind # "map"}

(* Every value in a context is the one its file has at its path: a value of  *)
(* one file never hides that of another (_merge refuses).                    *)
Traceable(files, ctx) ==
    \A p \in Leaves(ctx) : ctx[p].source # LocalSource =>
        /\ ctx[p].source \in DOMAIN files
        /\ ctx[p].at \in DOMAIN files[ctx[p].source]
        /\ files[ctx[p].source][ctx[p].at] = [kind |-> ctx[p].kind, val |-> ctx[p].val]

GlobalsTraceable(files, wdir, items) ==
    LET g == GlobalCtx(files, wdir, items) IN g.ok => Traceable(files, g.ctx)

(* The order of "vars" does not matter: no order that is accepted gives      *)
(* other values than another.                                                *)
OrderFree(files, wdir, items, other) ==
    LET g == GlobalCtx(files, wdir, items)
        h == GlobalCtx(files, wdir, other)
    IN g.ok /\ h.ok =>
        /\ DOMAIN g.ctx = DOMAIN h.ctx
        /\ \A p \in Leaves(g.ctx) : g.ctx[p] = h.ctx[p]

(* What is recorded of a stage, its tracked variables, is what the files     *)
(* have at these paths. A loop over what its own "item" or "key" hides fails *)
(* or records something else, though it is told that it only hides them      *)
(* (_resolve_foreach_data).                                                  *)
HidesItself(def) ==
    def.foreach /\ \E p \in Refs(def.over) : def.over[p].val[1] \in {"item", "key"}

VarsFound(files, wdir, items, defs, order) ==
    LET g == GlobalCtx(files, wdir, items)
        all == Generated(files, wdir, g, defs, order)
    IN g.ok => \A i \in DOMAIN all : ~all[i].stage.ok => ~all[i].stage.lost

TrackedSound(files, wdir, items, defs, order) ==
    LET r == Resolve(files, wdir, items, defs, order)
    IN r.ok => \A n \in DOMAIN r.stages : \A t \in DOMAIN r.stages[n].vars :
           /\ t[1] \in DOMAIN files /\ t[2] \in DOMAIN files[t[1]]
           /\ r.stages[n].vars[t] = Sub(files[t[1]], t[2])

(* The tracked variables of a stage decide it: after an edit of the files    *)
(* that leaves them alone, the stage is the one it was. Only mappings that   *)
(* are interpolated as a whole are not tracked.                              *)
UsesMapping(s) == \E f \in DOMAIN s.data : s.data[f][<<>>].kind = "map"

TrackedDecides(files, edited, wdir, items, defs, order) ==
    LET r == Resolve(files, wdir, items, defs, order)
        e == Resolve(edited, wdir, items, defs, order)
    IN r.ok /\ e.ok =>
        \A n \in DOMAIN r.stages \cap DOMAIN e.stages :
            /\ ~UsesMapping(r.stages[n]) /\ ~UsesMapping(e.stages[n])
            /\ r.stages[n].vars = e.stages[n].vars
            => r.stages[n] = e.stages[n]

(* The working directory found before the vars of the stage were loaded is   *)
(* the one that the stage has after (the NOTE of _resolve_stage).            *)
WdirStable(files, wdir, items, defs, order) ==
    LET r == Resolve(files, wdir, items, defs, order)
    IN r.ok => \A n \in DOMAIN r.stages :
           "wdir" \in DOMAIN r.stages[n].data => r.stages[n].data["wdir"][<<>>].val = r.stages[n].wdir
=============================================================================
