-------------------------------- MODULE VarInfo --------------------------------
(***************************************************************************)
(* read_var_infos: what the initial state of a litmus test says about each *)
(* of its variables (lib/litmus_test/litmus_test_var_info.c), and where    *)
(* that lets concretization put them.                                      *)
(***************************************************************************)
EXTENDS Integers, Sequences, SequencesExt

CONSTANT NoVar

(* var_info_t; the fields of the union are kept side by side.              *)
NotSet == [ty |-> "NOTSET", val |-> 0, own |-> "PAGE", aliased_with |-> NoVar,
           pin_var |-> NoVar, pin_level |-> "VAR", attridx |-> 3,
           offset_var |-> NoVar, offset_level |-> "VAR", idmap |-> FALSE]

is_backed_var(info)   == info.ty \in {"HEAP", "PINNED"}
var_owns_region(info) == info.ty \in {"HEAP", "UNMAPPED", "FIXED", "ALIAS"}

(* What each kind of initial state needs ...                               *)
Accepts(infos, i) ==
  CASE i.type \in {"TYPE_HEAP", "TYPE_UNMAPPED"} -> infos[i.var].ty = "NOTSET"
    [] i.type = "TYPE_ALIAS" -> infos[i.var].ty = "NOTSET" /\ is_backed_var(infos[i.other])
    [] i.type = "TYPE_IDENTITY_MAP" -> is_backed_var(infos[i.var])
    [] i.type = "TYPE_REGION_OWN" -> infos[i.var].ty = "HEAP"
    [] i.type = "TYPE_REGION_PIN" -> infos[i.var].ty = "HEAP" /\ infos[i.other].ty = "HEAP"
    [] i.type = "TYPE_REGION_OFFSET" -> infos[i.var].ty # "NOTSET" /\ is_backed_var(infos[i.other])
    [] OTHER -> TRUE                                             \* ATTRS, MAIR

(* ... and what it changes.                                                *)
Apply(infos, i) ==
  CASE i.type = "TYPE_HEAP" ->
         [infos EXCEPT ![i.var].ty = "HEAP", ![i.var].val = i.value,
                       ![i.var].idmap = FALSE, ![i.var].own = "PAGE"]
    [] i.type = "TYPE_UNMAPPED" -> [infos EXCEPT ![i.var].ty = "UNMAPPED"]
    [] i.type = "TYPE_ALIAS" ->
         [infos EXCEPT ![i.var].ty = "ALIAS", ![i.var].aliased_with = i.other]
    [] i.type = "TYPE_IDENTITY_MAP" -> [infos EXCEPT ![i.var].idmap = TRUE]
    [] i.type = "TYPE_ATTRS" -> [infos EXCEPT ![i.var].attridx = i.value]
    [] i.type = "TYPE_MAIR" -> infos
    [] i.type = "TYPE_REGION_OWN" -> [infos EXCEPT ![i.var].own = i.level]
    [] i.type = "TYPE_REGION_PIN" ->
         [infos EXCEPT ![i.var].ty = "PINNED", ![i.var].pin_var = i.other,
                       ![i.var].pin_level = i.level]
    [] i.type = "TYPE_REGION_OFFSET" ->
         [infos EXCEPT ![i.var].offset_var = i.other, ![i.var].offset_level = i.level]

ReadInit(st, i) ==
  IF st.ok /\ Accepts(st.infos, i) THEN [st EXCEPT !.infos = Apply(@, i)]
                                   ELSE [st EXCEPT !.ok = FALSE]

(* The variable whose page offset the others follow.                       *)
Primary(t, infos) ==
  SelectInSeq(t.vars, LAMBDA v : infos[v].offset_var = NoVar
                                 /\ (var_owns_region(infos[v]) \/ infos[v].ty = "NOTSET"))

(* The variables that own a region follow the primary variable, aliases    *)
(* the variable they alias.                                                *)
Offset(first, v, info) ==
  IF v = first \/ info.offset_var # NoVar \/ ~ var_owns_region(info) THEN info
  ELSE [info EXCEPT !.offset_var = IF info.ty = "ALIAS" THEN info.aliased_with ELSE first,
                    !.offset_level = "PAGE"]

read_var_infos(t) ==
  LET vars  == {t.vars[k] : k \in 1 .. Len(t.vars)}
      st    == FoldLeft(ReadInit, [infos |-> [v \in vars |-> NotSet], ok |-> TRUE], t.init)
      p     == Primary(t, st.infos)
  IN  [infos |-> IF p = 0 THEN st.infos
                 ELSE [v \in vars |-> Offset(t.vars[p], v, st.infos[v])],
       ok    |-> st.ok /\ p # 0
                 /\ \A v \in vars : v # t.vars[p] /\ st.infos[v].ty = "ALIAS"
                                      => st.infos[v].offset_var = NoVar]

-----------------------------------------------------------------------------
Levels == {"PAGE", "PMD"}

(* A region of level l lies in one of level m. *)
Within(l, m) == l = "PAGE" \/ m = "PMD"

(* What read_var_infos does not check, and concretization relies on: each  *)
(* variable is given a place, of its own or by a pin to a variable that    *)
(* owns at least the region it is pinned to; offsets keep both of them in  *)
(* that region, and do not depend on each other in a circle.               *)
Concretizable(names, infos) ==
  /\ \A v \in names :
       /\ var_owns_region(infos[v]) \/ infos[v].ty = "PINNED"
       /\ infos[v].own \in Levels
       /\ infos[v].offset_var # NoVar => infos[v].offset_var \in names /\ infos[v].offset_level \in Levels
  /\ \A v \in {w \in names : infos[w].ty = "PINNED"} :
       LET root == infos[v].pin_var IN
       /\ root \in names /\ infos[root].ty = "HEAP" /\ infos[root].idmap = infos[v].idmap
       /\ infos[v].pin_level \in Levels /\ Within(infos[v].pin_level, infos[root].own)
       /\ \A w \in {v, root} : infos[w].offset_var # NoVar => Within(infos[w].offset_level, infos[v].pin_level)
  /\ \A S \in SUBSET names : S # {} => \E v \in S : infos[v].offset_var \notin S
===============================================================================
