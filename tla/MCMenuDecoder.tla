--------------------------- MODULE MCMenuDecoder ---------------------------
(***************************************************************************)
(* Small menu collections for MenuDecoder.  The first menu has any two     *)
(* children, the second up to two, the third one or none, or is missing:   *)
(* every kind of failure before and after every kind of reference, shared  *)
(* menus, and circles of one, two and three menus.                         *)
(***************************************************************************)
EXTENDS MenuDecoder

CONSTANTS m1, m2, m3, known, dangling

MCVarIds == {known, dangling}
Ok == [variable |-> known, fault |-> None]
Dangling == [variable |-> dangling, fault |-> None]
BadFormat == [variable |-> known, fault |-> "out_of_range"]
BadButton == [variable |-> known, fault |-> "other"]
To(m) == [menu |-> m, condition |-> None]
If(m, lookup) == [menu |-> m, condition |-> lookup]

First == {<<a, b>> : a \in {Ok, To(m2), If(m3, Ok)},
                     b \in {Ok, Dangling, BadFormat, To(m2), If(m2, Ok), If(m2, Dangling)}}
Second == {None, <<>>, <<BadButton>>, <<To(m1)>>, <<To(m2)>>, <<Ok, To(m3)>>, <<If(m3, Ok), Ok>>}
Third == {None, <<>>, <<Ok>>, <<Dangling>>, <<To(m1)>>, <<If(m2, BadButton)>>}

Set(ident, parameter, observation, diagnosis) ==
  [IdentificationMenu |-> ident, ParameterMenu |-> parameter,
   ObservationMenu |-> observation, DiagnosisMenu |-> diagnosis]
\* The roles differ; the last names a menu in every entry.
Sets(a, b) ==
  [Observation |-> Set(a, b, None, None), Maintenance |-> Set(m1, None, None, None),
   Specialist |-> Set(b, a, m2, m3)]

MCDocuments ==
  {[collection |-> (m1 :> f @@ m2 :> s @@ m3 :> t), sets |-> Sets(ids[1], ids[2]), known |-> {known}] :
     f \in First, s \in Second, t \in Third, ids \in {<<m1, m2>>, <<m3, m1>>, <<m1, None>>}}
=============================================================================
