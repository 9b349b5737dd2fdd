------------------------ MODULE EmailSettingsProofs ------------------------
(***************************************************************************)
(* Proofs about EmailSettings for every number of settings, organizations  *)
(* and overlapping calls.                                                  *)
(***************************************************************************)
EXTENDS EmailSettings, FiniteSetTheorems, TLAPS

\* A call that is being served names its setting, which is why only settings
\* become primary ones.
TypeInv ==
    /\ TypeOK
    /\ \A c \in Call : pc[c] # "idle" => target[c] \in Setting

\* The initial state has the right types.
LEMMA InitTypeInv == Init => TypeInv
BY DEF Init, TypeInv, TypeOK, Steps

\* A call that starts has well-typed arguments.
LEMMA StartTypeInv ==
    ASSUME TypeInv, NEW c \in Call, NEW o \in {"create", "update", "remove"},
           NEW t \in Setting, NEW f \in BOOLEAN \cup {None}, NEW g \in Org \cup {None},
           NEW to \in Steps, Start(c, o, t, f, g, to)
    PROVE  TypeInv'
<1> USE DEF TypeInv, TypeOK, Start, Goto, rows, Running
<1>1. orderly' \in BOOLEAN /\ promoted' \subseteq Call
  OBVIOUS
<1>2. \A d \in Call : pc'[d] # "idle" => target'[d] \in Setting
  OBVIOUS
<1>3. QED
  BY <1>1, <1>2

\* A call that ends leaves well-typed arguments behind.
LEMMA EndTypeInv ==
    ASSUME TypeInv, NEW c \in Call, End(c),
           orgOf' \in [Setting -> Org \cup {None}], primary' \subseteq Setting,
           promoted' \subseteq Call
    PROVE  TypeInv'
BY DEF TypeInv, TypeOK, End, Steps

\* Every step keeps the types: one case per action.
LEMMA NextTypeInv == TypeInv /\ [Next]_vars => TypeInv'
<1> SUFFICES ASSUME TypeInv, [Next]_vars PROVE TypeInv'
  OBVIOUS
<1>1. ASSUME NEW c \in Call, StartCreate(c) PROVE TypeInv'
  BY <1>1, StartTypeInv DEF StartCreate, Steps
<1>2. ASSUME NEW c \in Call, StartUpdate(c) PROVE TypeInv'
  BY <1>2, StartTypeInv DEF StartUpdate, Body, Steps
<1>3. ASSUME NEW c \in Call, StartRemove(c) PROVE TypeInv'
  BY <1>3, StartTypeInv DEF StartRemove, Stored, Steps
<1>4. ASSUME NEW c \in Call, FindPrimary(c) PROVE TypeInv'
  BY <1>4 DEF FindPrimary, Primaries, Goto, TypeInv, TypeOK, Steps, rows, history
<1>5. ASSUME NEW c \in Call, UnsetPrimary(c) \/ WriteSetting(c) PROVE TypeInv'
  BY <1>5 DEF UnsetPrimary, WriteSetting, Goto, TypeInv, TypeOK, Steps, rows, request, history
<1>6. ASSUME NEW c \in Call, Commit(c) PROVE TypeInv'
  <2>1. orgOf' \in [Setting -> Org \cup {None}]
    <3>1. WrittenBack(c) \in [Setting -> Org \cup {None}]
      BY DEF WrittenBack, TypeInv, TypeOK
    <3>2. QED
      BY <1>6, <3>1 DEF Commit, Filed, TypeInv, TypeOK
  <2>2. primary' \subseteq Setting
    <3>1. target[c] \in Setting /\ primary \subseteq Setting
      BY <1>6 DEF Commit, TypeInv, TypeOK
    <3>2. primary' \subseteq primary \cup {target[c]}
      BY <1>6 DEF Commit, Promoted
    <3>3. QED
      BY <3>1, <3>2
  <2>3. promoted' \subseteq Call
    BY <1>6 DEF Commit, NotePromotions, TypeInv, TypeOK
  <2>4. QED
    BY <1>6, <2>1, <2>2, <2>3, EndTypeInv DEF Commit
<1>7. ASSUME NEW c \in Call, AbortDeadlocked(c) PROVE TypeInv'
  BY <1>7, EndTypeInv DEF AbortDeadlocked, TypeInv, TypeOK, rows
<1>8. ASSUME NEW c \in Call, DeleteSetting(c) PROVE TypeInv'
  BY <1>8, EndTypeInv DEF DeleteSetting, TypeInv, TypeOK
<1>9. CASE UNCHANGED vars
  BY <1>9 DEF vars, rows, request, history, TypeInv, TypeOK
<1>10. QED
  BY <1>1, <1>2, <1>3, <1>4, <1>5, <1>6, <1>7, <1>8, <1>9 DEF Next, Serve

\* The settings and the calls keep their types (TypeOK).
THEOREM SettingsTypeCorrect == Spec => []TypeOK
<1>1. TypeInv => TypeOK
  BY DEF TypeInv
<1>2. QED
  BY <1>1, InitTypeInv, NextTypeInv, PTL DEF Spec

-----------------------------------------------------------------------------
(* What a call knows of the rows it is about to write.                      *)

\* A new setting is no row yet and no other call's business, and what a call
\* unsets it has read in the organization it names.
CallInv(c) ==
    /\ pc[c] = "idle" => op[c] = "none" /\ target[c] = None /\ found[c] = None
    /\ pc[c] \in {"find", "unset", "write", "commit"} => op[c] \in {"create", "update"}
    /\ pc[c] = "find" => flag[c] = TRUE /\ found[c] = None
    /\ op[c] = "create" =>
          /\ forOrg[c] # None /\ target[c] \notin Stored
          /\ \A d \in Call \ {c} : target[c] \notin {target[d], found[d]}
    /\ found[c] # None =>
          flag[c] = TRUE /\ was[c] \in Org /\ forOrg[c] \in {was[c], None}
RowsInv ==
    /\ primary \subseteq Stored
    /\ \A c \in Call : CallInv(c)

\* No rows and no calls at the start.
LEMMA InitRows == Init => RowsInv
BY DEF Init, RowsInv, CallInv

\* A call that starts, next to calls that keep what they know.
LEMMA StartRows ==
    ASSUME TypeInv, RowsInv, NEW c \in Call, NEW o \in {"create", "update", "remove"},
           NEW t \in Setting, NEW f, NEW g, NEW to \in {"find", "write", "delete"},
           Start(c, o, t, f, g, to),
           to = "find" => f = TRUE, to # "delete" => o # "remove",
           o = "create" => /\ g # None /\ t \notin Stored
                           /\ \A d \in Call : t \notin {target[d], found[d]},
           o # "create" => \A d \in Call : op[d] = "create" => target[d] # t
    PROVE  RowsInv'
<1>1. /\ UNCHANGED <<orgOf, primary, found, was>> /\ Stored' = Stored
      /\ pc[c] = "idle" /\ pc'[c] = to /\ op'[c] = o /\ target'[c] = t
      /\ flag'[c] = f /\ forOrg'[c] = g
      /\ \A d \in Call \ {c} : /\ pc'[d] = pc[d] /\ op'[d] = op[d] /\ flag'[d] = flag[d]
                               /\ target'[d] = target[d] /\ forOrg'[d] = forOrg[d]
  BY DEF Start, Goto, rows, Stored, TypeInv, TypeOK
<1>2. found[c] = None
  BY <1>1 DEF RowsInv, CallInv
<1>3. CallInv(c)'
  BY <1>1, <1>2 DEF CallInv
<1>4. ASSUME NEW d \in Call \ {c} PROVE CallInv(d)'
  <2>1. CallInv(d)
    BY DEF RowsInv
  <2>2. op[d] = "create" => target[d] # t
    OBVIOUS
  <2>3. QED
    BY <1>1, <2>1, <2>2 DEF CallInv
<1>5. QED
  BY <1>1, <1>3, <1>4 DEF RowsInv

\* A call that ends, next to calls whose new settings are still no rows.
LEMMA EndRows ==
    ASSUME TypeInv, RowsInv, NEW c \in Call, End(c), primary' \subseteq Stored',
           \A s \in Stored' : s \in Stored \/ (op[c] = "create" /\ s = target[c])
    PROVE  RowsInv'
<1>1. /\ pc'[c] = "idle" /\ op'[c] = "none" /\ target'[c] = None /\ found'[c] = None
      /\ \A d \in Call \ {c} : /\ pc'[d] = pc[d] /\ op'[d] = op[d] /\ flag'[d] = flag[d]
                               /\ target'[d] = target[d] /\ forOrg'[d] = forOrg[d]
                               /\ found'[d] = found[d] /\ was'[d] = was[d]
  BY DEF End, TypeInv, TypeOK
<1>2. CallInv(c)'
  BY <1>1 DEF CallInv
<1>3. ASSUME NEW d \in Call \ {c} PROVE CallInv(d)'
  <2>1. CallInv(d) /\ CallInv(c)
    BY DEF RowsInv
  <2>2. op[c] = "create" => target[c] \notin {target[d], found[d]}
    BY <2>1 DEF CallInv
  <2>3. op[d] = "create" => target[d] \in Setting
    BY <2>1 DEF CallInv, TypeInv
  <2>4. QED
    BY <1>1, <2>1, <2>2, <2>3, SettingsAssumption DEF CallInv, Stored
<1>4. QED
  BY <1>2, <1>3 DEF RowsInv

\* What a commit makes of the rows: the call's own is filed under the
\* organization it names, the one it found where it was found.
LEMMA CommitRows ==
    ASSUME TypeInv, RowsInv, NEW c \in Call, Commit(c)
    PROVE  /\ \A s \in Setting \ {target[c], found[c]} : orgOf'[s] = orgOf[s]
           /\ found[c] \in Stored /\ found[c] # target[c] => orgOf'[found[c]] = was[c]
           /\ Exists(c) /\ forOrg[c] # None => orgOf'[target[c]] = forOrg[c]
           /\ found[c] # target[c] /\ forOrg[c] = None => orgOf'[target[c]] = orgOf[target[c]]
           /\ Stored \subseteq Stored'
           /\ \A s \in Stored' : s \in Stored \/ (op[c] = "create" /\ s = target[c])
           /\ primary' \subseteq Stored'
<1>1. /\ pc[c] = "commit" /\ op[c] \in {"create", "update"} /\ target[c] \in Setting
      /\ CallInv(c) /\ orgOf' = Filed(c, WrittenBack(c))
  BY DEF Commit, RowsInv, CallInv, TypeInv
<1> DEFINE W == WrittenBack(c)
<1>2. /\ W \in [Setting -> Org \cup {None}]
      /\ \A s \in Setting : W[s] = IF s = found[c] /\ s \in Stored THEN was[c] ELSE orgOf[s]
  BY DEF WrittenBack, TypeInv, TypeOK, Stored
<1> HIDE DEF W
<1>3. \A s \in Setting : orgOf'[s] = IF s = target[c] /\ Exists(c) /\ forOrg[c] # None
                                     THEN forOrg[c] ELSE W[s]
  BY <1>1, <1>2 DEF Filed, W
<1>4. found[c] \in Stored => was[c] # None
  BY <1>1, SettingsAssumption DEF CallInv, Stored
<1>5. \A s \in Setting : s \in Stored => orgOf'[s] # None
  BY <1>2, <1>3, <1>4 DEF Stored
<1>6. Stored \subseteq Stored'
  BY <1>5 DEF Stored
<1>7. Exists(c) => target[c] \in Stored'
  BY <1>1, <1>3, <1>6 DEF Exists, Stored, CallInv
<1>8. primary' \subseteq Stored'
  BY <1>6, <1>7 DEF Commit, Promoted, RowsInv
<1>9. ASSUME NEW s \in Stored', s \notin Stored PROVE op[c] = "create" /\ s = target[c]
  BY <1>2, <1>3, <1>9 DEF Exists, Stored
<1>10. found[c] \in Stored => found[c] \in Setting
  BY DEF Stored
<1>11. QED
  BY <1>1, <1>2, <1>3, <1>6, <1>8, <1>9, <1>10

\* Every step keeps RowsInv: one case per action.
LEMMA NextRows == TypeInv /\ RowsInv /\ [Next]_vars => RowsInv'
<1> SUFFICES ASSUME TypeInv, RowsInv, [Next]_vars PROVE RowsInv'
  OBVIOUS
<1>1. ASSUME NEW c \in Call, StartCreate(c) PROVE RowsInv'
  <2>1. PICK s \in Setting \ Stored, o \in Org, f \in BOOLEAN :
          /\ \A d \in Call : s \notin {target[d], found[d]}
          /\ Start(c, "create", s, f, o, IF f THEN "find" ELSE "write")
    BY <1>1 DEF StartCreate
  <2>2. o # None
    BY SettingsAssumption
  <2>3. CASE f
    BY <2>1, <2>2, <2>3, StartRows
  <2>4. CASE ~f
    BY <2>1, <2>2, <2>4, StartRows
  <2>5. QED
    BY <2>3, <2>4
<1>2. ASSUME NEW c \in Call, StartUpdate(c) PROVE RowsInv'
  <2>1. PICK s \in Setting, f \in BOOLEAN \cup {None}, o \in Org \cup {None} :
          /\ s \notin {target[d] : d \in {e \in Running : op[e] = "create"}}
          /\ Start(c, "update", s, f, o, IF f = TRUE THEN "find" ELSE "write")
    BY <1>2 DEF StartUpdate, Body
  <2>2. \A d \in Call : op[d] = "create" => target[d] # s
    BY <2>1 DEF RowsInv, CallInv, Running
  <2>3. QED
    BY <2>1, <2>2, StartRows
<1>3. ASSUME NEW c \in Call, StartRemove(c) PROVE RowsInv'
  <2>1. PICK s \in Stored \ primary : Start(c, "remove", s, None, None, "delete")
    BY <1>3 DEF StartRemove
  <2>2. \A d \in Call : op[d] = "create" => target[d] # s
    BY DEF RowsInv, CallInv
  <2>3. QED
    BY <2>1, <2>2, StartRows DEF Stored
<1>4. ASSUME NEW c \in Call, FindPrimary(c) PROVE RowsInv'
  <2>1. /\ UNCHANGED <<orgOf, primary, op, target, flag, forOrg>> /\ Stored' = Stored
        /\ pc[c] = "find" /\ pc'[c] \in {"write", "unset"}
        /\ \A d \in Call \ {c} : pc'[d] = pc[d] /\ found'[d] = found[d] /\ was'[d] = was[d]
    BY <1>4 DEF FindPrimary, Goto, rows, history, Stored, TypeInv, TypeOK
  <2>2. /\ \/ found'[c] = found[c]
           \/ /\ found'[c] \in Stored /\ was'[c] = orgOf[found'[c]]
              /\ forOrg[c] \in {was'[c], None}
        /\ flag[c] = TRUE /\ found[c] = None
    <3>1. flag[c] = TRUE /\ found[c] = None
      BY <2>1 DEF RowsInv, CallInv
    <3>2. CASE UNCHANGED found
      BY <3>1, <3>2
    <3>3. CASE \E s \in primary : /\ forOrg[c] = None \/ orgOf[s] = forOrg[c]
                                  /\ found' = [found EXCEPT ![c] = s]
                                  /\ was' = [was EXCEPT ![c] = orgOf[s]]
      BY <3>1, <3>3 DEF TypeInv, TypeOK, RowsInv
    <3>4. QED
      BY <1>4, <3>2, <3>3 DEF FindPrimary, Primaries
  <2>3. found'[c] # None => found'[c] \in Stored /\ was'[c] \in Org
    BY <2>2 DEF Stored, TypeInv, TypeOK
  <2>4. CallInv(c)'
    BY <2>1, <2>2, <2>3 DEF RowsInv, CallInv
  <2>5. ASSUME NEW d \in Call \ {c} PROVE CallInv(d)'
    <3>1. CallInv(d)
      BY DEF RowsInv
    <3>2. op[d] = "create" => target[d] # found'[c]
      BY <2>2, <2>3, <3>1 DEF CallInv, RowsInv
    <3>3. QED
      BY <2>1, <3>1, <3>2 DEF CallInv
  <2>6. QED
    BY <2>1, <2>4, <2>5 DEF RowsInv
<1>5. ASSUME NEW c \in Call, UnsetPrimary(c) \/ WriteSetting(c) PROVE RowsInv'
  <2>1. /\ UNCHANGED <<orgOf, primary, op, target, flag, forOrg, found, was>> /\ Stored' = Stored
        /\ pc[c] \in {"unset", "write"} /\ pc'[c] \in {"write", "commit"}
        /\ \A d \in Call \ {c} : pc'[d] = pc[d]
    BY <1>5 DEF UnsetPrimary, WriteSetting, Goto, rows, request, history, Stored,
         TypeInv, TypeOK
  <2>2. QED
    BY <2>1 DEF RowsInv, CallInv
<1>6. ASSUME NEW c \in Call, Commit(c) PROVE RowsInv'
  BY <1>6, CommitRows, EndRows DEF Commit
<1>7. ASSUME NEW c \in Call, AbortDeadlocked(c) PROVE RowsInv'
  <2>1. End(c) /\ UNCHANGED <<orgOf, primary>> /\ Stored' = Stored
    BY <1>7 DEF AbortDeadlocked, rows, Stored
  <2>2. QED
    BY <2>1, EndRows DEF RowsInv
<1>8. ASSUME NEW c \in Call, DeleteSetting(c) PROVE RowsInv'
  <2>1. \A s \in Setting : orgOf'[s] = IF s = target[c] THEN None ELSE orgOf[s]
    BY <1>8 DEF DeleteSetting, TypeInv, TypeOK
  <2>2. primary' \subseteq Stored'
    BY <1>8, <2>1 DEF DeleteSetting, RowsInv, Stored
  <2>3. \A s \in Stored' : s \in Stored
    BY <2>1 DEF Stored
  <2>4. QED
    BY <1>8, <2>2, <2>3, EndRows DEF DeleteSetting
<1>9. CASE UNCHANGED vars
  BY <1>9 DEF vars, rows, request, history, RowsInv, CallInv, Stored
<1>10. QED
  BY <1>1, <1>2, <1>3, <1>4, <1>5, <1>6, <1>7, <1>8, <1>9 DEF Next, Serve

\* Both invariants hold in every state.
LEMMA SettingsInvariants == Spec => [](TypeInv /\ RowsInv)
<1>1. Init => TypeInv /\ RowsInv
  BY InitTypeInv, InitRows
<1>2. TypeInv /\ RowsInv /\ [Next]_vars => TypeInv' /\ RowsInv'
  BY NextTypeInv, NextRows
<1>3. QED
  BY <1>1, <1>2, PTL DEF Spec

\* Only commits and removals write rows.
LEMMA RowsWritten ==
    ASSUME [Next]_vars, ~UNCHANGED rows
    PROVE  \E c \in Call : Commit(c) \/ DeleteSetting(c)
BY DEF Next, Serve, vars, rows, StartCreate, StartUpdate, StartRemove, Start,
       FindPrimary, UnsetPrimary, WriteSetting, AbortDeadlocked

\* A commit or a removal ends its call.
LEMMA WritersEnd ==
    ASSUME TypeInv, NEW c \in Call, Commit(c) \/ DeleteSetting(c)
    PROVE  /\ pc[c] \in {"commit", "delete"} /\ pc'[c] = "idle"
           /\ pc[c] = "commit" <=> Commit(c)
           /\ target[c] \in Setting
BY DEF Commit, DeleteSetting, End, TypeInv, TypeOK

\* A call unsets and moves only its own setting and the one that was primary in
\* the organization it names when it looked (OwnOrganizationOnly).
THEOREM OthersLeftAlone == Spec => OwnOrganizationOnly
<1>1. TypeInv /\ RowsInv /\ [Next]_vars => [OthersUntouched]_vars
  <2> SUFFICES ASSUME TypeInv, RowsInv, [Next]_vars, NEW s \in Stored,
                      s \in primary \ primary' \/ orgOf'[s] # orgOf[s]
               PROVE  \E c \in Call : /\ pc[c] # pc'[c]
                                      /\ \/ target[c] = s \/ forOrg[c] = None
                                         \/ found[c] = s /\ was[c] = forOrg[c]
    BY DEF OthersUntouched
  <2>1. PICK c \in Call : Commit(c) \/ DeleteSetting(c)
    BY RowsWritten DEF rows
  <2>2. pc[c] # pc'[c]
    BY <2>1, WritersEnd
  <2>3. CASE Commit(c)
    <3>1. s = target[c] \/ s = found[c]
      BY <2>3, CommitRows DEF Commit, Demoted, Stored
    <3>2. s # None /\ CallInv(c)
      BY SettingsAssumption DEF RowsInv, Stored
    <3>3. s = found[c] => forOrg[c] \in {was[c], None}
      BY <3>2 DEF CallInv
    <3>4. QED
      BY <2>2, <3>1, <3>3
  <2>4. CASE DeleteSetting(c)
    BY <2>2, <2>4 DEF DeleteSetting, TypeInv, TypeOK, Stored
  <2>5. QED
    BY <2>1, <2>3, <2>4
<1>2. QED
  BY <1>1, SettingsInvariants, PTL DEF Spec, OwnOrganizationOnly

\* The primary setting is switched in one step (NeverWithoutPrimary): the
\* commit that unsets one sets another of the same organization.
THEOREM PrimarySwitched == Spec => NeverWithoutPrimary
<1>1. TypeInv /\ RowsInv /\ [Next]_vars => [PrimaryStays]_vars
  <2> SUFFICES ASSUME TypeInv, RowsInv, [Next]_vars, NEW o \in Org,
                      Primaries(o) # {}, Primaries(o)' = {}
               PROVE  \E c \in Call : MayLeaveNone(c, o)
    BY DEF PrimaryStays
  <2>1. PICK c \in Call : Commit(c) \/ DeleteSetting(c)
    BY RowsWritten DEF rows, Primaries
  <2>2. CASE DeleteSetting(c)
    BY <2>1, <2>2, WritersEnd DEF DeleteSetting, MayLeaveNone, Ends
  <2>3. CASE Commit(c)
    <3>1. Ends(c, "commit") /\ target[c] \in Setting
      BY <2>3, WritersEnd DEF Ends
    <3> SUFFICES ASSUME flag[c] # FALSE, forOrg[c] # None, Exists(c),
                        ~MovesOwn(c, o), ~FoundElsewhere(c, o)
                 PROVE  FALSE
      BY <3>1 DEF MayLeaveNone
    <3>2. PICK s \in primary : orgOf[s] = o
      BY DEF Primaries
    <3>3. s \in Stored /\ s # None
      BY <3>2, SettingsAssumption DEF RowsInv, Stored
    <3>4. s \notin primary' \/ orgOf'[s] # o
      BY DEF Primaries
    <3>5. primary' = (primary \ {found[c]}) \cup Promoted(c)
      BY <2>3 DEF Commit, Demoted
    <3>6. CASE s # target[c] /\ s # found[c]
      BY <2>3, <3>2, <3>3, <3>4, <3>5, <3>6, CommitRows DEF Stored
    <3>7. CASE s = target[c]
      <4>1. orgOf'[s] = o
        BY <2>3, <3>2, <3>3, <3>7, CommitRows DEF MovesOwn
      <4>2. s \in primary'
        BY <3>3, <3>5, <3>7 DEF Promoted, RowsInv, CallInv
      <4>3. QED
        BY <3>4, <4>1, <4>2
    <3>8. CASE s = found[c] /\ s # target[c]
      <4>1. flag[c] = TRUE /\ forOrg[c] = o
        BY <3>2, <3>3, <3>8 DEF FoundElsewhere, RowsInv, CallInv
      <4>2. target[c] \in primary' /\ orgOf'[target[c]] = o
        BY <2>3, <3>5, <4>1, CommitRows DEF Promoted
      <4>3. QED
        BY <4>2 DEF Primaries
    <3>9. QED
      BY <3>6, <3>7, <3>8
  <2>4. QED
    BY <2>1, <2>2, <2>3
<1>2. QED
  BY <1>1, SettingsInvariants, PTL DEF Spec, NeverWithoutPrimary

-----------------------------------------------------------------------------
(* What overlapping calls cannot have changed.                              *)

\* The setting a removal has checked is still no primary one, unless it was
\* promoted since.
CheckedInv ==
    \A c \in Call : pc[c] = "delete" /\ target[c] \in primary => c \in promoted

\* As long as all is orderly, one call runs at most, its request does not go
\* around the switch, and it has found the one primary setting there may be.
OrderlyInv ==
    orderly =>
        /\ \A c, d \in Running : c = d
        /\ \A c \in Running : ~GoesAround(target[c], flag[c], forOrg[c])
        /\ \A s, t \in primary : orgOf[s] = orgOf[t] => s = t
        /\ \A c \in Running :
              /\ found[c] # None => was[c] = orgOf[found[c]]
              /\ pc[c] \in {"unset", "write", "commit"} /\ flag[c] = TRUE =>
                    \A s \in primary : orgOf[s] = forOrg[c] => s = found[c]

\* No calls and no settings at the start.
LEMMA InitAlone == Init => CheckedInv /\ OrderlyInv
BY DEF Init, CheckedInv, OrderlyInv, Running

\* A call that starts next to others is not orderly.
LEMMA StartAlone ==
    ASSUME TypeInv, RowsInv, CheckedInv, OrderlyInv, NEW c \in Call,
           NEW o, NEW t, NEW f, NEW g,
           NEW to \in {"find", "write", "delete"}, Start(c, o, t, f, g, to),
           to = "delete" => t \notin primary, to = "write" => f # TRUE
    PROVE  CheckedInv' /\ OrderlyInv'
<1>1. /\ Running' = Running \cup {c} /\ UNCHANGED <<orgOf, primary, found, promoted>>
      /\ pc'[c] = to /\ target'[c] = t /\ flag'[c] = f /\ forOrg'[c] = g
      /\ \A d \in Call \ {c} : pc'[d] = pc[d] /\ target'[d] = target[d]
      /\ orderly' = (orderly /\ Running = {} /\ ~GoesAround(t, f, g))
      /\ GoesAround(t, f, g)' = GoesAround(t, f, g)
  BY DEF Start, Goto, Running, rows, TypeInv, TypeOK, GoesAround
<1>2. CheckedInv'
  BY <1>1 DEF CheckedInv
<1>3. OrderlyInv'
  <2> SUFFICES ASSUME orderly' PROVE OrderlyInv'
    BY DEF OrderlyInv
  <2>1. orderly /\ Running' = {c} /\ ~GoesAround(t, f, g) /\ pc[c] = "idle"
    BY <1>1 DEF Start, Goto
  <2>2. found[c] = None
    BY <2>1 DEF RowsInv, CallInv
  <2>3. ~GoesAround(target[c], flag[c], forOrg[c])'
    BY <1>1, <2>1 DEF GoesAround
  <2>4. QED
    BY <1>1, <2>1, <2>2, <2>3 DEF OrderlyInv
<1>4. QED
  BY <1>2, <1>3

\* Steps of a running call that write no row.
LEMMA QuietAlone ==
    ASSUME TypeInv, CheckedInv, OrderlyInv, NEW c \in Running,
           UNCHANGED <<orgOf, primary, target, flag, forOrg, history>>, Running' = Running,
           pc'[c] # "delete",
           \A d \in Call \ {c} : pc'[d] = pc[d] /\ found'[d] = found[d] /\ was'[d] = was[d],
           orderly /\ found'[c] # None => was'[c] = orgOf[found'[c]],
           orderly /\ flag[c] = TRUE /\ pc'[c] \in {"unset", "write", "commit"} =>
              \A s \in primary : orgOf[s] = forOrg[c] => s = found'[c]
    PROVE  CheckedInv' /\ OrderlyInv'
<1>1. CheckedInv'
  BY DEF CheckedInv, history
<1>2. OrderlyInv'
  BY DEF OrderlyInv, GoesAround, history, Running
<1>3. QED
  BY <1>1, <1>2

\* A call that ends, next to removals that know what it promoted.
LEMMA EndAlone ==
    ASSUME TypeInv, CheckedInv, OrderlyInv, NEW c \in Running, End(c),
           promoted \subseteq promoted' \cup {c},
           \A d \in Call : pc[d] = "delete" /\ target[d] \in primary' \ primary => d \in promoted',
           orderly => \A s, t \in primary' : orgOf'[s] = orgOf'[t] => s = t
    PROVE  CheckedInv' /\ OrderlyInv'
<1>1. /\ Running' = Running \ {c} /\ orderly' = orderly /\ pc'[c] = "idle"
      /\ \A d \in Call \ {c} : pc'[d] = pc[d] /\ target'[d] = target[d]
  BY DEF End, Running, TypeInv, TypeOK
<1>2. CheckedInv'
  BY <1>1 DEF CheckedInv
<1>3. orderly => Running' = {}
  BY <1>1 DEF OrderlyInv
<1>4. OrderlyInv'
  BY <1>1, <1>3 DEF OrderlyInv
<1>5. QED
  BY <1>2, <1>4

\* Every step keeps both: one case per action.
LEMMA NextAlone ==
    TypeInv /\ RowsInv /\ CheckedInv /\ OrderlyInv /\ [Next]_vars => CheckedInv' /\ OrderlyInv'
<1> SUFFICES ASSUME TypeInv, RowsInv, CheckedInv, OrderlyInv, [Next]_vars
             PROVE  CheckedInv' /\ OrderlyInv'
  OBVIOUS
<1> DEFINE Inv == CheckedInv /\ OrderlyInv
<1>1. ASSUME NEW c \in Call, StartCreate(c) PROVE Inv'
  <2>1. PICK s \in Setting \ Stored, o \in Org, f \in BOOLEAN :
          Start(c, "create", s, f, o, IF f THEN "find" ELSE "write")
    BY <1>1 DEF StartCreate
  <2>2. CASE f
    BY <2>1, <2>2, StartAlone
  <2>3. CASE ~f
    BY <2>1, <2>3, StartAlone
  <2>4. QED
    BY <2>2, <2>3
<1>2. ASSUME NEW c \in Call, StartUpdate(c) PROVE Inv'
  <2>1. PICK s \in Setting, f \in BOOLEAN \cup {None}, o \in Org \cup {None} :
          Start(c, "update", s, f, o, IF f = TRUE THEN "find" ELSE "write")
    BY <1>2 DEF StartUpdate, Body
  <2>2. CASE f = TRUE
    BY <2>1, <2>2, StartAlone
  <2>3. CASE f # TRUE
    BY <2>1, <2>3, StartAlone
  <2>4. QED
    BY <2>2, <2>3
<1>3. ASSUME NEW c \in Call, StartRemove(c) PROVE Inv'
  BY <1>3, StartAlone DEF StartRemove
<1>4. ASSUME NEW c \in Call, FindPrimary(c) PROVE Inv'
  <2>1. /\ UNCHANGED <<orgOf, primary, target, flag, forOrg, history>> /\ Running' = Running
        /\ c \in Running /\ pc[c] = "find" /\ pc'[c] \in {"write", "unset"}
        /\ \A d \in Call \ {c} : pc'[d] = pc[d] /\ found'[d] = found[d] /\ was'[d] = was[d]
    BY <1>4 DEF FindPrimary, Goto, Running, rows, TypeInv, TypeOK
  <2>2. found'[c] # None => was'[c] = orgOf[found'[c]]
    <3>1. found[c] = None
      BY <2>1 DEF RowsInv, CallInv
    <3>2. CASE UNCHANGED <<found, was>>
      BY <3>1, <3>2
    <3>3. CASE \E s \in primary : /\ found' = [found EXCEPT ![c] = s]
                                  /\ was' = [was EXCEPT ![c] = orgOf[s]]
      BY <3>3 DEF TypeInv, TypeOK
    <3>4. QED
      BY <1>4, <3>2, <3>3 DEF FindPrimary, Primaries
  <2>3. ASSUME orderly, flag[c] = TRUE, NEW s \in primary, orgOf[s] = forOrg[c]
        PROVE  s = found'[c]
    <3>1. forOrg[c] # None
      BY <2>1, <2>3 DEF OrderlyInv, GoesAround
    <3>2. s \in Primaries(forOrg[c])
      BY <2>3 DEF Primaries
    <3>3. PICK t \in Primaries(forOrg[c]) : found' = [found EXCEPT ![c] = t]
      BY <1>4, <3>1, <3>2 DEF FindPrimary
    <3>4. t \in primary /\ orgOf[t] = orgOf[s]
      BY <2>3, <3>3 DEF Primaries
    <3>5. QED
      BY <2>3, <3>3, <3>4 DEF OrderlyInv, TypeInv, TypeOK
  <2>4. QED
    BY <2>1, <2>2, <2>3, QuietAlone
<1>5. ASSUME NEW c \in Call, UnsetPrimary(c) \/ WriteSetting(c) PROVE Inv'
  <2>1. /\ UNCHANGED <<orgOf, primary, target, flag, forOrg, found, was, history>>
        /\ Running' = Running /\ c \in Running
        /\ pc[c] \in {"unset", "write"} /\ pc'[c] \in {"write", "commit"}
        /\ \A d \in Call \ {c} : pc'[d] = pc[d]
    BY <1>5 DEF UnsetPrimary, WriteSetting, Goto, Running, rows, request, TypeInv, TypeOK
  <2>2. orderly =>
           /\ found'[c] # None => was'[c] = orgOf[found'[c]]
           /\ flag[c] = TRUE => \A s \in primary : orgOf[s] = forOrg[c] => s = found'[c]
    BY <2>1 DEF OrderlyInv
  <2>3. QED
    BY <2>1, <2>2, QuietAlone
<1>6. ASSUME NEW c \in Call, Commit(c) PROVE Inv'
  <2>1. /\ c \in Running /\ pc[c] = "commit" /\ target[c] \in Setting /\ End(c)
        /\ primary \subseteq Stored /\ CallInv(c)
    BY <1>6, WritersEnd DEF Commit, Running, RowsInv
  <2>2. \A d \in Call : pc[d] = "delete" /\ target[d] \in primary' \ primary => d \in promoted'
    BY <1>6 DEF Commit, NotePromotions
  <2>3. promoted \subseteq promoted'
    BY <1>6 DEF Commit, NotePromotions
  <2>4. ASSUME orderly, flag[c] = TRUE
        PROVE  \A s, t \in primary' : orgOf'[s] = orgOf'[t] => s = t
    <3>1. forOrg[c] # None
      BY <2>1, <2>4 DEF OrderlyInv, GoesAround
    <3>2. primary' \subseteq (primary \ {found[c]}) \cup {target[c]}
      BY <1>6 DEF Commit, Demoted, Promoted
    <3>3. target[c] \in primary' => orgOf'[target[c]] = forOrg[c]
      <4>1. target[c] \in primary' => Exists(c)
        BY <1>6, <2>1 DEF Commit, Promoted, Exists
      <4>2. QED
        BY <1>6, <3>1, <4>1, CommitRows
    <3>4. ASSUME NEW s \in primary', s # target[c]
          PROVE  /\ s \in primary /\ orgOf'[s] = orgOf[s]
                 /\ orgOf[s] # forOrg[c]
      <4>1. s \in primary /\ s # found[c]
        BY <3>2, <3>4
      <4>2. orgOf'[s] = orgOf[s]
        BY <1>6, <3>4, <4>1, CommitRows DEF TypeInv, TypeOK
      <4>3. QED
        BY <2>1, <2>4, <4>1, <4>2 DEF OrderlyInv
    <3>5. QED
      BY <2>4, <3>3, <3>4 DEF OrderlyInv
  <2>5. ASSUME orderly, flag[c] # TRUE
        PROVE  \A s, t \in primary' : orgOf'[s] = orgOf'[t] => s = t
    <3>1. found[c] = None /\ None \notin Setting
      BY <2>1, <2>5, SettingsAssumption DEF CallInv
    <3>2. primary' \subseteq primary /\ (flag[c] = FALSE => target[c] \notin primary')
      BY <1>6, <2>5 DEF Commit, Demoted, Promoted
    <3>3. ASSUME NEW s \in primary' PROVE orgOf'[s] = orgOf[s]
      <4>1. s \in Setting /\ s \in Stored /\ s # None
        BY <2>1, <3>1, <3>2 DEF Stored
      <4>2. CASE s # target[c]
        BY <1>6, <3>1, <4>1, <4>2, CommitRows
      <4>3. CASE s = target[c]
        <5>1. flag[c] = None
          BY <2>5, <3>2, <4>3 DEF TypeInv, TypeOK
        <5>2. forOrg[c] \in {None, orgOf[s]}
          BY <2>1, <2>5, <3>2, <4>3, <5>1 DEF OrderlyInv, GoesAround
        <5>3. Exists(c) /\ found[c] # target[c]
          BY <3>1, <4>1, <4>3 DEF Exists
        <5>4. QED
          BY <1>6, <4>3, <5>2, <5>3, CommitRows
      <4>4. QED
        BY <4>2, <4>3
    <3>4. QED
      BY <2>5, <3>2, <3>3 DEF OrderlyInv
  <2>6. QED
    BY <2>1, <2>2, <2>3, <2>4, <2>5, EndAlone
<1>7. ASSUME NEW c \in Call, AbortDeadlocked(c) PROVE Inv'
  <2>1. c \in Running /\ End(c) /\ UNCHANGED <<orgOf, primary, promoted>>
    BY <1>7 DEF AbortDeadlocked, rows
  <2>2. QED
    BY <2>1, EndAlone DEF OrderlyInv
<1>8. ASSUME NEW c \in Call, DeleteSetting(c) PROVE Inv'
  <2>1. c \in Running /\ End(c) /\ primary' \subseteq primary /\ promoted' = promoted \ {c}
        /\ \A s \in primary' : orgOf'[s] = orgOf[s]
    BY <1>8 DEF DeleteSetting, Running, TypeInv, TypeOK
  <2>2. orderly => \A s, t \in primary' : orgOf'[s] = orgOf'[t] => s = t
    BY <2>1 DEF OrderlyInv
  <2>3. QED
    BY <2>1, <2>2, EndAlone
<1>9. CASE UNCHANGED vars
  BY <1>9 DEF vars, rows, request, history, CheckedInv, OrderlyInv, GoesAround, Running
<1>10. QED
  BY <1>1, <1>2, <1>3, <1>4, <1>5, <1>6, <1>7, <1>8, <1>9 DEF Next, Serve

\* All of it holds in every state.
LEMMA AloneInvariants == Spec => [](TypeInv /\ RowsInv /\ CheckedInv /\ OrderlyInv)
<1>1. Init => TypeInv /\ RowsInv /\ CheckedInv /\ OrderlyInv
  BY InitTypeInv, InitRows, InitAlone
<1>2. TypeInv /\ RowsInv /\ CheckedInv /\ OrderlyInv /\ [Next]_vars
      => TypeInv' /\ RowsInv' /\ CheckedInv' /\ OrderlyInv'
  BY NextTypeInv, NextRows, NextAlone
<1>3. QED
  BY <1>1, <1>2, PTL DEF Spec

\* Without overlap, and when every promotion names its organization and no
\* primary setting is given away, there is one primary setting at most
\* (OnePrimaryOrderly).
THEOREM OneWhenOrderly == Spec => []OnePrimaryOrderly
<1>1. TypeInv /\ OrderlyInv => OnePrimaryOrderly
  <2> SUFFICES ASSUME OrderlyInv, orderly, NEW o \in Org
               PROVE  Cardinality(Primaries(o)) <= 1
    BY DEF OnePrimaryOrderly, OnePrimary
  <2>1. CASE Primaries(o) = {}
    BY <2>1, FS_EmptySet
  <2>2. CASE Primaries(o) # {}
    <3>1. PICK s \in Primaries(o) : TRUE
      BY <2>2
    <3>2. Primaries(o) = {s}
      BY <3>1 DEF OrderlyInv, Primaries
    <3>3. QED
      BY <3>2, FS_Singleton
  <2>3. QED
    BY <2>1, <2>2
<1>2. QED
  BY <1>1, AloneInvariants, PTL

\* A removal deletes a primary setting only when another call promoted it after
\* its check (PrimaryProtected).
THEOREM PrimaryKept == Spec => PrimaryProtected
<1>1. CheckedInv /\ [Next]_vars => [PrimaryDeleted]_vars
  BY DEF PrimaryDeleted, Ends, CheckedInv
<1>2. QED
  BY <1>1, AloneInvariants, PTL DEF Spec, PrimaryProtected

-----------------------------------------------------------------------------
(* Row locks: what can be said of waiting without liveness.                 *)

\* No row is locked by two transactions: each waits for the other's locks.
LocksExclusive ==
    \A c, d \in Call : c # d => LockedBy(c) \cap LockedBy(d) = {}

LEMMA InitLocks == Init => LocksExclusive
BY DEF Init, LocksExclusive, LockedBy

\* Locks stay exclusive when one call gets at most one more, a free one, and
\* the others none.
LEMMA LocksGrow ==
    ASSUME LocksExclusive, NEW c \in Call, NEW s,
           LockedBy(c)' \subseteq LockedBy(c) \cup {s},
           s \in LockedBy(c)' => ~Locked(s, c),
           \A d \in Call \ {c} : LockedBy(d)' \subseteq LockedBy(d)
    PROVE  LocksExclusive'
<1>1. ASSUME NEW d \in Call \ {c} PROVE LockedBy(c)' \cap LockedBy(d)' = {}
  BY DEF LocksExclusive, Locked
<1>2. ASSUME NEW d \in Call \ {c}, NEW e \in Call \ {c}, d # e
      PROVE  LockedBy(d)' \cap LockedBy(e)' = {}
  BY <1>2 DEF LocksExclusive
<1>3. QED
  BY <1>1, <1>2 DEF LocksExclusive

\* Every step keeps the locks exclusive: one case per action.
LEMMA NextLocks ==
    ASSUME TypeInv, RowsInv, LocksExclusive, [Next]_vars
    PROVE  LocksExclusive'
<1>1. None \notin Stored
  BY SettingsAssumption DEF Stored
<1>2. ASSUME NEW c \in Call, NEW o, NEW t, NEW f, NEW g, NEW to \in {"find", "write", "delete"},
             Start(c, o, t, f, g, to)
      PROVE  LocksExclusive'
  <2>1. /\ found' = found /\ Stored' = Stored /\ found[c] = None /\ pc'[c] = to
        /\ \A d \in Call \ {c} : pc'[d] = pc[d] /\ op'[d] = op[d] /\ target'[d] = target[d]
    BY <1>2 DEF Start, Goto, rows, Stored, TypeInv, TypeOK, RowsInv, CallInv
  <2>2. LockedBy(c)' = {}
    BY <1>1, <2>1 DEF LockedBy
  <2>3. \A d \in Call \ {c} : LockedBy(d)' = LockedBy(d)
    BY <2>1 DEF LockedBy
  <2>4. QED
    BY <2>2, <2>3, LocksGrow
<1>3. ASSUME NEW c \in Call, StartCreate(c) \/ StartUpdate(c) \/ StartRemove(c)
      PROVE  LocksExclusive'
  <2>1. CASE StartCreate(c)
    BY <1>2, <2>1 DEF StartCreate
  <2>2. CASE StartUpdate(c)
    BY <1>2, <2>2 DEF StartUpdate, Body
  <2>3. CASE StartRemove(c)
    BY <1>2, <2>3 DEF StartRemove
  <2>4. QED
    BY <1>3, <2>1, <2>2, <2>3
<1>4. ASSUME NEW c \in Call, FindPrimary(c) PROVE LocksExclusive'
  <2>1. /\ Stored' = Stored /\ op' = op /\ target' = target
        /\ pc'[c] = "unset" \/ (pc'[c] = "write" /\ found'[c] = None)
        /\ \A d \in Call \ {c} : pc'[d] = pc[d] /\ found'[d] = found[d]
    BY <1>4 DEF FindPrimary, Goto, rows, Stored, TypeInv, TypeOK, RowsInv, CallInv
  <2>2. LockedBy(c)' = {}
    BY <1>1, <2>1 DEF LockedBy
  <2>3. \A d \in Call \ {c} : LockedBy(d)' = LockedBy(d)
    BY <2>1 DEF LockedBy
  <2>4. QED
    BY <2>2, <2>3, LocksGrow
<1>5. ASSUME NEW c \in Call, UnsetPrimary(c) PROVE LocksExclusive'
  <2>1. /\ Stored' = Stored /\ op' = op /\ target' = target /\ found' = found
        /\ pc'[c] = "write" /\ ~Locked(found[c], c)
        /\ \A d \in Call \ {c} : pc'[d] = pc[d]
    BY <1>5 DEF UnsetPrimary, Goto, rows, request, Stored, TypeInv, TypeOK
  <2>2. LockedBy(c)' \subseteq {found[c]}
    BY <2>1 DEF LockedBy
  <2>3. \A d \in Call \ {c} : LockedBy(d)' = LockedBy(d)
    BY <2>1 DEF LockedBy
  <2>4. QED
    BY <2>1, <2>2, <2>3, LocksGrow
<1>6. ASSUME NEW c \in Call, WriteSetting(c) PROVE LocksExclusive'
  <2>1. /\ Stored' = Stored /\ op' = op /\ target' = target /\ found' = found
        /\ pc[c] = "write" /\ pc'[c] = "commit"
        /\ op[c] = "create" \/ ~Locked(target[c], c)
        /\ \A d \in Call \ {c} : pc'[d] = pc[d]
    BY <1>6 DEF WriteSetting, Goto, rows, request, Stored, TypeInv, TypeOK
  <2>2. \A d \in Call \ {c} : LockedBy(d)' = LockedBy(d)
    BY <2>1 DEF LockedBy
  <2>3. CASE op[c] = "update"
    <3>1. LockedBy(c)' \subseteq LockedBy(c) \cup {target[c]}
      BY <2>1 DEF LockedBy
    <3>2. QED
      BY <2>1, <2>2, <2>3, <3>1, LocksGrow
  <2>4. CASE op[c] # "update"
    <3>1. LockedBy(c)' = LockedBy(c)
      BY <2>1, <2>4 DEF LockedBy
    <3>2. QED
      BY <2>2, <3>1 DEF LocksExclusive
  <2>5. QED
    BY <2>3, <2>4
<1>7. ASSUME NEW c \in Call, End(c),
             \A s \in Stored' : s \in Stored \/ (op[c] = "create" /\ s = target[c])
      PROVE  LocksExclusive'
  <2>1. /\ pc'[c] = "idle"
        /\ \A d \in Call \ {c} : /\ pc'[d] = pc[d] /\ op'[d] = op[d]
                                 /\ target'[d] = target[d] /\ found'[d] = found[d]
    BY <1>7 DEF End, TypeInv, TypeOK
  <2>2. LockedBy(c)' = {}
    BY <2>1 DEF LockedBy
  <2>3. ASSUME NEW d \in Call \ {c} PROVE LockedBy(d)' \subseteq LockedBy(d)
    <3>1. op[c] = "create" => target[c] \notin {target[d], found[d]}
      BY DEF RowsInv, CallInv
    <3>2. QED
      BY <1>7, <2>1, <3>1 DEF LockedBy
  <2>4. QED
    BY <2>2, <2>3, LocksGrow
<1>8. ASSUME NEW c \in Call, Commit(c) PROVE LocksExclusive'
  BY <1>7, <1>8, CommitRows DEF Commit
<1>9. ASSUME NEW c \in Call, AbortDeadlocked(c) PROVE LocksExclusive'
  BY <1>7, <1>9 DEF AbortDeadlocked, rows, Stored
<1>10. ASSUME NEW c \in Call, DeleteSetting(c) PROVE LocksExclusive'
  <2>1. Stored' \subseteq Stored
    BY <1>10 DEF DeleteSetting, Stored, TypeInv, TypeOK
  <2>2. QED
    BY <1>7, <1>10, <2>1 DEF DeleteSetting
<1>11. CASE UNCHANGED vars
  BY <1>11 DEF vars, rows, request, LocksExclusive, LockedBy, Stored
<1>12. QED
  BY <1>3, <1>4, <1>5, <1>6, <1>8, <1>9, <1>10, <1>11 DEF Next, Serve

\* A row is updated by one uncommitted transaction at a time, whatever create
\* and update do at the same time.
THEOREM RowLocksExclusive == Spec => []LocksExclusive
<1>1. TypeInv /\ RowsInv /\ LocksExclusive /\ [Next]_vars => LocksExclusive'
  BY NextLocks
<1>2. QED
  BY <1>1, InitLocks, SettingsInvariants, PTL DEF Spec

-----------------------------------------------------------------------------

\* A call that waits for a row lock; every other running call can go on: in
\* "find", "commit" and the "write" of a creation nothing is waited for.
Blocked(c) == Locked(Wanted(c), c)

\* Calls each of which waits for another one of them.
AllWait(S) == \A d \in S : \E e \in S \ {d} : Wanted(d) \in LockedBy(e)

\* When every running call waits, some of them wait for each other: a smallest
\* set of calls that wait within the set is a deadlock.
LEMMA StandstillIsDeadlock ==
    ASSUME TypeInv, Running # {}, \A c \in Running : Blocked(c)
    PROVE  \E circle \in SUBSET Running : circle # {} /\ Deadlock(circle)
<1> DEFINE T == {S \in SUBSET Running : S # {} /\ AllWait(S)}
           R == StrictSubsetOrdering(Call)
<1>1. AllWait(Running)
  <2> SUFFICES ASSUME NEW c \in Running
               PROVE  \E e \in Running \ {c} : Wanted(c) \in LockedBy(e)
    BY DEF AllWait
  <2>1. PICK e \in Call \ {c} : Wanted(c) \in LockedBy(e)
    BY DEF Blocked, Locked
  <2>2. e \in Running
    BY <2>1 DEF LockedBy, Running
  <2>3. QED
    BY <2>1, <2>2
<1>2. IsWellFoundedOn(R, SUBSET Call)
  BY SettingsAssumption, FS_FiniteSubsetsOfFinite, FS_StrictSubsetOrderingWellFounded
<1>3. T \subseteq SUBSET Call /\ T # {}
  <2>1. Running \in T
    BY <1>1
  <2>2. QED
    BY <2>1 DEF Running
<1>4. PICK C \in T : \A D \in T : ~(<<D, C>> \in R)
  <2> HIDE DEF T, R
  <2>1. QED
    BY <1>2, <1>3, WFMin
<1>5. ASSUME NEW e \in C PROVE \E d \in C \ {e} : Wanted(d) \in LockedBy(e)
  <2> SUFFICES ASSUME \A d \in C \ {e} : Wanted(d) \notin LockedBy(e) PROVE FALSE
    OBVIOUS
  <2>1. AllWait(C)
    OBVIOUS
  <2>2. AllWait(C \ {e})
    BY <2>1 DEF AllWait
  <2>3. C \ {e} # {}
    BY <2>1 DEF AllWait
  <2>4. C \ {e} \in T
    BY <2>2, <2>3
  <2>5. <<C \ {e}, C>> \in R
    BY DEF StrictSubsetOrdering, Running
  <2>6. QED
    BY <1>4, <2>4, <2>5
<1>6. C \in SUBSET Running /\ C # {} /\ AllWait(C)
  OBVIOUS
<1>7. QED
  BY <1>5, <1>6 DEF Deadlock, AllWait

\* Somebody can always be served: of the running calls one does not wait, or
\* is in a deadlock that Postgres breaks.
SomebodyGoesOn ==
    Running # {} =>
        \E c \in Running :
            \/ ~Blocked(c)
            \/ \E circle \in SUBSET Running : c \in circle /\ Deadlock(circle)

\* No number of overlapping calls waits for each other for ever, but for what
\* aborting a deadlock resolves (create, update and remove).
THEOREM NobodyStuck == Spec => []SomebodyGoesOn
<1>1. TypeInv => SomebodyGoesOn
  BY StandstillIsDeadlock DEF SomebodyGoesOn
<1>2. QED
  BY <1>1, SettingsInvariants, PTL

\* Postgres aborts only updates that switch the primary setting: a creation
\* and a removal wait for no row, or hold none.
VictimsSwitch ==
    \A c \in Call : AbortDeadlocked(c) =>
        op[c] = "update" /\ flag[c] = TRUE /\ found[c] \in Stored

\* A deadlock costs nobody but the promotions that caused it.
THEOREM OnlyPromotionsAborted == Spec => [][VictimsSwitch]_vars
<1>1. TypeInv /\ RowsInv /\ [Next]_vars => [VictimsSwitch]_vars
  <2> SUFFICES ASSUME TypeInv, RowsInv, NEW c \in Call, AbortDeadlocked(c)
               PROVE  op[c] = "update" /\ flag[c] = TRUE /\ found[c] \in Stored
    BY DEF VictimsSwitch
  <2>1. PICK circle \in SUBSET Running : c \in circle /\ Deadlock(circle)
    BY DEF AbortDeadlocked
  <2>2. PICK d \in circle, e \in circle :
           Wanted(c) \in LockedBy(d) /\ Wanted(e) \in LockedBy(c)
    BY <2>1 DEF Deadlock
  <2>3. None \notin LockedBy(d)
    BY SettingsAssumption DEF LockedBy, Stored
  <2>4. pc[c] \in {"unset", "write", "delete"} /\ (pc[c] # "unset" => op[c] # "create")
    BY <2>2, <2>3 DEF Wanted
  <2>5. pc[c] = "write" /\ found[c] \in Stored
    BY <2>2, <2>4 DEF LockedBy
  <2>6. QED
    BY <2>4, <2>5, SettingsAssumption DEF RowsInv, CallInv, Stored
<1>2. QED
  BY <1>1, SettingsInvariants, PTL DEF Spec

=============================================================================
