------------------------ MODULE PasswordResetProofs ------------------------
(***************************************************************************)
(* Proofs about PasswordReset and Sessions for every number of overlapping *)
(* calls and every number of browsers.                                     *)
(***************************************************************************)
EXTENDS Sessions, TLAPS

\* The initial state has the right types.
LEMMA InitTypeOK == Init => TypeOK
BY ResetAssumption DEF Init, TypeOK, Row, Fresh, Steps

\* An UPDATE of some of the columns leaves a well-typed row.
LEMMA SavedType ==
    ASSUME TypeOK, NEW c \in Call
    PROVE  /\ Saved(c) \in Row
           /\ \A col \in {"password", "token", "expires", "rid"} :
                 Saved(c)[col] = IF entity[c][col] # loaded[c][col]
                                 THEN entity[c][col] ELSE row[col]
<1>1. row \in Row /\ entity[c] \in Row /\ loaded[c] \in Row
  BY DEF TypeOK
<1>2. DOMAIN row = {"password", "token", "expires", "rid"}
  BY <1>1 DEF Row
<1>3. Saved(c) = [col \in {"password", "token", "expires", "rid"} |->
                    IF entity[c][col] # loaded[c][col] THEN entity[c][col] ELSE row[col]]
  BY <1>2 DEF Saved
<1>4. Saved(c) \in Row
  BY <1>1, <1>3 DEF Row
<1>5. QED
  BY <1>3, <1>4

\* Every step keeps the types: one case per action.
LEMMA NextTypeOK == TypeOK /\ [Next]_vars => TypeOK'
<1> SUFFICES ASSUME TypeOK, [Next]_vars PROVE TypeOK'
  OBVIOUS
<1> USE DEF TypeOK, Goto, Call, Steps, calls
<1>1. ASSUME NEW i \in Initiation, ReadUser(i) PROVE TypeOK'
  BY <1>1 DEF ReadUser, Begin, Running
<1>2. ASSUME NEW i \in Initiation, StoreLink(i) PROVE TypeOK'
  <2>1. entity' \in [Call -> Row]
    BY <1>2 DEF StoreLink, Row
  <2>2. QED
    BY <1>2, <2>1 DEF StoreLink
<1>3. ASSUME NEW i \in Initiation, UpdateUser(i) \/ PublishLink(i) \/ Expire(i)
      PROVE  TypeOK'
  BY <1>3 DEF UpdateUser, PublishLink, Expire
<1>4. ASSUME NEW i \in Initiation, CommitLink(i) PROVE TypeOK'
  BY <1>4, SavedType DEF CommitLink
<1>5. ASSUME NEW s \in Submission, AcceptLink(s) PROVE TypeOK'
  BY <1>5 DEF AcceptLink, Begin, Running
<1>6. ASSUME NEW s \in Submission, RejectLink(s) \/ RejectToken(s) PROVE TypeOK'
  BY <1>6 DEF RejectLink, RejectToken
<1>7. ASSUME NEW s \in Submission, StorePassword(s) PROVE TypeOK'
  <2>1. [Fresh EXCEPT !.password = s] \in Row
    BY DEF Fresh, Row
  <2>2. QED
    BY <1>7, <2>1 DEF StorePassword
<1>8. ASSUME NEW s \in Submission, UpdatePassword(s) PROVE TypeOK'
  BY <1>8, SavedType DEF UpdatePassword
<1>9. ASSUME NEW c \in Call, Fails(c) PROVE TypeOK'
  BY <1>9, ResetAssumption DEF Fails
<1>10. CASE Quiet \/ UNCHANGED vars
  BY <1>10 DEF Quiet, vars
<1>11. QED
  BY <1>1, <1>2, <1>3, <1>4, <1>5, <1>6, <1>7, <1>8, <1>9, <1>10
     DEF Next, RequestForgetPassword, SubmitForgotPassword

-----------------------------------------------------------------------------

\* No link anywhere at the start.
LEMMA InitReset == Init => ResetInv
BY ResetAssumption DEF Init, ResetInv, LinkColumnsAgree, StoredLinkMailed, Together,
                       Fresh, Call

\* Columns that agree before, in the entity and in what save() found agree
\* afterwards: the three differ together or not at all.
LEMMA SavedTogether ==
    ASSUME TypeOK, ResetInv, NEW c \in Call
    PROVE  /\ Together(Saved(c))
           /\ Saved(c).rid \in {entity[c].rid, row.rid}
<1>1. Together(entity[c]) /\ Together(loaded[c]) /\ Together(row)
  BY DEF ResetInv, LinkColumnsAgree, Together
<1>2. QED
  BY <1>1, SavedType DEF Together

\* Every step keeps the invariant: one case per action.
LEMMA NextReset == TypeOK /\ ResetInv /\ [Next]_vars => ResetInv'
<1> SUFFICES ASSUME TypeOK, ResetInv, [Next]_vars PROVE ResetInv'
  OBVIOUS
<1> USE DEF TypeOK, ResetInv, LinkColumnsAgree, StoredLinkMailed, Goto, Call, Steps, calls
<1>0. Initiation \cap Submission = {} /\ None \notin Initiation
  BY ResetAssumption
<1>1. ASSUME NEW i \in Initiation, ReadUser(i) PROVE ResetInv'
  BY <1>0, <1>1 DEF ReadUser, Together
<1>2. ASSUME NEW i \in Initiation, StoreLink(i) PROVE ResetInv'
  <2>1. entity'[i] = [entity[i] EXCEPT !.token = i, !.expires = i, !.rid = i]
    BY <1>2 DEF StoreLink
  <2>2. entity'[i].rid = i /\ Together(entity'[i])
    BY <2>1 DEF Row, Together
  <2>3. loaded'[i] = row /\ Together(row)
    BY <1>2 DEF StoreLink, Together
  <2>4. \A c \in Call \ {i} : entity'[c] = entity[c] /\ loaded'[c] = loaded[c]
                              /\ pc'[c] = pc[c]
    BY <1>2 DEF StoreLink
  <2>5. pc'[i] = "update" /\ UNCHANGED <<row, mailed>>
    BY <1>2 DEF StoreLink
  <2>6. \A c \in Call : Together(entity'[c]) /\ Together(loaded'[c])
    BY <2>2, <2>3, <2>4
  <2>7. \A j \in Initiation :
          /\ pc'[j] \in {"update", "publish", "commit"} => entity'[j].rid = j
          /\ pc'[j] = "commit" => j \in mailed'
    BY <2>2, <2>4, <2>5
  <2>8. \A s \in Submission :
          /\ pc'[s] \in {"idle", "hash", "update", "done", "failed"}
          /\ pc'[s] = "update" => entity'[s].rid = None
    BY <1>0, <2>4
  <2>9. QED
    BY <2>5, <2>6, <2>7, <2>8 DEF Together
<1>3. ASSUME NEW i \in Initiation, UpdateUser(i) \/ PublishLink(i) \/ Expire(i)
      PROVE  ResetInv'
  BY <1>0, <1>3 DEF UpdateUser, PublishLink, Expire
<1>4. ASSUME NEW i \in Initiation, CommitLink(i) PROVE ResetInv'
  <2>1. Together(row') /\ row'.rid \in {entity[i].rid, row.rid}
    BY <1>4, SavedTogether DEF CommitLink
  <2>2. entity[i].rid = i /\ i \in mailed
    BY <1>4 DEF CommitLink
  <2>3. row'.token = row'.rid /\ row'.expires = row'.rid
    BY <2>1 DEF Together
  <2>4. row'.rid # None => row'.rid \in mailed'
    BY <1>4, <2>1, <2>2 DEF CommitLink
  <2>5. UNCHANGED <<mailed, entity, loaded>> /\ \A c \in Call \ {i} : pc'[c] = pc[c]
    BY <1>4 DEF CommitLink
  <2>6. pc'[i] = "done"
    BY <1>4 DEF CommitLink
  <2>7. QED
    BY <1>0, <2>3, <2>4, <2>5, <2>6
<1>5. ASSUME NEW s \in Submission, AcceptLink(s) PROVE ResetInv'
  BY <1>0, <1>5 DEF AcceptLink, Together
<1>6. ASSUME NEW s \in Submission, RejectLink(s) \/ RejectToken(s) PROVE ResetInv'
  BY <1>0, <1>6 DEF RejectLink, RejectToken
<1>7. ASSUME NEW s \in Submission, StorePassword(s) PROVE ResetInv'
  <2>1. entity'[s].rid = None /\ Together(entity'[s])
    BY <1>7 DEF StorePassword, Fresh, Together
  <2>2. loaded'[s] = row /\ Together(row)
    BY <1>7 DEF StorePassword, Together
  <2>3. \A c \in Call \ {s} : entity'[c] = entity[c] /\ loaded'[c] = loaded[c]
                              /\ pc'[c] = pc[c]
    BY <1>7 DEF StorePassword
  <2>4. pc'[s] = "update" /\ UNCHANGED <<row, mailed>>
    BY <1>7 DEF StorePassword
  <2>5. \A c \in Call : Together(entity'[c]) /\ Together(loaded'[c])
    BY <2>1, <2>2, <2>3
  <2>6. QED
    BY <1>0, <2>1, <2>3, <2>4, <2>5
<1>8. ASSUME NEW s \in Submission, UpdatePassword(s) PROVE ResetInv'
  <2>1. Together(row') /\ row'.rid \in {entity[s].rid, row.rid}
    BY <1>8, SavedTogether DEF UpdatePassword
  <2>2. entity[s].rid = None
    BY <1>8 DEF UpdatePassword
  <2>3. row'.token = row'.rid /\ row'.expires = row'.rid
    BY <2>1 DEF Together
  <2>4. UNCHANGED <<mailed, entity, loaded>> /\ \A c \in Call \ {s} : pc'[c] = pc[c]
    BY <1>8 DEF UpdatePassword
  <2>5. pc'[s] = "done"
    BY <1>8 DEF UpdatePassword
  <2>6. QED
    BY <1>0, <2>1, <2>2, <2>3, <2>4, <2>5
<1>9. ASSUME NEW c \in Call, Fails(c) PROVE ResetInv'
  BY <1>0, <1>9 DEF Fails
<1>10. CASE Quiet \/ UNCHANGED vars
  BY <1>10 DEF Quiet, vars
<1>11. QED
  BY <1>1, <1>2, <1>3, <1>4, <1>5, <1>6, <1>7, <1>8, <1>9, <1>10
     DEF Next, RequestForgetPassword, SubmitForgotPassword

\* The link columns of the row belong together (LinkColumnsAgree), whatever
\* the overlap of saves that write them column by column.
THEOREM LinksWhole == Spec => []LinkColumnsAgree
<1>1. Init => TypeOK /\ ResetInv
  BY InitTypeOK, InitReset
<1>2. TypeOK /\ ResetInv /\ [Next]_vars => TypeOK' /\ ResetInv'
  BY NextTypeOK, NextReset
<1>3. ResetInv => LinkColumnsAgree
  BY DEF ResetInv
<1>4. QED
  BY <1>1, <1>2, <1>3, PTL DEF Spec

\* A stored link is a mailed link (StoredLinkMailed): the mail is queued
\* before the transaction that stores the link commits.
THEOREM LinksMailed == Spec => []StoredLinkMailed
<1>1. Init => TypeOK /\ ResetInv
  BY InitTypeOK, InitReset
<1>2. TypeOK /\ ResetInv /\ [Next]_vars => TypeOK' /\ ResetInv'
  BY NextTypeOK, NextReset
<1>3. ResetInv => StoredLinkMailed
  BY DEF ResetInv
<1>4. QED
  BY <1>1, <1>2, <1>3, PTL DEF Spec

-----------------------------------------------------------------------------
(* Calls served alone, and links that are used up.                         *)

\* A call that has met no other one is the only one running, and nothing it
\* read has changed since.
AloneInv ==
    \A c \in Running \ overlapped :
        /\ \A d \in Running : d = c
        /\ pc[c] = "hash" => entity[c] = row
        /\ pc[c] \in {"update", "publish", "commit"} =>
              loaded[c] = row /\ (c \in Initiation => entity[c].password = row.password)
        /\ c \in Submission => row.rid = link[c]

\* A link enters the row once, when its initiation ends.  So a submission that
\* finds it gone, or clears it, leaves nothing another one could accept.
LinkInv ==
    /\ row.rid # None => pc[row.rid] = "done"
    /\ \A s \in Submission :
          /\ pc[s] \in {"hash", "update", "done"} =>
                link[s] \in Initiation /\ pc[link[s]] = "done"
          /\ pc[s] = "update" =>
                entity[s].password = s /\ (row.rid = link[s] => loaded[s].rid = link[s])
          /\ pc[s] = "done" => row.rid # link[s]

\* No call runs at the start.
LEMMA InitAlone == Init => AloneInv /\ LinkInv
BY DEF Init, AloneInv, LinkInv, Running, Fresh, Call

\* Every step keeps AloneInv: one case per kind of step.
LEMMA NextAlone == TypeOK /\ ResetInv /\ AloneInv /\ [Next]_vars => AloneInv'
<1> SUFFICES ASSUME TypeOK, ResetInv, AloneInv, [Next]_vars PROVE AloneInv'
  OBVIOUS
<1>0. Initiation \cap Submission = {} /\ None \notin Call
  BY ResetAssumption
<1>1. ASSUME NEW c \in Call, Begin(c), Goto(c, "idle", "hash"),
             entity' = [entity EXCEPT ![c] = row], UNCHANGED <<row, loaded>>,
             c \in Submission => link'[c] = row.rid
      PROVE  AloneInv'
  <2>1. Running' = Running \cup {c} /\ c \notin Running
    BY <1>1 DEF TypeOK, Goto, Running
  <2>2. CASE Running = {}
    BY <1>1, <2>1, <2>2 DEF AloneInv, TypeOK, Goto
  <2>3. CASE Running # {}
    <3>1. overlapped' = overlapped \cup Running \cup {c}
      BY <1>1, <2>3 DEF Begin
    <3>2. QED
      BY <2>1, <3>1 DEF AloneInv
  <2>4. QED
    BY <2>2, <2>3
<1>2. ASSUME NEW i \in Initiation, ReadUser(i) PROVE AloneInv'
  BY <1>0, <1>1, <1>2 DEF ReadUser, Call
<1>3. ASSUME NEW s \in Submission, AcceptLink(s) PROVE AloneInv'
  <2>1. link'[s] = row.rid
    BY <1>3 DEF AcceptLink, TypeOK
  <2>2. QED
    BY <1>1, <1>3, <2>1 DEF AcceptLink, Call
<1>4. ASSUME NEW i \in Initiation, StoreLink(i) PROVE AloneInv'
  <2>1. Running' = Running /\ i \in Running /\ i \in Call
    BY <1>4 DEF StoreLink, TypeOK, Goto, Running, Call
  <2>2. /\ pc[i] = "hash" /\ pc'[i] = "update" /\ loaded'[i] = row
        /\ entity'[i].password = entity[i].password
        /\ UNCHANGED <<row, overlapped>>
    BY <1>4, <2>1 DEF StoreLink, TypeOK, Goto, Row
  <2>3. QED
    BY <1>0, <2>1, <2>2 DEF AloneInv
<1>5. ASSUME NEW s \in Submission, StorePassword(s) PROVE AloneInv'
  <2>1. Running' = Running /\ s \in Running /\ s \in Call
    BY <1>5 DEF StorePassword, TypeOK, Goto, Running, Call
  <2>2. /\ pc'[s] = "update" /\ loaded'[s] = row
        /\ UNCHANGED <<row, overlapped, link>>
    BY <1>5, <2>1 DEF StorePassword, TypeOK, Goto
  <2>3. QED
    BY <1>0, <2>1, <2>2 DEF AloneInv
<1>6. ASSUME NEW i \in Initiation, UpdateUser(i) \/ PublishLink(i) PROVE AloneInv'
  <2>1. Running' = Running /\ i \in Running /\ i \in Call
    BY <1>6 DEF UpdateUser, PublishLink, TypeOK, Goto, Running, Call
  <2>2. /\ pc[i] \in {"update", "publish"} /\ pc'[i] \in {"publish", "commit"}
        /\ UNCHANGED <<row, overlapped, link, entity, loaded>>
    BY <1>6, <2>1 DEF UpdateUser, PublishLink, TypeOK, Goto
  <2>3. QED
    BY <1>0, <2>1, <2>2 DEF AloneInv
<1>7. ASSUME NEW c \in Running, Running' = Running \ {c}, UNCHANGED overlapped
      PROVE  AloneInv'
  BY <1>7 DEF AloneInv
<1>8. ASSUME NEW i \in Initiation, CommitLink(i) PROVE AloneInv'
  <2>1. i \in Running /\ Running' = Running \ {i}
    BY <1>8 DEF CommitLink, TypeOK, Goto, Running, Call
  <2>2. QED
    BY <1>7, <1>8, <2>1 DEF CommitLink
<1>9. ASSUME NEW s \in Submission, UpdatePassword(s) \/ RejectToken(s) PROVE AloneInv'
  <2>1. s \in Running /\ Running' = Running \ {s}
    BY <1>9 DEF UpdatePassword, RejectToken, TypeOK, Goto, Running, Call
  <2>2. QED
    BY <1>7, <1>9, <2>1 DEF UpdatePassword, RejectToken
<1>10. ASSUME NEW c \in Call, Fails(c) PROVE AloneInv'
  <2>1. c \in Running /\ Running' = Running \ {c}
    BY <1>10 DEF Fails, TypeOK, Running
  <2>2. QED
    BY <1>7, <1>10, <2>1 DEF Fails
<1>11. ASSUME NEW s \in Submission, RejectLink(s) PROVE AloneInv'
  <2>1. Running' = Running /\ s \in Call /\ s \notin Running
    BY <1>11 DEF RejectLink, TypeOK, Goto, Running, Call
  <2>2. /\ UNCHANGED <<row, overlapped, entity, loaded>>
        /\ \A c \in Running : pc'[c] = pc[c]
        /\ \A c \in Submission \ {s} : link'[c] = link[c]
    BY <1>11, <2>1 DEF RejectLink, TypeOK, Goto, Running
  <2>3. QED
    BY <2>1, <2>2 DEF AloneInv
<1>12. CASE Quiet \/ UNCHANGED vars \/ \E l \in Initiation : Expire(l)
  BY <1>12 DEF Quiet, Expire, vars, calls, AloneInv, Running
<1>13. QED
  BY <1>2, <1>3, <1>4, <1>5, <1>6, <1>8, <1>9, <1>10, <1>11, <1>12
     DEF Next, RequestForgetPassword, SubmitForgotPassword

\* Every step keeps LinkInv: one case per action.
LEMMA NextLink ==
    TypeOK /\ ResetInv /\ AloneInv /\ LinkInv /\ [Next]_vars => LinkInv'
<1> SUFFICES ASSUME TypeOK, ResetInv, AloneInv, LinkInv, [Next]_vars PROVE LinkInv'
  OBVIOUS
<1>0. /\ Initiation \cap Submission = {} /\ None \notin Initiation
      /\ Initiation \subseteq Call /\ Submission \subseteq Call
      /\ row.rid \in Initiation \cup {None}
  BY ResetAssumption DEF Call, TypeOK, Row
<1>1. ASSUME NEW i \in Initiation, ReadUser(i) \/ StoreLink(i) \/ UpdateUser(i) \/ PublishLink(i)
      PROVE  LinkInv'
  <2>1. /\ pc[i] # "done" /\ \A c \in Call \ {i} : pc'[c] = pc[c]
        /\ UNCHANGED <<row, link>> /\ overlapped \subseteq overlapped'
        /\ \A s \in Submission : entity'[s] = entity[s] /\ loaded'[s] = loaded[s]
    BY <1>0, <1>1 DEF ReadUser, StoreLink, UpdateUser, PublishLink, Goto, Begin, TypeOK
  <2>2. QED
    BY <1>0, <2>1 DEF LinkInv
<1>2. ASSUME NEW i \in Initiation, CommitLink(i) PROVE LinkInv'
  <2>1. /\ pc[i] = "commit" /\ pc'[i] = "done" /\ \A c \in Call \ {i} : pc'[c] = pc[c]
        /\ UNCHANGED <<link, overlapped, entity, loaded>>
    BY <1>0, <1>2 DEF CommitLink, Goto, TypeOK
  <2>2. row'.rid \in {i, row.rid}
    BY <1>0, <1>2, <2>1, SavedTogether DEF CommitLink, ResetInv
  <2>3. QED
    BY <1>0, <2>1, <2>2 DEF LinkInv
<1>3. ASSUME NEW s \in Submission, AcceptLink(s) PROVE LinkInv'
  <2>1. /\ pc[s] = "idle" /\ pc'[s] = "hash" /\ \A c \in Call \ {s} : pc'[c] = pc[c]
        /\ link'[s] = row.rid /\ row.rid \in Initiation
        /\ \A t \in Submission \ {s} : link'[t] = link[t] /\ entity'[t] = entity[t]
        /\ UNCHANGED <<row, loaded>> /\ overlapped \subseteq overlapped'
    BY <1>0, <1>3 DEF AcceptLink, Goto, Begin, TypeOK
  <2>2. QED
    BY <1>0, <2>1 DEF LinkInv
<1>4. ASSUME NEW s \in Submission, RejectLink(s) \/ RejectToken(s) PROVE LinkInv'
  <2>1. /\ pc'[s] = "failed" /\ \A c \in Call \ {s} : pc'[c] = pc[c]
        /\ \A t \in Submission \ {s} : link'[t] = link[t]
        /\ UNCHANGED <<row, loaded, entity, overlapped>>
    BY <1>0, <1>4 DEF RejectLink, RejectToken, Goto, TypeOK
  <2>2. QED
    BY <1>0, <2>1 DEF LinkInv
<1>5. ASSUME NEW s \in Submission, StorePassword(s) PROVE LinkInv'
  <2>1. /\ pc[s] = "hash" /\ pc'[s] = "update" /\ \A c \in Call \ {s} : pc'[c] = pc[c]
        /\ loaded'[s] = row /\ entity'[s].password = s
        /\ \A t \in Submission \ {s} : entity'[t] = entity[t] /\ loaded'[t] = loaded[t]
        /\ UNCHANGED <<row, link, overlapped>>
    BY <1>0, <1>5 DEF StorePassword, Goto, TypeOK, Fresh
  <2>2. QED
    BY <1>0, <2>1 DEF LinkInv
<1>6. ASSUME NEW s \in Submission, UpdatePassword(s) PROVE LinkInv'
  <2>1. /\ pc[s] = "update" /\ pc'[s] = "done" /\ \A c \in Call \ {s} : pc'[c] = pc[c]
        /\ s \in Running /\ row' = Saved(s)
        /\ UNCHANGED <<link, loaded, entity, overlapped>>
    BY <1>0, <1>6 DEF UpdatePassword, Goto, TypeOK, Running
  <2>2. /\ link[s] \in Initiation /\ entity[s].rid = None
        /\ row.rid = link[s] => loaded[s].rid = link[s]
    BY <2>1 DEF LinkInv, ResetInv
  <2>3. row'.rid \in {None, row.rid} /\ row'.rid # link[s]
    BY <1>0, <2>1, <2>2, SavedType
  <2>4. QED
    BY <1>0, <2>1, <2>2, <2>3 DEF LinkInv
<1>7. ASSUME NEW c \in Call, Fails(c) PROVE LinkInv'
  <2>1. /\ pc[c] # "done" /\ pc'[c] = "failed" /\ \A d \in Call \ {c} : pc'[d] = pc[d]
        /\ UNCHANGED <<row, link, loaded, entity, overlapped>>
    BY <1>7 DEF Fails, Running, TypeOK
  <2>2. QED
    BY <1>0, <2>1 DEF LinkInv
<1>8. CASE Quiet \/ UNCHANGED vars \/ \E l \in Initiation : Expire(l)
  BY <1>8 DEF Quiet, Expire, vars, calls, LinkInv
<1>9. QED
  BY <1>1, <1>2, <1>3, <1>4, <1>5, <1>6, <1>7, <1>8
     DEF Next, RequestForgetPassword, SubmitForgotPassword

\* All of it holds in every state.
LEMMA ResetInvariants == Spec => [](TypeOK /\ ResetInv /\ AloneInv /\ LinkInv)
<1>1. Init => TypeOK /\ ResetInv /\ AloneInv /\ LinkInv
  BY InitTypeOK, InitReset, InitAlone
<1>2. TypeOK /\ ResetInv /\ AloneInv /\ LinkInv /\ [Next]_vars
      => TypeOK' /\ ResetInv' /\ AloneInv' /\ LinkInv'
  BY NextTypeOK, NextReset, NextAlone, NextLink
<1>3. QED
  BY <1>1, <1>2, PTL DEF Spec

\* A link that was used is not accepted again (LinkWorksOnce): the submission
\* that used it left it out of the row, and no initiation stores it twice.
THEOREM LinksSpent == Spec => LinkWorksOnce
<1>1. TypeOK /\ LinkInv /\ [Next]_vars => [LinkNotReused]_vars
  <2> SUFFICES ASSUME TypeOK, LinkInv, Next, NEW s \in Submission, NEW t \in Submission,
                      Changes(s, "idle", "hash"), pc[t] = "done"
               PROVE  link'[s] # link[t]
    BY DEF LinkNotReused, vars
  <2>1. AcceptLink(s)
    <3>1. s \in Call /\ s \notin Initiation /\ pc[s] = "idle" /\ pc'[s] = "hash"
      BY ResetAssumption DEF Changes, Call
    <3>2. ASSUME NEW i \in Initiation, RequestForgetPassword(i) PROVE FALSE
      <4>1. pc'[s] = pc[s]
        BY <3>1, <3>2 DEF RequestForgetPassword, ReadUser, StoreLink, UpdateUser,
           PublishLink, CommitLink, Goto, TypeOK
      <4>2. QED
        BY <3>1, <4>1
    <3>3. ASSUME NEW r \in Submission, SubmitForgotPassword(r), ~AcceptLink(s) PROVE FALSE
      <4>1. pc'[s] # "hash"
        BY <3>1, <3>3 DEF SubmitForgotPassword, AcceptLink, RejectLink, RejectToken,
           StorePassword, UpdatePassword, Goto, TypeOK
      <4>2. QED
        BY <3>1, <4>1
    <3>4. ASSUME NEW c \in Call, Fails(c) PROVE FALSE
      BY <3>1, <3>4 DEF Fails, Running, TypeOK
    <3>5. ~Quiet /\ ~\E l \in Initiation : Expire(l)
      BY <3>1 DEF Quiet, Expire, vars, calls
    <3>6. QED
      BY <3>2, <3>3, <3>4, <3>5 DEF Next
  <2>2. link'[s] = row.rid
    BY <2>1 DEF AcceptLink, TypeOK
  <2>3. row.rid # link[t]
    BY DEF LinkInv
  <2>4. QED
    BY <2>2, <2>3
<1>2. QED
  BY <1>1, ResetInvariants, PTL DEF Spec, LinkWorksOnce

\* Without overlap only a submission that succeeds changes the password
\* (ResetsStickAlone): an initiation that ran alone writes back what is there.
THEOREM ResetsStickWhenAlone == Spec => ResetsStickAlone
<1>1. TypeOK /\ ResetInv /\ AloneInv /\ LinkInv /\ [Next]_vars => [PasswordKeptAlone]_vars
  <2> SUFFICES ASSUME TypeOK, AloneInv, LinkInv, Next,
                      row'.password # row.password
               PROVE  \/ \E s \in Submission : Resets(s)
                      \/ \E i \in Initiation \cap overlapped : Changes(i, "commit", "done")
    BY DEF PasswordKeptAlone, vars
  <2>1. row' # row
    OBVIOUS
  <2>2. \/ \E i \in Initiation : CommitLink(i)
        \/ \E s \in Submission : UpdatePassword(s)
    BY <2>1 DEF Next, RequestForgetPassword, SubmitForgotPassword, ReadUser, StoreLink,
         UpdateUser, PublishLink, AcceptLink, RejectLink, RejectToken, StorePassword,
         Fails, Expire, Quiet, vars
  <2>3. ASSUME NEW i \in Initiation, CommitLink(i)
        PROVE  i \in overlapped /\ Changes(i, "commit", "done")
    <3>1. /\ i \in Call /\ i \in Running /\ pc[i] = "commit" /\ pc'[i] = "done"
          /\ row' = Saved(i)
      BY <2>3 DEF CommitLink, Goto, Call, Running, TypeOK
    <3>2. i \notin overlapped => loaded[i] = row /\ entity[i].password = row.password
      BY <3>1 DEF AloneInv
    <3>3. i \notin overlapped => row'.password = row.password
      BY <3>1, <3>2, SavedType
    <3>4. QED
      BY <3>1, <3>3 DEF Changes
  <2>4. ASSUME NEW s \in Submission, UpdatePassword(s) PROVE Resets(s)
    <3>1. /\ s \in Call /\ pc[s] = "update" /\ pc'[s] = "done" /\ row' = Saved(s)
      BY <2>4 DEF UpdatePassword, Goto, Call, TypeOK
    <3>2. row'.password \in {entity[s].password, row.password}
      BY <3>1, SavedType
    <3>3. entity[s].password = s
      BY <3>1 DEF LinkInv
    <3>4. QED
      BY <3>1, <3>2, <3>3 DEF Resets, Changes
  <2>5. QED
    BY <2>2, <2>3, <2>4
<1>2. QED
  BY <1>1, ResetInvariants, PTL DEF Spec, ResetsStickAlone

-----------------------------------------------------------------------------

\* Nobody logs in at the start.
LEMMA InitSessions == SessionInit => SessionTypeOK /\ LoginsUpToDate
BY InitTypeOK DEF SessionInit, SessionTypeOK, LoginsUpToDate, NoVisit, Password

\* Every step keeps the types of the sessions: one case per action.
LEMMA NextSessionTypeOK == SessionTypeOK /\ [SessionNext]_sessionVars => SessionTypeOK'
<1> SUFFICES ASSUME SessionTypeOK, [SessionNext]_sessionVars PROVE SessionTypeOK'
  OBVIOUS
<1> USE DEF SessionTypeOK
<1>1. CASE ResetStep
  BY <1>1, NextTypeOK DEF ResetStep
<1>2. ASSUME UNCHANGED vars PROVE TypeOK'
  BY <1>2, NextTypeOK
<1>3. ASSUME NEW b \in Browser, NEW p \in Password, VerifyUser(b, p) PROVE SessionTypeOK'
  <2>1. row.password \in Password
    BY DEF TypeOK, Row, Password
  <2>2. QED
    BY <1>2, <1>3, <2>1 DEF VerifyUser
<1>4. ASSUME NEW b \in Browser, RejectLogin(b) \/ Login(b) PROVE SessionTypeOK'
  BY <1>2, <1>4 DEF RejectLogin, Login, NoVisit, Password
<1>5. ASSUME NEW b \in Browser, OpenSession(b) PROVE SessionTypeOK'
  BY <1>2, <1>5 DEF OpenSession
<1>6. ASSUME NEW b \in Browser, Logout(b) \/ ExpireSession(b) PROVE SessionTypeOK'
  BY <1>2, <1>6 DEF Logout, ExpireSession
<1>7. CASE UNCHANGED sessionVars
  BY <1>2, <1>7 DEF sessionVars, sessions
<1>8. QED
  BY <1>1, <1>3, <1>4, <1>5, <1>6, <1>7 DEF SessionNext

\* Every step keeps what logins know of the password: a reset step names the
\* logins it overtakes.
LEMMA NextLogins ==
    SessionTypeOK /\ LoginsUpToDate /\ [SessionNext]_sessionVars => LoginsUpToDate'
<1> SUFFICES ASSUME SessionTypeOK, LoginsUpToDate, [SessionNext]_sessionVars
             PROVE  LoginsUpToDate'
  OBVIOUS
<1> USE DEF SessionTypeOK, LoginsUpToDate
<1>1. CASE ResetStep
  BY <1>1 DEF ResetStep
<1>2. UNCHANGED vars => row' = row
  BY DEF vars
<1>3. ASSUME NEW b \in Browser, NEW p \in Password, VerifyUser(b, p) PROVE LoginsUpToDate'
  BY <1>2, <1>3 DEF VerifyUser
<1>4. ASSUME NEW b \in Browser, RejectLogin(b) \/ Login(b) PROVE LoginsUpToDate'
  BY <1>2, <1>4 DEF RejectLogin, Login, NoVisit
<1>5. ASSUME NEW b \in Browser, OpenSession(b) PROVE LoginsUpToDate'
  BY <1>2, <1>5 DEF OpenSession
<1>6. ASSUME NEW b \in Browser, Logout(b) \/ ExpireSession(b) PROVE LoginsUpToDate'
  BY <1>2, <1>6 DEF Logout, ExpireSession
<1>7. CASE UNCHANGED sessionVars
  BY <1>2, <1>7 DEF sessionVars, sessions
<1>8. QED
  BY <1>1, <1>3, <1>4, <1>5, <1>6, <1>7 DEF SessionNext

\* Sessions keep their types, next to the reset flow.
THEOREM SessionTypeCorrect == SessionSpec => []SessionTypeOK
BY InitSessions, NextSessionTypeOK, PTL DEF SessionSpec

\* A session is opened with the password the user has then, unless it changed
\* during the login (SessionsNeedPassword).
THEOREM LoginsChecked == SessionSpec => SessionsNeedPassword
<1>1. SessionInit => SessionTypeOK /\ LoginsUpToDate
  BY InitSessions
<1>2. SessionTypeOK /\ LoginsUpToDate /\ [SessionNext]_sessionVars
        => SessionTypeOK' /\ LoginsUpToDate'
  BY NextSessionTypeOK, NextLogins
<1>3. LoginsUpToDate /\ SessionTypeOK /\ [SessionNext]_sessionVars
        => [OpenedByPassword]_sessionVars
  <2> SUFFICES ASSUME LoginsUpToDate, SessionTypeOK, SessionNext, NEW b \in Browser,
                      visit[b].at = "compare", visit'[b].at = "handler"
               PROVE  visit[b].given = row.password \/ b \in overtaken
    BY DEF OpenedByPassword
  <2>1. OpenSession(b)
    BY DEF SessionTypeOK, SessionNext, ResetStep, VerifyUser, RejectLogin, OpenSession,
           Login, NoVisit, Logout, ExpireSession
  <2>2. QED
    BY <2>1 DEF OpenSession, LoginsUpToDate
<1>4. QED
  BY <1>1, <1>2, <1>3, PTL DEF SessionSpec, SessionsNeedPassword

\* The reset flow among logins is the reset flow: what is proved of it holds
\* of the composition.
THEOREM SessionsImplementReset == SessionSpec => Spec
<1>1. SessionInit => Init
  BY DEF SessionInit
<1>2. [SessionNext]_sessionVars => [Next]_vars
  BY DEF SessionNext, sessionVars, ResetStep, VerifyUser, RejectLogin, OpenSession, Login,
         Logout, ExpireSession
<1>3. QED
  BY <1>1, <1>2, PTL DEF SessionSpec, Spec

=============================================================================
