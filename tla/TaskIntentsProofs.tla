------------------------- MODULE TaskIntentsProofs -------------------------
(***************************************************************************)
(* Intents are kept for any statuses, revisions, keys, calls, faults and   *)
(* events: the invariant of TaskIntents, and that it implements            *)
(* IntentLedger.                                                           *)
(***************************************************************************)
EXTENDS TaskIntents, TLAPS

-----------------------------------------------------------------------------
(* The documents a command makes. *)

LEMMA Constants ==
    /\ "open" \in Statuses /\ "started" \in Statuses
    /\ MaxRevision \in Nat /\ MaxIntents \in Nat /\ MaxCalls \in Nat
    /\ MaxFaults \in Nat /\ MaxEvents \in Nat
    /\ 0 \in Revisions /\ 0 \notin Keys /\ 0 \notin CallIds
  BY StatusesAssumption, BoundsAssumption, SMT DEF Revisions, Keys, CallIds

LEMMA RequestFields ==
    ASSUME NEW q \in Requests
    PROVE  /\ q.key \in Keys /\ q.op \in {"status", "undo"}
           /\ q.revision \in Revisions /\ q.status \in Statuses
           /\ q.undoes \in Revisions
  BY SMT DEF Requests

LEMMA DocFields ==
    ASSUME NEW D \in Docs
    PROVE  /\ D.revision \in Revisions /\ D.status \in Statuses
           /\ D.changes \in SUBSET Changes /\ D.receipts \in SUBSET Receipts
  BY SMT DEF Docs

LEMMA ChangeFields ==
    ASSUME NEW n \in Changes
    PROVE  /\ n.revision \in Revisions /\ n.prior \in Statuses
           /\ n.status \in Statuses /\ n.by \in Keys \cup {0}
           /\ n.undoes \in Revisions
  BY SMT DEF Changes

\* The values of Changed, part by part.
LEMMA ChangedParts ==
    ASSUME NEW D \in Docs, NEW s \in Statuses, NEW b \in Keys \cup {0},
           NEW u \in Revisions, D.revision < MaxRevision
    PROVE  /\ Changed(D, s, b, u) \in Docs
           /\ Changed(D, s, b, u).revision = D.revision + 1
           /\ Changed(D, s, b, u).status = s
           /\ Changed(D, s, b, u).receipts = D.receipts
           /\ s = D.status => Changed(D, s, b, u).changes = D.changes
           /\ s # D.status => Changed(D, s, b, u).changes = D.changes \cup
                 {[revision |-> D.revision + 1, prior |-> D.status,
                   status |-> s, by |-> b, undoes |-> u]}
  <1> DEFINE N == [revision |-> D.revision + 1, prior |-> D.status,
                   status |-> s, by |-> b, undoes |-> u]
  <1>1. D.revision + 1 \in Revisions
    BY DocFields, Constants, SMT DEF Revisions
  <1>2. N \in Changes
    BY <1>1, DocFields, SMT DEF Changes
  <1>3. (IF s = D.status THEN D.changes ELSE D.changes \cup {N}) \in SUBSET Changes
    BY <1>2, DocFields
  <1> DEFINE C == IF s = D.status THEN D.changes ELSE D.changes \cup {N}
             r == D.revision + 1
  <1>4. Changed(D, s, b, u) = [D EXCEPT !.revision = r, !.status = s, !.changes = C]
    BY DEF Changed
  <1>5. C \in SUBSET Changes /\ r \in Revisions
    BY <1>1, <1>3
  <1>6. /\ s = D.status => C = D.changes
        /\ s # D.status => C = D.changes \cup {N}
    OBVIOUS
  <1>7. r = D.revision + 1
    OBVIOUS
  <1> HIDE DEF N, C, r
  <1> DEFINE E == [D EXCEPT !.revision = r, !.status = s, !.changes = C]
  <1>8. E \in Docs
    BY <1>5, Zenon DEF Docs
  <1>9. /\ E.revision = r /\ E.status = s /\ E.changes = C
        /\ E.receipts = D.receipts
    BY SMT DEF Docs
  <1> QED
    BY <1>4, <1>6, <1>7, <1>8, <1>9, Zenon DEF N

LEMMA AcceptedParts ==
    ASSUME NEW D \in Docs, NEW q \in Requests
    PROVE  /\ Accepted(D, q) \in Docs
           /\ Accepted(D, q).revision = D.revision
           /\ Accepted(D, q).status = D.status
           /\ Accepted(D, q).changes = D.changes
           /\ Accepted(D, q).receipts = D.receipts \cup
                 {[request |-> q, revision |-> D.revision, status |-> D.status]}
  <1> DEFINE R == [request |-> q, revision |-> D.revision, status |-> D.status]
  <1>1. D.receipts \cup {R} \in SUBSET Receipts
    BY DocFields, SMT DEF Receipts
  <1>2. D = [revision |-> D.revision, status |-> D.status,
             changes |-> D.changes, receipts |-> D.receipts]
    BY SMT DEF Docs
  <1>3. Accepted(D, q) = [revision |-> D.revision, status |-> D.status,
                          changes |-> D.changes, receipts |-> D.receipts \cup {R}]
    BY <1>2, SMT DEF Accepted
  <1> HIDE DEF R
  <1> QED
    BY <1>1, <1>3, DocFields, SMT DEF Docs, R

\* A change of a sound Task, whoever makes it, is sound if its Undo is exact.
LEMMA ChangedSound ==
    ASSUME NEW D \in Docs, NEW s \in Statuses, NEW b \in Keys \cup {0},
           NEW u \in Revisions, D.revision < MaxRevision, DocSound(D),
           (s # D.status /\ u # 0) =>
               \E n \in D.changes : n.revision = u /\ D.revision = u
                                    /\ n.prior = s
    PROVE  DocSound(Changed(D, s, b, u))
  <1> DEFINE E == Changed(D, s, b, u)
             N == [revision |-> D.revision + 1, prior |-> D.status,
                   status |-> s, by |-> b, undoes |-> u]
  <1>1. /\ E.revision = D.revision + 1 /\ E.status = s
        /\ E.receipts = D.receipts /\ D.changes \subseteq E.changes
        /\ \A c \in E.changes : c \in D.changes \/ (s # D.status /\ c = N)
    BY ChangedParts
  <1>2. /\ N.revision = D.revision + 1 /\ N.prior = D.status
        /\ N.status = s /\ N.undoes = u
    OBVIOUS
  <1>3. D.revision \in Nat
    BY DocFields, Constants, SMT DEF Revisions
  <1> HIDE DEF E, N
  <1>4. ASSUME NEW c \in E.changes
        PROVE  /\ c.revision # 0 /\ c.revision <= E.revision
               /\ c.revision = E.revision => c.status = E.status
    <2>1. CASE c \in D.changes
      <3>1. c.revision \in Nat
        BY <2>1, DocFields, ChangeFields, Constants, SMT DEF Revisions
      <3> QED
        BY <1>1, <1>3, <2>1, <3>1, SMT DEF DocSound
    <2>2. CASE c = N
      BY <1>1, <1>2, <1>3, <2>2, SMT
    <2> QED
      BY <1>1, <2>1, <2>2
  <1>5. UndosExact(E)
    <2>1. SUFFICES ASSUME NEW c \in E.changes, c.undoes # 0
                   PROVE  \E n \in E.changes : Reverses(c, n)
      BY DEF UndosExact
    <2>2. CASE c \in D.changes
      BY <1>1, <2>1, <2>2 DEF DocSound, UndosExact
    <2>3. CASE c = N /\ s # D.status
      <3>1. PICK n \in D.changes : n.revision = u /\ D.revision = u /\ n.prior = s
        BY <1>2, <2>1, <2>3
      <3>2. n.status = D.status
        BY <3>1 DEF DocSound
      <3>3. Reverses(c, n)
        BY <1>2, <2>3, <3>1, <3>2 DEF Reverses
      <3> QED
        BY <1>1, <3>3
    <2> QED
      BY <1>1, <2>2, <2>3
  <1>6. ASSUME NEW r \in E.receipts
        PROVE  /\ r.request \in asked
               /\ (r.request.undoes = 0 /\ r.revision = r.request.revision + 1)
                     => Made(E, r.request.key, r.revision, "open")
    BY <1>1 DEF DocSound, Made
  <1> QED
    BY <1>4, <1>5, <1>6 DEF DocSound, E

LEMMA AcceptedSound ==
    ASSUME NEW D \in Docs, NEW q \in Requests, DocSound(D), q \in asked,
           (q.undoes = 0 /\ D.revision = q.revision + 1)
               => Made(D, q.key, D.revision, "open")
    PROVE  DocSound(Accepted(D, q))
  <1> DEFINE E == Accepted(D, q)
             R == [request |-> q, revision |-> D.revision, status |-> D.status]
  <1>1. /\ E.revision = D.revision /\ E.status = D.status
        /\ E.changes = D.changes /\ E.receipts = D.receipts \cup {R}
    BY AcceptedParts
  <1>2. R.request = q /\ R.revision = D.revision
    OBVIOUS
  <1> HIDE DEF E, R
  <1>3. ASSUME NEW r \in E.receipts
        PROVE  /\ r.request \in asked
               /\ (r.request.undoes = 0 /\ r.revision = r.request.revision + 1)
                     => Made(E, r.request.key, r.revision, "open")
    BY <1>1, <1>2 DEF DocSound, Made
  <1>4. UndosExact(E)
    BY <1>1 DEF DocSound, UndosExact
  <1> QED
    BY <1>1, <1>3, <1>4 DEF DocSound, E

\* What a command makes of the documents, saved or only journaled.
Reached(E) ==
    E \in Docs /\ DocSound(E) /\ Follows(doc, E)

LEMMA OtherSound ==
    ASSUME IntentsInv, NEW s \in Statuses, doc.revision < MaxRevision
    PROVE  Reached(Changed(doc, s, 0, 0))
  <1>1. doc \in Docs /\ DocSound(doc)
    BY DEF IntentsInv, TypeOK, DocumentsSound
  <1>2. DocSound(Changed(doc, s, 0, 0))
    BY <1>1, ChangedSound, Constants
  <1>3. /\ Changed(doc, s, 0, 0) \in Docs
        /\ Changed(doc, s, 0, 0).revision = doc.revision + 1
        /\ Changed(doc, s, 0, 0).receipts = doc.receipts
        /\ doc.changes \subseteq Changed(doc, s, 0, 0).changes
    BY <1>1, ChangedParts, Constants
  <1> QED
    BY <1>2, <1>3 DEF Reached, Follows

LEMMA MovedSound ==
    ASSUME IntentsInv, NEW q \in asked, ReceiptsOf(q) = {},
           q.revision = doc.revision, NEW s \in Statuses, s # doc.status,
           q.undoes # 0 =>
               \E n \in doc.changes : n.revision = q.undoes /\ doc.revision = q.undoes
                                      /\ n.prior = s
    PROVE  LET E == Accepted(Changed(doc, s, q.key, q.undoes), q)
           IN /\ Reached(E)
              /\ [request |-> q, revision |-> E.revision, status |-> E.status]
                    \in E.receipts
  <1> DEFINE C == Changed(doc, s, q.key, q.undoes)
             E == Accepted(C, q)
  <1>1. doc \in Docs /\ DocSound(doc) /\ q \in Requests
    BY DEF IntentsInv, TypeOK, DocumentsSound
  <1>2. q.key \in Keys \cup {0} /\ q.undoes \in Revisions
    BY <1>1, RequestFields
  <1>3. doc.revision < MaxRevision
    BY DEF IntentsInv, AskedSound
  <1>4. /\ C \in Docs /\ C.revision = doc.revision + 1 /\ C.status = s
        /\ C.receipts = doc.receipts
        /\ C.changes = doc.changes \cup
              {[revision |-> doc.revision + 1, prior |-> doc.status,
                status |-> s, by |-> q.key, undoes |-> q.undoes]}
    BY <1>1, <1>2, <1>3, ChangedParts
  <1>5. DocSound(C)
    BY <1>1, <1>2, <1>3, ChangedSound
  <1>6. (q.undoes = 0 /\ C.revision = q.revision + 1)
            => Made(C, q.key, C.revision, "open")
    <2>1. q.undoes = 0 => doc.status = "open"
      BY DEF IntentsInv, AskedSound
    <2> DEFINE N == [revision |-> doc.revision + 1, prior |-> doc.status,
                     status |-> s, by |-> q.key, undoes |-> q.undoes]
    <2>2. N \in C.changes /\ C.revision = doc.revision + 1
      BY <1>4
    <2>3. N.by = q.key /\ N.revision = doc.revision + 1 /\ N.prior = doc.status
      OBVIOUS
    <2> HIDE DEF C, N
    <2> QED
      BY <2>1, <2>2, <2>3 DEF Made
  <1> HIDE DEF C
  <1>7. DocSound(E)
    BY <1>1, <1>4, <1>5, <1>6, AcceptedSound
  <1>8. /\ E \in Docs /\ E.revision = C.revision /\ E.status = C.status
        /\ E.changes = C.changes
        /\ E.receipts = C.receipts \cup
              {[request |-> q, revision |-> C.revision, status |-> C.status]}
    BY <1>1, <1>4, AcceptedParts
  <1>9. \A r \in doc.receipts : r.request.key # q.key
    BY DEF ReceiptsOf
  <1>10. Follows(doc, E)
    BY <1>4, <1>8, <1>9 DEF Follows
  <1> QED
    BY <1>7, <1>8, <1>10 DEF Reached, C

LEMMA ProposalSound ==
    ASSUME IntentsInv, NEW q \in asked, ReceiptsOf(q) = {},
           RefusalOf(q) = "none", NEW E \in Proposals(q)
    PROVE  /\ Reached(E)
           /\ [request |-> q, revision |-> E.revision, status |-> E.status]
                 \in E.receipts
  <1>1. doc \in Docs /\ DocSound(doc) /\ q \in Requests
    BY DEF IntentsInv, TypeOK, DocumentsSound
  <1>2. q.revision = doc.revision
    BY SMT DEF RefusalOf
  <1>3. CASE q.op = "undo"
    <2>1. PICK n \in NoticesOf(q) :
             E = Accepted(Changed(doc, n.prior, q.key, q.undoes), q)
      BY <1>3, Zenon DEF Proposals
    <2>2. n.prior # doc.status
      BY <1>3, SMT DEF RefusalOf
    <2>3. n \in doc.changes /\ n.revision = q.undoes /\ n \in Changes
      BY <1>1, DocFields DEF NoticesOf
    <2>4. q.undoes = doc.revision
      BY <1>2, <1>3 DEF IntentsInv, AskedSound
    <2> QED
      BY <1>2, <2>1, <2>2, <2>3, <2>4, ChangeFields, MovedSound
  <1>4. CASE q.op = "status" /\ q.status = doc.status
    <2>1. E = Accepted(doc, q)
      BY <1>4, Zenon DEF Proposals
    <2>2. q.revision \in Nat
      BY <1>1, RequestFields, Constants, SMT DEF Revisions
    <2>3. DocSound(E)
      BY <1>1, <1>2, <2>1, <2>2, AcceptedSound, SMT
    <2>4. /\ E \in Docs /\ E.revision = doc.revision /\ E.status = doc.status
          /\ E.changes = doc.changes
          /\ E.receipts = doc.receipts \cup
                {[request |-> q, revision |-> doc.revision, status |-> doc.status]}
      BY <1>1, <2>1, AcceptedParts
    <2>5. \A r \in doc.receipts : r.request.key # q.key
      BY DEF ReceiptsOf
    <2>6. Follows(doc, E)
      BY <1>2, <2>4, <2>5 DEF Follows
    <2> QED
      BY <2>3, <2>4, <2>6 DEF Reached
  <1>5. CASE q.op = "status" /\ q.status # doc.status
    <2>1. E = Accepted(Changed(doc, q.status, q.key, q.undoes), q)
      BY <1>5, Zenon DEF Proposals
    <2>2. q.undoes # 0 =>
             \E n \in doc.changes : n.revision = q.undoes /\ doc.revision = q.undoes
                                    /\ n.prior = q.status
      BY <1>2, <1>5 DEF IntentsInv, AskedSound
    <2> QED
      BY <1>1, <1>2, <1>5, <2>1, <2>2, RequestFields, MovedSound
  <1> QED
    BY <1>1, <1>3, <1>4, <1>5, RequestFields

-----------------------------------------------------------------------------
(* The server's side: the documents move on, and answers are true of them. *)

Useds == [minted : Keys \cup {0}, faults : Nat, events : Nat]

LEMMA FaultKeeps ==
    ASSUME TypeOK, Fault
    PROVE  used' \in Useds /\ used'.minted = used.minted
  <1>1. used \in Useds
    BY DEF TypeOK, Useds
  <1>2. used.faults + 1 \in Nat
    BY <1>1, SMT DEF Useds
  <1>3. used' = [used EXCEPT !.faults = used.faults + 1]
    BY DEF Fault
  <1> QED
    BY <1>1, <1>2, <1>3, Zenon DEF Useds

LEMMA EventKeeps ==
    ASSUME TypeOK, Event
    PROVE  used' \in Useds /\ used'.minted = used.minted
  <1>1. used \in Useds
    BY DEF TypeOK, Useds
  <1>2. used.events + 1 \in Nat
    BY <1>1, SMT DEF Useds
  <1>3. used' = [used EXCEPT !.events = used.events + 1]
    BY DEF Event
  <1> QED
    BY <1>1, <1>2, <1>3, Zenon DEF Useds

LEMMA CallFields ==
    ASSUME NEW c \in Calls
    PROVE  /\ c.id \in CallIds /\ c.from \in {"hook", "panel"}
           /\ c.request \in Requests /\ c.token \in Nat /\ c.heard \in BOOLEAN
           /\ c.answer \in Answers
  BY SMT DEF Calls

LEMMA WithoutType ==
    ASSUME NEW code \in Codes
    PROVE  /\ Without(code) \in Answers /\ Without(code).code = code
  BY Constants, SMT DEF Without, Answers

\* Documents that follow the present ones keep what was said of these.
LEMMA FollowsKeeps ==
    ASSUME IntentsInv, NEW E \in Docs, Follows(doc, E)
    PROVE  /\ doc.revision <= E.revision
           /\ E.revision = doc.revision => E.status = doc.status
           /\ doc.changes \subseteq E.changes
           /\ doc.receipts \subseteq E.receipts
           /\ \A q \in Requests :
                 Dead(q) => /\ q.revision < E.revision
                            /\ \A r \in E.receipts : r.request # q
  <1>1. doc \in Docs /\ asked \subseteq Requests
    BY DEF IntentsInv, TypeOK
  <1>2. doc.revision \in Nat /\ E.revision \in Nat
    BY <1>1, DocFields, Constants, SMT DEF Revisions
  <1>3. doc.changes \subseteq E.changes
    BY DEF Follows
  <1>4. CASE E = doc
    BY <1>2, <1>4, SMT DEF Dead
  <1>5. CASE E.revision = doc.revision + 1 /\ E.receipts = doc.receipts
    <2>1. \A q \in Requests : q.revision \in Nat
      BY RequestFields, Constants, SMT DEF Revisions
    <2> QED
      BY <1>2, <1>3, <1>5, <2>1, SMT DEF Dead
  <1>6. CASE \E q \in asked :
               /\ q.revision = doc.revision
               /\ \A r \in doc.receipts : r.request.key # q.key
               /\ E.receipts = doc.receipts \cup
                     {[request |-> q, revision |-> E.revision, status |-> E.status]}
               /\ \/ E.revision = doc.revision + 1 /\ E.status # doc.status
                  \/ E.revision = doc.revision /\ E.status = doc.status
    <2>1. PICK p \in asked :
             /\ p.revision = doc.revision
             /\ E.receipts = doc.receipts \cup
                   {[request |-> p, revision |-> E.revision, status |-> E.status]}
             /\ \/ E.revision = doc.revision + 1
                \/ E.revision = doc.revision /\ E.status = doc.status
      BY <1>6, Zenon
    <2>2. \A r \in E.receipts : r \in doc.receipts \/ r.request = p
      BY <2>1
    <2>3. ASSUME NEW q \in Requests, Dead(q)
          PROVE  q.revision < E.revision /\ \A r \in E.receipts : r.request # q
      <3>1. q.revision \in Nat
        BY RequestFields, Constants, SMT DEF Revisions
      <3>2. q.revision < doc.revision /\ \A r \in doc.receipts : r.request # q
        BY <2>3 DEF Dead
      <3>3. p # q
        BY <1>2, <2>1, <3>1, <3>2, SMT
      <3>4. q.revision < E.revision
        BY <1>2, <2>1, <3>1, <3>2, SMT
      <3> QED
        BY <2>2, <3>2, <3>3, <3>4
    <2>4. doc.revision <= E.revision
      BY <1>2, <2>1, SMT
    <2>5. E.revision = doc.revision => E.status = doc.status
      BY <1>2, <2>1, SMT
    <2> QED
      BY <1>3, <2>1, <2>3, <2>4, <2>5
  <1> QED
    BY <1>4, <1>5, <1>6 DEF Follows

\* A call c after the step, which was b: answered, if at all, by the documents.
Answered(c, b) ==
    \/ c = b
    \/ /\ c.id = b.id /\ c.from = b.from /\ c.request = b.request
       /\ c.answer.code = "ok" =>
             \E r \in doc'.receipts :
                /\ r.request = c.request
                /\ r.revision = c.answer.revision /\ r.status = c.answer.status
       /\ c.answer.code = "revision_conflict" => Dead(c.request)

ServerStep ==
    /\ UNCHANGED pageVars
    /\ used' \in Useds /\ used'.minted = used.minted
    /\ foreign' \in BOOLEAN /\ sync' \in {"in-sync", "detected", "invalid"}
    /\ epoch' \in Nat
    /\ Reached(doc')
    /\ journal' \in Docs \cup {NoDoc}
    /\ journal' # NoDoc => DocSound(journal') /\ Follows(doc', journal')
    /\ calls' \in SUBSET Calls
    /\ \A c \in calls' : \E b \in calls : Answered(c, b)

LEMMA ServerKeeps ==
    ASSUME IntentsInv, ServerStep
    PROVE  IntentsInv'
  <1>1. doc' \in Docs /\ Follows(doc, doc') /\ DocSound(doc')
    BY DEF ServerStep, Reached
  <1>2. /\ doc.revision <= doc'.revision
        /\ doc'.revision = doc.revision => doc'.status = doc.status
        /\ doc.changes \subseteq doc'.changes /\ doc.receipts \subseteq doc'.receipts
        /\ \A q \in Requests :
              Dead(q) => /\ q.revision < doc'.revision
                         /\ \A r \in doc'.receipts : r.request # q
    BY <1>1, FollowsKeeps
  <1>3. doc.revision \in Nat /\ doc'.revision \in Nat
    <2>1. doc \in Docs
      BY DEF IntentsInv, TypeOK
    <2> QED
      BY <1>1, <2>1, DocFields, Constants, SMT DEF Revisions
  <1>4. \A q \in Requests : Dead(q) => Dead(q)'
    BY <1>2 DEF Dead
  <1>5. /\ hook' = hook /\ panel' = panel /\ asked' = asked /\ told' = told
        /\ token' = token /\ used'.minted = used.minted
    BY DEF ServerStep, pageVars
  <1>6. TypeOK'
    BY <1>1, <1>5 DEF IntentsInv, TypeOK, ServerStep, Useds
  <1>7. DocumentsSound'
    <2>1. DocSound(doc)'
      BY <1>1, <1>5 DEF DocSound, UndosExact, Made
    <2>2. journal' # NoDoc => DocSound(journal)' /\ Follows(doc, journal)'
      BY <1>5 DEF ServerStep, DocSound, UndosExact, Made, Follows
    <2> QED
      BY <2>1, <2>2 DEF DocumentsSound
  <1>8. AskedSound'
    <2>1. SUFFICES ASSUME NEW q \in asked
          PROVE /\ q.key <= used.minted /\ q.revision < MaxRevision
                /\ q.revision <= doc'.revision
                /\ q.op = "undo" => q.undoes = q.revision /\ q.undoes # 0
                /\ q.op = "status" /\ q.undoes # 0 =>
                      /\ q.undoes = q.revision
                      /\ \E n \in doc'.changes :
                            n.revision = q.revision /\ n.prior = q.status
                /\ q.undoes = 0 /\ q.revision = doc'.revision => doc'.status = "open"
      BY <1>5 DEF AskedSound
    <2>2. q.revision \in Nat
      BY RequestFields, Constants, SMT DEF IntentsInv, TypeOK, Revisions
    <2>3. /\ q.key <= used.minted /\ q.revision < MaxRevision
          /\ q.revision <= doc.revision
          /\ q.op = "undo" => q.undoes = q.revision /\ q.undoes # 0
          /\ q.op = "status" /\ q.undoes # 0 =>
                /\ q.undoes = q.revision
                /\ \E n \in doc.changes : n.revision = q.revision /\ n.prior = q.status
          /\ q.undoes = 0 /\ q.revision = doc.revision => doc.status = "open"
      BY DEF IntentsInv, AskedSound
    <2>4. q.revision <= doc'.revision
      BY <1>2, <1>3, <2>2, <2>3, SMT
    <2>5. q.revision = doc'.revision => doc'.revision = doc.revision
      BY <1>2, <1>3, <2>2, <2>3, SMT
    <2> QED
      BY <1>2, <2>3, <2>4, <2>5
  <1>9. CallsSound'
    <2>1. SUFFICES ASSUME NEW c \in calls'
          PROVE /\ c.request \in asked
                /\ c.from = "hook" /\ c.id = hook.attempt => c.request = hook.intent
                /\ c.from = "panel" /\ c.id = panel.attempt => c.request = panel.intent
                /\ c.answer.code = "ok" =>
                      \E r \in doc'.receipts :
                         /\ r.request = c.request
                         /\ r.revision = c.answer.revision
                         /\ r.status = c.answer.status
                /\ c.answer.code = "revision_conflict" => Dead(c.request)'
      BY <1>5 DEF CallsSound
    <2>2. PICK b \in calls : Answered(c, b)
      BY DEF ServerStep
    <2>3. /\ b.request \in asked
          /\ b.from = "hook" /\ b.id = hook.attempt => b.request = hook.intent
          /\ b.from = "panel" /\ b.id = panel.attempt => b.request = panel.intent
          /\ b.answer.code = "ok" =>
                \E r \in doc.receipts :
                   /\ r.request = b.request
                   /\ r.revision = b.answer.revision /\ r.status = b.answer.status
          /\ b.answer.code = "revision_conflict" => Dead(b.request)
      BY DEF IntentsInv, CallsSound
    <2>4. b.request \in Requests
      BY <2>3 DEF IntentsInv, TypeOK
    <2>5. CASE c = b
      BY <1>2, <1>4, <2>3, <2>4, <2>5
    <2>6. CASE c # b
      BY <1>4, <2>2, <2>3, <2>4, <2>6 DEF Answered
    <2> QED
      BY <2>5, <2>6
  <1>10. PageSound'
    <2>1. PageSound
      BY DEF IntentsInv
    <2>2. hook.view.revision \in Nat
      BY Constants, SMT DEF IntentsInv, TypeOK, Revisions
    <2>3. /\ hook.view.revision <= doc'.revision
          /\ hook.view.revision = doc'.revision => hook.view.status = doc'.status
      <3>1. hook.view.revision <= doc.revision
        BY <2>1 DEF PageSound
      <3>2. hook.view.revision <= doc'.revision
        BY <1>2, <1>3, <2>2, <3>1, SMT
      <3>3. hook.view.revision = doc'.revision => doc'.revision = doc.revision
        BY <1>2, <1>3, <2>2, <3>1, SMT
      <3> QED
        BY <1>2, <2>1, <3>2, <3>3 DEF PageSound
    <2>4. OfferIsItsOwn'
      BY <1>2, <1>5, <2>1 DEF PageSound, OfferIsItsOwn, Made
    <2>5. \A t \in told' : t.verdict = "stale" => Dead(t.request)'
      <3>1. \A t \in told : t.request \in Requests
        BY SMT DEF IntentsInv, TypeOK
      <3> QED
        BY <1>4, <1>5, <2>1, <3>1 DEF PageSound
    <2> QED
      BY <1>5, <2>1, <2>3, <2>4, <2>5 DEF PageSound, Unresolved
  <1> QED
    BY <1>6, <1>7, <1>8, <1>9, <1>10 DEF IntentsInv

\* The documents as they are, and as a command leaves them.
LEMMA Stays ==
    ASSUME IntentsInv
    PROVE  /\ Reached(doc) /\ journal \in Docs \cup {NoDoc}
           /\ journal # NoDoc => DocSound(journal) /\ Follows(doc, journal)
           /\ used \in Useds /\ calls \in SUBSET Calls
           /\ \A c \in calls : \E b \in calls : Answered(c, b)
  BY DEF IntentsInv, TypeOK, DocumentsSound, Reached, Follows, Useds, Answered

LEMMA SelfFollows == ASSUME NEW D PROVE Follows(D, D)
  BY DEF Follows

LEMMA AnswerKeeps ==
    ASSUME IntentsInv, NEW c \in calls, NEW a \in Answers, Answer(c, a),
           a.code = "ok" =>
               \E r \in doc'.receipts : /\ r.request = c.request
                                        /\ r.revision = a.revision
                                        /\ r.status = a.status,
           a.code = "revision_conflict" => Dead(c.request)
    PROVE  /\ calls' \in SUBSET Calls
           /\ \A d \in calls' : \E b \in calls : Answered(d, b)
  <1> DEFINE e == [c EXCEPT !.answer = a]
  <1>1. c \in Calls /\ calls \in SUBSET Calls
    BY DEF IntentsInv, TypeOK
  <1>2. /\ e \in Calls /\ e.id = c.id /\ e.from = c.from /\ e.request = c.request
        /\ e.answer = a
    BY <1>1, Zenon DEF Calls
  <1>3. \A d \in calls' : d \in calls \/ d = e
    BY DEF Answer
  <1> HIDE DEF e
  <1>4. Answered(e, c)
    BY <1>2 DEF Answered
  <1> QED
    BY <1>1, <1>2, <1>3, <1>4 DEF Answered

\* An answer given without touching the documents.
LEMMA QuietKeeps ==
    ASSUME IntentsInv, NEW c \in calls, NEW a \in Answers, Answer(c, a),
           UNCHANGED <<serverVars, pageVars, used>>,
           a.code = "ok" =>
               \E r \in doc.receipts : /\ r.request = c.request
                                       /\ r.revision = a.revision
                                       /\ r.status = a.status,
           a.code = "revision_conflict" => Dead(c.request)
    PROVE  ServerStep
  <1>1. /\ doc' = doc /\ journal' = journal /\ foreign' = foreign
        /\ sync' = sync /\ epoch' = epoch /\ used' = used /\ UNCHANGED pageVars
    BY DEF serverVars
  <1>2. /\ calls' \in SUBSET Calls
        /\ \A d \in calls' : \E b \in calls : Answered(d, b)
    BY <1>1, AnswerKeeps
  <1> QED
    BY <1>1, <1>2, Stays DEF ServerStep, IntentsInv, TypeOK

LEMMA WithoutQuiet ==
    ASSUME IntentsInv, NEW c \in calls, NEW code \in Codes \ {"ok", "revision_conflict"},
           Answer(c, Without(code)), UNCHANGED <<serverVars, pageVars, used>>
    PROVE  ServerStep
  <1>1. Without(code) \in Answers /\ Without(code).code = code
    BY WithoutType
  <1> QED
    BY <1>1, QuietKeeps

LEMMA ForbidKeeps ==
    ASSUME IntentsInv, NEW c \in calls, Forbid(c)
    PROVE  ServerStep
  BY WithoutQuiet DEF Forbid, Codes, Conflicts

LEMMA RefuseRecoveryKeeps ==
    ASSUME IntentsInv, NEW c \in calls, RefuseRecovery(c)
    PROVE  ServerStep
  BY WithoutQuiet DEF RefuseRecovery, Codes, Conflicts

LEMMA RefuseReadKeeps ==
    ASSUME IntentsInv, NEW c \in calls, RefuseRead(c)
    PROVE  ServerStep
  BY WithoutQuiet DEF RefuseRead, Codes, Conflicts

LEMMA RefuseSaveKeeps ==
    ASSUME IntentsInv, NEW c \in calls, RefuseSave(c)
    PROVE  ServerStep
  BY WithoutQuiet DEF RefuseSave, Codes, Conflicts

LEMMA ReplayKeeps ==
    ASSUME IntentsInv, NEW c \in calls, Replay(c)
    PROVE  ServerStep
  <1>1. PICK r \in ReceiptsOf(c.request) :
           Answer(c, IF r.request = c.request
                     THEN [code |-> "ok", revision |-> r.revision, status |-> r.status]
                     ELSE Without("idempotency_conflict"))
    BY DEF Replay
  <1>2. r \in doc.receipts /\ r.revision \in Revisions /\ r.status \in Statuses
    BY SMT DEF ReceiptsOf, IntentsInv, TypeOK, Docs, Receipts
  <1>3. UNCHANGED <<serverVars, pageVars, used>>
    BY DEF Replay
  <1>4. CASE r.request = c.request
    <2> DEFINE a == [code |-> "ok", revision |-> r.revision, status |-> r.status]
    <2>1. a \in Answers /\ a.code = "ok" /\ a.revision = r.revision
          /\ a.status = r.status
      BY <1>2, SMT DEF Answers, Codes
    <2>2. Answer(c, a)
      BY <1>1, <1>4
    <2> HIDE DEF a
    <2> QED
      BY <1>2, <1>3, <1>4, <2>1, <2>2, QuietKeeps
  <1>5. CASE r.request # c.request
    <2>1. Answer(c, Without("idempotency_conflict"))
      BY <1>1, <1>5
    <2> QED
      BY <1>3, <2>1, WithoutQuiet DEF Codes, Conflicts
  <1> QED
    BY <1>4, <1>5

LEMMA RefuseKeeps ==
    ASSUME IntentsInv, NEW c \in calls, Refuse(c)
    PROVE  ServerStep
  <1>1. /\ ReceiptsOf(c.request) = {} /\ RefusalOf(c.request) # "none"
        /\ Answer(c, Without(RefusalOf(c.request)))
        /\ UNCHANGED <<serverVars, pageVars, used>>
    BY DEF Refuse, Fresh
  <1>2. CASE RefusalOf(c.request) = "revision_conflict"
    <2>1. c.request.revision # doc.revision
      BY <1>2, SMT DEF RefusalOf
    <2>2. c.request \in asked /\ c.request.revision <= doc.revision
      BY DEF IntentsInv, CallsSound, AskedSound
    <2>3. c.request.revision \in Nat /\ doc.revision \in Nat
      BY <2>2, RequestFields, DocFields, Constants, SMT
      DEF IntentsInv, TypeOK, Revisions
    <2>4. Dead(c.request)
      BY <1>1, <2>1, <2>2, <2>3, SMT DEF Dead, ReceiptsOf
    <2>5. Without("revision_conflict") \in Answers
          /\ Without("revision_conflict").code = "revision_conflict"
      BY WithoutType DEF Codes, Conflicts
    <2> QED
      BY <1>1, <1>2, <2>4, <2>5, QuietKeeps
  <1>3. CASE RefusalOf(c.request) = "refused"
    BY <1>1, <1>3, WithoutQuiet DEF Codes, Conflicts
  <1> QED
    BY <1>1, <1>2, <1>3, SMT DEF RefusalOf

LEMMA CommitKeeps ==
    ASSUME IntentsInv, NEW c \in calls, Commit(c)
    PROVE  ServerStep
  <1> DEFINE a == [code |-> "ok", revision |-> doc'.revision, status |-> doc'.status]
  <1>1. /\ ReceiptsOf(c.request) = {} /\ RefusalOf(c.request) = "none"
        /\ doc' \in Proposals(c.request) /\ Answer(c, a) /\ journal = NoDoc
        /\ UNCHANGED <<journal, foreign, sync, epoch, pageVars, used>>
    BY DEF Commit, Saves, Fresh, Admitted
  <1>2. c.request \in asked
    BY DEF IntentsInv, CallsSound
  <1>3. /\ Reached(doc')
        /\ [request |-> c.request, revision |-> doc'.revision, status |-> doc'.status]
              \in doc'.receipts
    BY <1>1, <1>2, ProposalSound
  <1>4. doc'.revision \in Revisions /\ doc'.status \in Statuses
    BY <1>3, DocFields DEF Reached
  <1>5. /\ a \in Answers /\ a.code = "ok"
        /\ a.revision = doc'.revision /\ a.status = doc'.status
    BY <1>4, SMT DEF Answers, Codes
  <1>6. Answer(c, a)
    BY <1>1
  <1> HIDE DEF a
  <1>7. \E r \in doc'.receipts : /\ r.request = c.request
                                 /\ r.revision = a.revision /\ r.status = a.status
    BY <1>3, <1>5
  <1>8. /\ calls' \in SUBSET Calls
        /\ \A d \in calls' : \E b \in calls : Answered(d, b)
    BY <1>5, <1>6, <1>7, AnswerKeeps
  <1> QED
    BY <1>1, <1>3, <1>8, Stays DEF ServerStep, IntentsInv, TypeOK

\* A commit that journals its target, and may have replaced documents.
LEMMA JournaledReached ==
    ASSUME IntentsInv, NEW E, Reached(E), Journaled(E)
    PROVE  /\ Reached(doc') /\ journal' \in Docs \cup {NoDoc}
           /\ DocSound(journal') /\ Follows(doc', journal')
  BY Stays, SelfFollows DEF Journaled, Reached

LEMMA CommitStopsKeeps ==
    ASSUME IntentsInv, NEW c \in calls, CommitStops(c)
    PROVE  ServerStep
  <1>1. /\ ReceiptsOf(c.request) = {} /\ RefusalOf(c.request) = "none"
        /\ journal = NoDoc /\ Fault /\ Answer(c, Without("broken"))
        /\ UNCHANGED <<foreign, sync, epoch, pageVars>>
        /\ \/ doc' = doc /\ journal' = journal
           \/ \E target \in Proposals(c.request) : Journaled(target)
    BY DEF CommitStops, Saves, Fresh, Admitted
  <1>2. c.request \in asked
    BY DEF IntentsInv, CallsSound
  <1>3. /\ Reached(doc') /\ journal' \in Docs \cup {NoDoc}
        /\ journal' # NoDoc => DocSound(journal') /\ Follows(doc', journal')
    <2>1. CASE doc' = doc /\ journal' = journal
      BY <2>1, Stays
    <2>2. CASE \E target \in Proposals(c.request) : Journaled(target)
      BY <1>1, <1>2, <2>2, ProposalSound, JournaledReached
    <2> QED
      BY <1>1, <2>1, <2>2
  <1>4. Without("broken") \in Answers /\ Without("broken").code = "broken"
    BY WithoutType DEF Codes
  <1>5. /\ calls' \in SUBSET Calls
        /\ \A d \in calls' : \E b \in calls : Answered(d, b)
    BY <1>1, <1>4, AnswerKeeps
  <1>6. used' \in Useds /\ used'.minted = used.minted
    BY <1>1, FaultKeeps DEF IntentsInv
  <1> QED
    BY <1>1, <1>3, <1>5, <1>6 DEF ServerStep, IntentsInv, TypeOK

LEMMA CommitRacesKeeps ==
    ASSUME IntentsInv, NEW c \in calls, CommitRaces(c)
    PROVE  ServerStep
  <1>1. /\ ReceiptsOf(c.request) = {} /\ RefusalOf(c.request) = "none"
        /\ Event /\ foreign' = TRUE /\ journal' \in Proposals(c.request)
        /\ UNCHANGED <<doc, sync, epoch, pageVars>>
    BY DEF CommitRaces, Saves, Fresh
  <1>2. c.request \in asked
    BY DEF IntentsInv, CallsSound
  <1>3. Reached(journal')
    BY <1>1, <1>2, ProposalSound
  <1>4. PICK code \in {"refused", "sync_required"} : Answer(c, Without(code))
    BY DEF CommitRaces
  <1>5. Without(code) \in Answers /\ Without(code).code = code
    BY WithoutType DEF Codes, Conflicts
  <1>6. /\ calls' \in SUBSET Calls
        /\ \A d \in calls' : \E b \in calls : Answered(d, b)
    BY <1>4, <1>5, AnswerKeeps
  <1>7. used' \in Useds /\ used'.minted = used.minted
    BY <1>1, EventKeeps DEF IntentsInv
  <1> QED
    BY <1>1, <1>3, <1>6, <1>7, Stays DEF ServerStep, IntentsInv, TypeOK, Reached

LEMMA ServeKeeps ==
    ASSUME IntentsInv, NEW c \in calls, Serve(c)
    PROVE  ServerStep
  BY ForbidKeeps, RefuseRecoveryKeeps, RefuseReadKeeps, ReplayKeeps, RefuseKeeps,
     RefuseSaveKeeps, CommitKeeps, CommitStopsKeeps, CommitRacesKeeps DEF Serve

LEMMA RecoverKeeps ==
    ASSUME IntentsInv, Recover
    PROVE  ServerStep
  <1>1. /\ journal # NoDoc /\ doc' = journal /\ journal' = NoDoc
        /\ UNCHANGED <<foreign, sync, epoch, calls, pageVars, used>>
    BY DEF Recover
  <1>2. Reached(doc')
    BY <1>1, Stays DEF Reached
  <1> QED
    BY <1>1, <1>2, Stays DEF ServerStep, IntentsInv, TypeOK, Answered

LEMMA OtherCommandKeeps ==
    ASSUME IntentsInv, OtherCommand
    PROVE  ServerStep
  <1>1. /\ journal = NoDoc /\ doc.revision < MaxRevision
        /\ UNCHANGED <<foreign, sync, epoch, calls, pageVars>>
    BY DEF OtherCommand
  <1>2. PICK status \in Statuses :
           \/ doc' = Changed(doc, status, 0, 0) /\ UNCHANGED <<journal, used>>
           \/ Fault /\ Journaled(Changed(doc, status, 0, 0))
    BY DEF OtherCommand
  <1>3. Reached(Changed(doc, status, 0, 0))
    BY <1>1, OtherSound
  <1>4. /\ Reached(doc') /\ journal' \in Docs \cup {NoDoc}
        /\ journal' # NoDoc => DocSound(journal') /\ Follows(doc', journal')
    BY <1>1, <1>2, <1>3, JournaledReached, Stays
  <1>5. used' \in Useds /\ used'.minted = used.minted
    BY <1>2, FaultKeeps, Stays DEF IntentsInv
  <1> QED
    BY <1>1, <1>4, <1>5, Stays DEF ServerStep, IntentsInv, TypeOK, Answered

LEMMA RestartKeeps ==
    ASSUME IntentsInv, Restart
    PROVE  ServerStep
  <1>1. /\ Fault /\ epoch' = epoch + 1 /\ journal' = NoDoc
        /\ doc' = IF journal = NoDoc THEN doc ELSE journal
        /\ calls' = {[c EXCEPT !.answer = Without("broken")] :
                        c \in {d \in calls : d.heard}}
        /\ UNCHANGED <<foreign, sync, pageVars>>
    BY DEF Restart
  <1>2. Reached(doc')
    BY <1>1, Stays DEF Reached
  <1>3. Without("broken") \in Answers /\ Without("broken").code = "broken"
    BY WithoutType DEF Codes
  <1>4. ASSUME NEW d \in calls'
        PROVE  d \in Calls /\ \E b \in calls : Answered(d, b)
    <2>1. PICK b \in calls : d = [b EXCEPT !.answer = Without("broken")]
      BY <1>1
    <2>2. b \in Calls
      BY DEF IntentsInv, TypeOK
    <2>3. /\ d \in Calls /\ d.id = b.id /\ d.from = b.from /\ d.request = b.request
          /\ d.answer = Without("broken")
      BY <1>3, <2>1, <2>2, Zenon DEF Calls
    <2>4. Answered(d, b)
      BY <1>3, <2>3 DEF Answered
    <2> QED
      BY <2>3, <2>4
  <1>5. used' \in Useds /\ used'.minted = used.minted
    BY <1>1, FaultKeeps DEF IntentsInv
  <1>6. epoch' \in Nat
    BY <1>1, SMT DEF IntentsInv, TypeOK
  <1> QED
    BY <1>1, <1>2, <1>4, <1>5, <1>6 DEF ServerStep, IntentsInv, TypeOK

LEMMA EditKeeps ==
    ASSUME IntentsInv, EditDocuments \/ SettleDocuments \/ UndoForeign
    PROVE  ServerStep
  <1>1. /\ foreign' \in BOOLEAN /\ sync' \in {"in-sync", "detected", "invalid"}
        /\ UNCHANGED <<doc, journal, epoch, calls, pageVars>>
    BY DEF EditDocuments, SettleDocuments, UndoForeign, IntentsInv, TypeOK
  <1>2. used' \in Useds /\ used'.minted = used.minted
    BY EventKeeps, Stays DEF EditDocuments, SettleDocuments, UndoForeign, IntentsInv
  <1> QED
    BY <1>1, <1>2, Stays DEF ServerStep, IntentsInv, TypeOK, Answered

-----------------------------------------------------------------------------
(* The page's side: it hears, reads, forgets and sends. *)

Phases == {"idle", "pending", "unknown", "conflict"}
Hooks == [phase : Phases, intent : Requests \cup {NoRequest},
          attempt : CallIds \cup {0}, offer : Offers, latest : Revisions,
          born : Keys \cup {0}, view : [revision : Revisions, status : Statuses]]
Ends == {"none", "undone", "conflict", "failed"}
Panels == [phase : Ends \cup Unresolved, intent : Requests \cup {NoRequest},
           attempt : CallIds \cup {0}]
Told == [request : Requests, verdict : Verdicts]

LEMMA PageTypes ==
    ASSUME IntentsInv
    PROVE  hook \in Hooks /\ panel \in Panels /\ told \in SUBSET Told
  <1>1. Ends \cup Unresolved =
           {"none", "pending", "unknown", "undone", "conflict", "failed"}
    BY DEF Ends, Unresolved
  <1> QED
    BY <1>1 DEF IntentsInv, TypeOK, Hooks, Panels, Told, Phases

LEMMA HookFields ==
    ASSUME NEW h \in Hooks
    PROVE  /\ h.phase \in Phases /\ h.intent \in Requests \cup {NoRequest}
           /\ h.attempt \in CallIds \cup {0} /\ h.offer \in Offers
           /\ h.latest \in Revisions /\ h.born \in Keys \cup {0}
           /\ h.view \in [revision : Revisions, status : Statuses]
  BY Zenon DEF Hooks

LEMMA NoOfferType == NoOffer \in Offers
  BY Constants, SMT DEF NoOffer, Offers

LEMMA OfferFields ==
    ASSUME NEW o \in Offers
    PROVE  o.revision \in Revisions /\ o.status \in Statuses /\ o.by \in Keys \cup {0}
  BY SMT DEF Offers

\* The hook after each of its updates.
LEMMA HookUnknown ==
    ASSUME NEW h \in Hooks
    PROVE  LET g == [h EXCEPT !.phase = "unknown", !.attempt = 0]
           IN /\ g \in Hooks /\ g.phase = "unknown" /\ g.attempt = 0
              /\ g.intent = h.intent
              /\ g.offer = h.offer /\ g.born = h.born /\ g.view = h.view
  BY Zenon DEF Hooks, Phases

LEMMA HookWithdrawn ==
    ASSUME NEW h \in Hooks
    PROVE  LET g == [h EXCEPT !.offer = NoOffer]
           IN /\ g \in Hooks /\ g.phase = h.phase /\ g.attempt = h.attempt
              /\ g.intent = h.intent
              /\ g.offer = NoOffer /\ g.born = h.born /\ g.view = h.view
  BY NoOfferType, Zenon DEF Hooks

LEMMA HookViewed ==
    ASSUME NEW h \in Hooks, NEW v \in [revision : Revisions, status : Statuses]
    PROVE  LET g == [h EXCEPT !.view = v]
           IN /\ g \in Hooks /\ g.phase = h.phase /\ g.attempt = h.attempt
              /\ g.intent = h.intent
              /\ g.offer = h.offer /\ g.born = h.born /\ g.view = v
  BY Zenon DEF Hooks

LEMMA HookBorn ==
    ASSUME NEW h \in Hooks, NEW b \in Keys \cup {0}
    PROVE  LET g == [h EXCEPT !.phase = "idle", !.intent = NoRequest, !.attempt = 0,
                              !.offer = NoOffer, !.latest = 0, !.born = b]
           IN /\ g \in Hooks /\ g.phase = "idle" /\ g.attempt = 0
              /\ g.offer = NoOffer /\ g.born = b /\ g.view = h.view
  BY NoOfferType, Constants, Zenon DEF Hooks, Phases

\* The same call, heard or not.
SameCall(d, b) ==
    /\ d.id = b.id /\ d.from = b.from /\ d.request = b.request
    /\ d.answer = b.answer

\* A step of the page that sends nothing.
PageStep ==
    /\ UNCHANGED <<serverVars, asked>> /\ token' \in Nat
    /\ used' \in Useds /\ used'.minted = used.minted
    /\ calls' \in SUBSET Calls
    /\ \A d \in calls' : \E b \in calls : SameCall(d, b)
    /\ hook' \in Hooks
    /\ \/ hook'.attempt = 0
       \/ hook'.attempt = hook.attempt /\ hook'.intent = hook.intent
          /\ hook'.phase = hook.phase
    /\ hook'.phase \in Unresolved =>
          /\ hook.phase \in Unresolved
          /\ hook'.intent = hook.intent /\ hook'.born = hook.born
    /\ hook'.born <= used.minted
    /\ hook'.view.revision <= doc.revision
    /\ hook'.view.revision = doc.revision => hook'.view.status = doc.status
    /\ hook'.offer # NoOffer =>
          /\ hook'.offer.by > hook'.born
          /\ Made(doc, hook'.offer.by, hook'.offer.revision, hook'.offer.status)
    /\ panel' \in Panels
    /\ \/ panel'.attempt = 0
       \/ panel' = panel
    /\ panel'.phase \in Unresolved =>
          panel.phase \in Unresolved /\ panel'.intent = panel.intent
    /\ told' \in SUBSET Told
    /\ \A t \in told' : t \in told \/ t.verdict = "applied" \/ Dead(t.request)

LEMMA DocumentsKept ==
    ASSUME IntentsInv, doc' = doc, journal' = journal, asked \subseteq asked'
    PROVE  DocumentsSound'
  <1>1. ASSUME NEW D, DocSound(D)
        PROVE  /\ \A c \in D.changes :
                     /\ c.revision # 0 /\ c.revision <= D.revision
                     /\ c.revision = D.revision => c.status = D.status
               /\ UndosExact(D)
               /\ \A r \in D.receipts :
                     /\ r.request \in asked'
                     /\ (r.request.undoes = 0 /\ r.revision = r.request.revision + 1)
                           => Made(D, r.request.key, r.revision, "open")
    BY <1>1 DEF DocSound
  <1>2. DocSound(doc)'
    BY <1>1 DEF DocSound, UndosExact, Made, IntentsInv, DocumentsSound
  <1>3. journal # NoDoc => DocSound(journal)'
    BY <1>1 DEF DocSound, UndosExact, Made, IntentsInv, DocumentsSound
  <1>4. journal # NoDoc => Follows(doc, journal)'
    BY DEF Follows, IntentsInv, DocumentsSound
  <1> QED
    BY <1>2, <1>3, <1>4 DEF DocumentsSound

LEMMA PageStepKeeps ==
    ASSUME IntentsInv, PageStep
    PROVE  IntentsInv'
  <1>1. /\ doc' = doc /\ journal' = journal /\ foreign' = foreign /\ sync' = sync
        /\ epoch' = epoch /\ asked' = asked /\ used'.minted = used.minted
    BY DEF PageStep, serverVars
  <1>2. TypeOK'
    <2>1. Ends \cup Unresolved =
             {"none", "pending", "unknown", "undone", "conflict", "failed"}
      BY DEF Ends, Unresolved
    <2> QED
      BY <1>1, <2>1
      DEF IntentsInv, TypeOK, PageStep, Useds, Hooks, Panels, Told, Phases
  <1>3. DocumentsSound'
    BY <1>1, DocumentsKept
  <1>4. AskedSound'
    BY <1>1 DEF IntentsInv, AskedSound
  <1>5. CallsSound'
    <2>1. SUFFICES ASSUME NEW d \in calls'
          PROVE /\ d.request \in asked
                /\ d.from = "hook" /\ d.id = hook'.attempt => d.request = hook'.intent
                /\ d.from = "panel" /\ d.id = panel'.attempt => d.request = panel'.intent
                /\ d.answer.code = "ok" =>
                      \E r \in doc.receipts :
                         /\ r.request = d.request
                         /\ r.revision = d.answer.revision
                         /\ r.status = d.answer.status
                /\ d.answer.code = "revision_conflict" => Dead(d.request)
      BY <1>1 DEF CallsSound, Dead
    <2>2. PICK b \in calls : SameCall(d, b)
      BY DEF PageStep
    <2>3. d.id # 0
      BY CallFields, Constants DEF PageStep
    <2>4. /\ b.request \in asked
          /\ b.from = "hook" /\ b.id = hook.attempt => b.request = hook.intent
          /\ b.from = "panel" /\ b.id = panel.attempt => b.request = panel.intent
          /\ b.answer.code = "ok" =>
                \E r \in doc.receipts :
                   /\ r.request = b.request
                   /\ r.revision = b.answer.revision /\ r.status = b.answer.status
          /\ b.answer.code = "revision_conflict" => Dead(b.request)
      BY DEF IntentsInv, CallsSound
    <2> QED
      BY <2>2, <2>3, <2>4 DEF PageStep, SameCall
  <1>6. PageSound'
    <2>1. PageSound
      BY DEF IntentsInv
    <2>2. /\ hook'.attempt # 0 => hook'.phase = "pending"
          /\ hook'.phase \in Unresolved =>
                hook'.intent \in asked /\ hook'.intent.key > hook'.born
      BY <2>1 DEF PageStep, PageSound
    <2>3. /\ panel'.attempt # 0 => panel'.phase = "pending"
          /\ panel'.phase \in Unresolved => panel'.intent \in asked
      BY <2>1 DEF PageStep, PageSound
    <2>4. OfferIsItsOwn'
      BY <1>1 DEF PageStep, OfferIsItsOwn, Made
    <2>5. \A t \in told' : t.verdict = "stale" => Dead(t.request)'
      BY <1>1, <2>1 DEF PageStep, PageSound, Dead
    <2> QED
      BY <1>1, <2>2, <2>3, <2>4, <2>5 DEF PageStep, PageSound, Unresolved
  <1> QED
    BY <1>2, <1>3, <1>4, <1>5, <1>6 DEF IntentsInv

\* The parts of PageStep that say what became of the hook, and of the panel.
HookMoves(h) ==
    /\ h \in Hooks
    /\ \/ h.attempt = 0
       \/ h.attempt = hook.attempt /\ h.intent = hook.intent /\ h.phase = hook.phase
    /\ h.phase \in Unresolved =>
          hook.phase \in Unresolved /\ h.intent = hook.intent /\ h.born = hook.born
    /\ h.born <= used.minted
    /\ h.view.revision <= doc.revision
    /\ h.view.revision = doc.revision => h.view.status = doc.status
    /\ h.offer # NoOffer =>
          /\ h.offer.by > h.born
          /\ Made(doc, h.offer.by, h.offer.revision, h.offer.status)

PanelMoves(p) ==
    /\ p \in Panels
    /\ p.attempt = 0 \/ p = panel
    /\ p.phase \in Unresolved => panel.phase \in Unresolved /\ p.intent = panel.intent

LEMMA PageRests ==
    ASSUME IntentsInv
    PROVE  /\ HookMoves(hook) /\ PanelMoves(panel) /\ told \in SUBSET Told
           /\ used \in Useds /\ calls \in SUBSET Calls /\ token \in Nat /\ epoch \in Nat
           /\ \A d \in calls : \E b \in calls : SameCall(d, b)
  BY PageTypes DEF HookMoves, PanelMoves, IntentsInv, PageSound, OfferIsItsOwn,
     TypeOK, Useds, SameCall

\* What the page is told of request q is true.
ToldTruly(q) ==
    \/ told' = told
    \/ /\ Tell(q, "applied")
       /\ \E r \in doc.receipts : r.request = q
    \/ Tell(q, "stale") /\ Dead(q)

LEMMA ToldKeeps ==
    ASSUME IntentsInv, NEW q \in asked, ToldTruly(q)
    PROVE  /\ told' \in SUBSET Told
           /\ \A t \in told' : t \in told \/ t.verdict = "applied" \/ Dead(t.request)
  <1>1. told \in SUBSET Told /\ q \in Requests
    BY PageTypes DEF IntentsInv, TypeOK
  <1>2. \A v \in Verdicts : [request |-> q, verdict |-> v] \in Told
    BY <1>1 DEF Told
  <1>3. CASE told' = told
    BY <1>1, <1>3
  <1>4. CASE Tell(q, "applied")
    BY <1>1, <1>2, <1>4 DEF Tell, Verdicts
  <1>5. CASE Tell(q, "stale") /\ Dead(q)
    BY <1>1, <1>2, <1>5 DEF Tell, Verdicts
  <1> QED
    BY <1>3, <1>4, <1>5 DEF ToldTruly

\* An answer the page may hear of request q.
TrueAnswer(a, q) ==
    /\ a \in Answers
    /\ a.code = "ok" => \E r \in doc.receipts : /\ r.request = q
                                                /\ r.revision = a.revision
                                                /\ r.status = a.status
    /\ a.code = "revision_conflict" => Dead(q)

LEMMA AnswerFields ==
    ASSUME NEW a \in Answers
    PROVE  a.code \in Codes /\ a.revision \in Revisions /\ a.status \in Statuses
  BY SMT DEF Answers

LEMMA HookRelease ==
    ASSUME IntentsInv, NEW p \in {"idle", "conflict"}, NEW o \in Offers,
           Release(p, o),
           o # NoOffer => /\ o.by > hook.born
                          /\ Made(doc, o.by, o.revision, o.status)
    PROVE  HookMoves(hook')
  <1>1. hook \in Hooks /\ p \in Phases
    BY PageTypes DEF Phases
  <1>2. /\ hook' \in Hooks /\ hook'.phase = p /\ hook'.attempt = 0
        /\ hook'.offer = o /\ hook'.born = hook.born /\ hook'.view = hook.view
    BY <1>1, Zenon DEF Release, Hooks
  <1>3. HookMoves(hook)
    BY PageRests
  <1> QED
    BY <1>2, <1>3 DEF HookMoves, Unresolved

LEMMA OfferKept ==
    ASSUME IntentsInv, Release("idle", hook.offer)
    PROVE  HookMoves(hook')
  <1>1. /\ hook.offer \in Offers
        /\ hook.offer # NoOffer =>
              /\ hook.offer.by > hook.born
              /\ Made(doc, hook.offer.by, hook.offer.revision, hook.offer.status)
    BY PageTypes, PageRests, HookFields DEF HookMoves
  <1> QED
    BY <1>1, HookRelease

LEMMA HookSettlesKeeps ==
    ASSUME IntentsInv, hook.phase = "pending", NEW a, TrueAnswer(a, hook.intent),
           HookSettles(a)
    PROVE  HookMoves(hook') /\ ToldTruly(hook.intent)
  <1> DEFINE q == hook.intent
  <1>1. /\ hook \in Hooks /\ q \in asked /\ q.key > hook.born /\ q \in Requests
    BY PageTypes DEF IntentsInv, PageSound, Unresolved, TypeOK
  <1>2. a \in Answers /\ a.revision \in Revisions
    BY AnswerFields DEF TrueAnswer
  <1>3. HookMoves(hook)
    BY PageRests
  <1>4. ASSUME Answers200(q, a), Historical(a.revision), Release("idle", hook.offer),
               Tell(q, "applied")
        PROVE  HookMoves(hook') /\ ToldTruly(q)
    <2>1. HookMoves(hook')
      BY <1>4, OfferKept
    <2> QED
      BY <1>4, <2>1 DEF Answers200, TrueAnswer, ToldTruly
  <1>5. ASSUME Answers200(q, a), Tell(q, "applied"),
               hook' = [hook EXCEPT
                    !.phase = "idle", !.intent = NoRequest, !.attempt = 0,
                    !.latest = a.revision, !.offer = OfferAfter(q, a.revision)]
        PROVE  HookMoves(hook') /\ ToldTruly(q)
    <2> DEFINE o == OfferAfter(q, a.revision)
    <2>1. ToldTruly(q)
      BY <1>5 DEF Answers200, TrueAnswer, ToldTruly
    <2>2. PICK r \in doc.receipts : r.request = q /\ r.revision = a.revision
      BY <1>5 DEF Answers200, TrueAnswer
    <2>3. q.undoes = 0 /\ a.revision = q.revision + 1 =>
             Made(doc, q.key, a.revision, "open")
      BY <2>2 DEF IntentsInv, DocumentsSound, DocSound
    <2>6. o \in Offers /\ (o # NoOffer =>
             /\ o.by > hook.born /\ Made(doc, o.by, o.revision, o.status))
      <3>1. CASE q.undoes = 0 /\ a.revision = q.revision + 1
        <4>1. o = [revision |-> a.revision, status |-> "open", by |-> q.key]
          BY <3>1 DEF OfferAfter
        <4>2. /\ o \in Offers /\ o.revision = a.revision /\ o.status = "open"
              /\ o.by = q.key
          BY <1>1, <1>2, <4>1, RequestFields, Constants, SMT DEF Offers
        <4> QED
          BY <1>1, <2>3, <3>1, <4>2
      <3>2. CASE ~(q.undoes = 0 /\ a.revision = q.revision + 1)
        BY <3>2, NoOfferType DEF OfferAfter
      <3> QED
        BY <3>1, <3>2
    <2> HIDE DEF o
    <2>7. hook' = [hook EXCEPT
                    !.phase = "idle", !.intent = NoRequest, !.attempt = 0,
                    !.latest = a.revision, !.offer = o]
      BY <1>5 DEF o
    <2>8. /\ hook' \in Hooks /\ hook'.phase = "idle" /\ hook'.attempt = 0
          /\ hook'.offer = o /\ hook'.born = hook.born /\ hook'.view = hook.view
      BY <1>1, <1>2, <2>6, <2>7, Zenon DEF Hooks, Phases
    <2>9. HookMoves(hook')
      BY <1>3, <2>6, <2>8 DEF HookMoves, Unresolved
    <2> QED
      BY <2>1, <2>9
  <1>6. ASSUME Release("conflict", NoOffer),
               IF a.code = "revision_conflict" THEN Tell(q, "stale")
               ELSE UNCHANGED told
        PROVE  HookMoves(hook') /\ ToldTruly(q)
    BY <1>6, HookRelease, NoOfferType DEF TrueAnswer, ToldTruly
  <1>7. ASSUME KeepIntent, UNCHANGED told
        PROVE  HookMoves(hook') /\ ToldTruly(q)
    <2>1. /\ hook' \in Hooks /\ hook'.phase = "unknown" /\ hook'.attempt = 0
          /\ hook'.intent = hook.intent /\ hook'.offer = hook.offer
          /\ hook'.born = hook.born /\ hook'.view = hook.view
      BY <1>1, <1>7, HookUnknown DEF KeepIntent
    <2> QED
      BY <1>3, <1>7, <2>1 DEF HookMoves, Unresolved, ToldTruly
  <1> QED
    BY <1>4, <1>5, <1>6, <1>7 DEF HookSettles

LEMMA HookHearsKeeps ==
    ASSUME IntentsInv, NEW c \in calls, c.from = "hook", NEW a,
           TrueAnswer(a, c.request), HookHears(c, a)
    PROVE  HookMoves(hook') /\ PanelMoves(panel') /\ ToldTruly(c.request)
  <1>1. PanelMoves(panel')
    BY PageRests DEF HookHears
  <1>2. CASE c.id = hook.attempt
    <2>1. c.request = hook.intent /\ hook.phase = "pending"
      BY <1>2, CallFields, Constants DEF IntentsInv, CallsSound, PageSound, TypeOK
    <2>2. CASE HookSettles(a)
      BY <1>1, <2>1, <2>2, HookSettlesKeeps
    <2>3. CASE Release("idle", hook.offer) /\ UNCHANGED told
      BY <1>1, <2>3, OfferKept DEF ToldTruly
    <2> QED
      BY <1>2, <2>1, <2>2, <2>3 DEF HookHears
  <1>3. CASE c.id # hook.attempt
    BY <1>3, PageRests DEF HookHears, ToldTruly
  <1> QED
    BY <1>1, <1>2, <1>3

LEMMA PanelEndsKeeps ==
    ASSUME NEW phase \in Ends, PanelEnds(phase)
    PROVE  PanelMoves(panel')
  <1>1. [phase |-> phase, intent |-> NoRequest, attempt |-> 0] \in Panels
    BY DEF Panels
  <1>2. phase \notin Unresolved
    BY DEF Ends, Unresolved
  <1> QED
    BY <1>1, <1>2 DEF PanelEnds, PanelMoves

LEMMA PanelUnknown ==
    ASSUME IntentsInv, panel.phase = "pending",
           panel' = [panel EXCEPT !.phase = "unknown", !.attempt = 0]
    PROVE  PanelMoves(panel')
  <1>1. panel \in Panels
    BY PageTypes
  <1>2. /\ panel' \in Panels /\ panel'.phase = "unknown" /\ panel'.attempt = 0
        /\ panel'.intent = panel.intent
    BY <1>1, Zenon DEF Panels, Unresolved
  <1> QED
    BY <1>2 DEF PanelMoves, Unresolved

LEMMA PanelHearsKeeps ==
    ASSUME IntentsInv, NEW c \in calls, c.from = "panel", NEW a,
           TrueAnswer(a, c.request), PanelHears(c, a)
    PROVE  HookMoves(hook') /\ PanelMoves(panel') /\ ToldTruly(c.request)
  <1>1. HookMoves(hook')
    BY PageRests DEF PanelHears
  <1>2. CASE c.id = panel.attempt
    <2>1. c.request = panel.intent /\ panel.phase = "pending"
      BY <1>2, CallFields, Constants DEF IntentsInv, CallsSound, PageSound, TypeOK
    <2>2. PanelSettles(a)
      BY <1>2 DEF PanelHears
    <2>3. ASSUME a.code = "ok", PanelEnds("undone"), Tell(panel.intent, "applied")
          PROVE  PanelMoves(panel') /\ ToldTruly(c.request)
      BY <2>1, <2>3, PanelEndsKeeps DEF TrueAnswer, ToldTruly, Ends
    <2>4. ASSUME a.code = "revision_conflict", PanelEnds("conflict"),
                 Tell(panel.intent, "stale")
          PROVE  PanelMoves(panel') /\ ToldTruly(c.request)
      BY <2>1, <2>4, PanelEndsKeeps DEF TrueAnswer, ToldTruly, Ends
    <2>5. ASSUME PanelEnds("failed"), UNCHANGED told
          PROVE  PanelMoves(panel') /\ ToldTruly(c.request)
      BY <2>5, PanelEndsKeeps DEF ToldTruly, Ends
    <2>6. ASSUME panel' = [panel EXCEPT !.phase = "unknown", !.attempt = 0],
                 UNCHANGED told
          PROVE  PanelMoves(panel') /\ ToldTruly(c.request)
      BY <2>1, <2>6, PanelUnknown DEF ToldTruly
    <2> QED
      BY <1>1, <2>2, <2>3, <2>4, <2>5, <2>6 DEF PanelSettles
  <1>3. CASE c.id # panel.attempt
    BY <1>1, <1>3, PageRests DEF PanelHears, ToldTruly
  <1> QED
    BY <1>1, <1>2, <1>3

LEMMA HearsKeeps ==
    ASSUME IntentsInv, NEW c \in calls, NEW a, TrueAnswer(a, c.request), Hears(c, a)
    PROVE  HookMoves(hook') /\ PanelMoves(panel') /\ ToldTruly(c.request)
  <1>1. c.from \in {"hook", "panel"}
    BY CallFields DEF IntentsInv, TypeOK
  <1> QED
    BY <1>1, HookHearsKeeps, PanelHearsKeeps DEF Hears

LEMMA CallIsTrue ==
    ASSUME IntentsInv, NEW c \in calls
    PROVE  /\ c \in Calls /\ c.request \in asked
           /\ TrueAnswer(c.answer, c.request)
           /\ TrueAnswer(Without("broken"), c.request)
  <1>1. c \in Calls
    BY DEF IntentsInv, TypeOK
  <1>2. Without("broken") \in Answers /\ Without("broken").code = "broken"
    BY WithoutType DEF Codes
  <1> QED
    BY <1>1, <1>2, CallFields DEF IntentsInv, CallsSound, TrueAnswer

LEMMA DeliverKeeps ==
    ASSUME IntentsInv, NEW c \in calls, Deliver(c)
    PROVE  PageStep /\ ToldTruly(c.request)
  <1>1. /\ calls' = calls \ {c} /\ Hears(c, c.answer)
        /\ UNCHANGED <<serverVars, token, asked, used>>
    BY DEF Deliver
  <1>2. HookMoves(hook') /\ PanelMoves(panel') /\ ToldTruly(c.request)
    BY <1>1, CallIsTrue, HearsKeeps
  <1>3. /\ told' \in SUBSET Told
        /\ \A t \in told' : t \in told \/ t.verdict = "applied" \/ Dead(t.request)
    BY <1>2, CallIsTrue, ToldKeeps
  <1> QED
    BY <1>1, <1>2, <1>3, PageRests DEF PageStep, HookMoves, PanelMoves

LEMMA LoseKeeps ==
    ASSUME IntentsInv, NEW c \in calls, Lose(c)
    PROVE  PageStep /\ ToldTruly(c.request)
  <1> DEFINE e == [c EXCEPT !.heard = FALSE]
  <1>1. /\ Fault /\ Hears(c, Without("broken"))
        /\ UNCHANGED <<serverVars, token, asked>>
        /\ \A d \in calls' : d \in calls \/ d = e
    BY DEF Lose
  <1>2. HookMoves(hook') /\ PanelMoves(panel') /\ ToldTruly(c.request)
    BY <1>1, CallIsTrue, HearsKeeps
  <1>3. /\ told' \in SUBSET Told
        /\ \A t \in told' : t \in told \/ t.verdict = "applied" \/ Dead(t.request)
    BY <1>2, CallIsTrue, ToldKeeps
  <1>4. e \in Calls /\ SameCall(e, c)
    BY CallIsTrue, Zenon DEF Calls, SameCall
  <1> HIDE DEF e
  <1>5. /\ calls' \in SUBSET Calls
        /\ \A d \in calls' : \E b \in calls : SameCall(d, b)
    BY <1>1, <1>4, PageRests
  <1>6. used' \in Useds /\ used'.minted = used.minted
    BY <1>1, FaultKeeps DEF IntentsInv
  <1> QED
    BY <1>1, <1>2, <1>3, <1>5, <1>6, PageRests DEF PageStep, HookMoves, PanelMoves

LEMMA RefreshKeeps ==
    ASSUME IntentsInv, Refresh
    PROVE  PageStep /\ told' = told
  <1> DEFINE v == [revision |-> doc.revision, status |-> doc.status]
  <1>1. /\ hook' = [hook EXCEPT !.view = v]
        /\ UNCHANGED <<serverVars, calls, token, panel, asked, told, used>>
    BY DEF Refresh
  <1>2. doc.revision \in Revisions /\ doc.status \in Statuses /\ hook \in Hooks
    BY PageTypes, DocFields DEF IntentsInv, TypeOK
  <1>3. v \in [revision : Revisions, status : Statuses]
    BY <1>2
  <1>4. v.revision = doc.revision /\ v.status = doc.status
    OBVIOUS
  <1> HIDE DEF v
  <1>5. /\ hook' \in Hooks /\ hook'.phase = hook.phase /\ hook'.attempt = hook.attempt
        /\ hook'.intent = hook.intent
        /\ hook'.offer = hook.offer /\ hook'.born = hook.born /\ hook'.view = v
    BY <1>1, <1>2, <1>3, HookViewed
  <1>6. doc.revision <= doc.revision
    BY <1>2, Constants, SMT DEF Revisions
  <1>7. HookMoves(hook')
    BY <1>4, <1>5, <1>6, PageRests DEF HookMoves
  <1> QED
    BY <1>1, <1>7, PageRests DEF PageStep, HookMoves, PanelMoves

LEMMA RefreshTokenKeeps ==
    ASSUME IntentsInv, RefreshToken
    PROVE  PageStep /\ told' = told
  BY PageRests DEF PageStep, HookMoves, PanelMoves, RefreshToken

LEMMA ChangeOwnerKeeps ==
    ASSUME IntentsInv, ChangeOwner
    PROVE  PageStep /\ told' = told
  <1>1. /\ Event
        /\ hook' = [hook EXCEPT !.phase = "idle", !.intent = NoRequest, !.attempt = 0,
                                !.offer = NoOffer, !.latest = 0, !.born = used.minted]
        /\ PanelEnds("none") \/ UNCHANGED panel
        /\ UNCHANGED <<serverVars, calls, token, asked, told>>
    BY DEF ChangeOwner
  <1>2. hook \in Hooks /\ used.minted \in Keys \cup {0}
    BY PageTypes, PageRests, Zenon DEF Useds
  <1>3. /\ hook' \in Hooks /\ hook'.phase = "idle" /\ hook'.attempt = 0
        /\ hook'.offer = NoOffer /\ hook'.born = used.minted
        /\ hook'.view = hook.view
    BY <1>1, <1>2, HookBorn
  <1>4. used.minted <= used.minted
    BY <1>2, Constants, SMT DEF Keys
  <1>5. HookMoves(hook')
    BY <1>3, <1>4, PageRests DEF HookMoves, Unresolved
  <1>6. PanelMoves(panel')
    BY <1>1, PanelEndsKeeps, PageRests DEF Ends
  <1>7. used' \in Useds /\ used'.minted = used.minted
    BY <1>1, EventKeeps DEF IntentsInv
  <1> QED
    BY <1>1, <1>5, <1>6, <1>7, PageRests DEF PageStep, HookMoves, PanelMoves

LEMMA DismissKeeps ==
    ASSUME IntentsInv, Dismiss
    PROVE  PageStep /\ told' = told
  <1>1. PanelMoves(panel')
    BY PanelEndsKeeps DEF Dismiss, Ends
  <1> QED
    BY <1>1, PageRests DEF PageStep, HookMoves, PanelMoves, Dismiss

\* The request of a new intent, or of one the page holds on to.
Expressed(q) ==
    /\ q.revision < MaxRevision /\ q.revision <= doc.revision
    /\ q.op = "undo" => q.undoes = q.revision /\ q.undoes # 0
    /\ q.op = "status" /\ q.undoes # 0 =>
          /\ q.undoes = q.revision
          /\ \E n \in doc.changes : n.revision = q.revision /\ n.prior = q.status
    /\ q.undoes = 0 /\ q.revision = doc.revision => doc.status = "open"

Asks(q) ==
    /\ asked' = asked \cup {q} /\ q \in Requests
    /\ Expressed(q) /\ q.key <= used'.minted
    /\ used' \in Useds /\ used.minted <= used'.minted
    /\ UNCHANGED <<serverVars, token, told>>

LEMMA MintAsks ==
    ASSUME IntentsInv, NEW q, Mint(q), q \in Requests, Expressed(q),
           UNCHANGED <<serverVars, token, told>>
    PROVE  Asks(q) /\ \A p \in asked : p.key # q.key
  <1>1. /\ used.minted < MaxIntents /\ q.key = used.minted + 1
        /\ used' = [used EXCEPT !.minted = used.minted + 1]
        /\ asked' = asked \cup {q}
    BY DEF Mint
  <1>2. used \in Useds /\ used.minted \in Nat
    <2>1. used \in Useds
      BY PageRests
    <2> QED
      BY <2>1, Constants, SMT DEF Useds, Keys
  <1>3. used.minted + 1 \in Keys \cup {0}
    BY <1>1, <1>2, Constants, SMT DEF Keys
  <1>4. used' \in Useds /\ used'.minted = used.minted + 1
    BY <1>1, <1>2, <1>3, Zenon DEF Useds
  <1>5. used.minted <= used'.minted /\ q.key <= used'.minted
    BY <1>1, <1>2, <1>4, SMT
  <1>6. ASSUME NEW p \in asked PROVE p.key # q.key
    <2>1. p.key <= used.minted /\ p \in Requests
      BY DEF IntentsInv, AskedSound, TypeOK
    <2>2. p.key \in Nat
      BY <2>1, RequestFields, Constants, SMT DEF Keys
    <2> QED
      BY <1>1, <1>2, <2>1, <2>2, SMT
  <1> QED
    BY <1>1, <1>4, <1>5, <1>6 DEF Asks

LEMMA RetryAsks ==
    ASSUME IntentsInv, NEW q \in asked, UNCHANGED <<serverVars, token, asked, told, used>>
    PROVE  Asks(q)
  <1>1. q \in Requests /\ Expressed(q) /\ q.key <= used.minted /\ used \in Useds
    BY PageRests DEF IntentsInv, AskedSound, TypeOK, Expressed
  <1>2. used.minted <= used.minted
    BY <1>1, Constants, SMT DEF Useds, Keys
  <1> QED
    BY <1>1, <1>2 DEF Asks

\* What asking keeps, whoever sends the call.
LEMMA AsksKeeps ==
    ASSUME IntentsInv, NEW q, Asks(q)
    PROVE  /\ DocumentsSound' /\ AskedSound' /\ asked' \in SUBSET Requests
           /\ hook.born <= used'.minted
  <1>1. /\ doc' = doc /\ journal' = journal
        /\ asked' = asked \cup {q} /\ q \in Requests /\ Expressed(q)
        /\ q.key <= used'.minted /\ used.minted <= used'.minted
    BY DEF Asks, serverVars
  <1>2. used.minted \in Nat /\ used'.minted \in Nat
    BY PageRests, Constants, SMT DEF Asks, Useds, Keys
  <1>3. asked' \in SUBSET Requests
    BY <1>1 DEF IntentsInv, TypeOK
  <1>4. \A p \in asked : Expressed(p) /\ p.key <= used'.minted
    <2>1. SUFFICES ASSUME NEW p \in asked
                   PROVE  Expressed(p) /\ p.key <= used'.minted
      OBVIOUS
    <2>2. p.key <= used.minted /\ Expressed(p)
      BY DEF IntentsInv, AskedSound, Expressed
    <2>3. p.key \in Nat
      BY RequestFields, Constants, SMT DEF IntentsInv, TypeOK, Keys
    <2> QED
      BY <1>1, <1>2, <2>2, <2>3, SMT
  <1>5. AskedSound'
    BY <1>1, <1>4 DEF AskedSound, Expressed
  <1>6. DocumentsSound'
    BY <1>1, DocumentsKept
  <1>7. hook.born <= used'.minted
    <2>1. hook.born <= used.minted /\ hook.born \in Nat
      <3>1. hook.born \in Keys \cup {0}
        BY PageTypes, HookFields
      <3> QED
        BY <3>1, Constants, SMT DEF IntentsInv, PageSound, Keys
    <2> QED
      BY <1>1, <1>2, <2>1, SMT
  <1> QED
    BY <1>3, <1>5, <1>6, <1>7

LEMMA NewCallType ==
    ASSUME IntentsInv, NEW i \in CallIds, NEW from \in {"hook", "panel"},
           NEW q \in Requests
    PROVE  LET n == NewCall(i, from, q)
           IN /\ n \in Calls /\ n.id = i /\ n.from = from /\ n.request = q
              /\ n.answer.code = "none"
  <1>1. Silence \in Answers /\ Silence.code = "none"
    BY WithoutType DEF Silence, Codes
  <1>2. token \in Nat
    BY DEF IntentsInv, TypeOK
  <1> QED
    BY <1>1, <1>2 DEF NewCall, Calls

\* A new call beside those under way.
LEMMA SentCalls ==
    ASSUME IntentsInv, NEW q, Asks(q), NEW i \in CallIds, Free(i),
           NEW from \in {"hook", "panel"},
           calls' = calls \cup {NewCall(i, from, q)},
           \/ /\ from = "hook" /\ hook'.attempt = i /\ hook'.intent = q
              /\ panel' = panel
           \/ /\ from = "panel" /\ panel'.attempt = i /\ panel'.intent = q
              /\ hook' = hook
    PROVE  calls' \in SUBSET Calls /\ CallsSound'
  <1> DEFINE e == NewCall(i, from, q)
  <1>1. doc' = doc /\ asked' = asked \cup {q} /\ q \in Requests
    BY DEF Asks, serverVars
  <1>2. /\ e \in Calls /\ e.id = i /\ e.from = from /\ e.request = q
        /\ e.answer.code = "none"
    BY <1>1, NewCallType
  <1>3. \A d \in calls' : d \in calls \/ d = e
    OBVIOUS
  <1>4. e \in calls'
    OBVIOUS
  <1> HIDE DEF e
  <1>5. calls' \in SUBSET Calls
    BY <1>2, <1>3 DEF IntentsInv, TypeOK
  <1>6. SUFFICES ASSUME NEW d \in calls'
        PROVE /\ d.request \in asked'
              /\ d.from = "hook" /\ d.id = hook'.attempt => d.request = hook'.intent
              /\ d.from = "panel" /\ d.id = panel'.attempt => d.request = panel'.intent
              /\ d.answer.code = "ok" =>
                    \E r \in doc.receipts :
                       /\ r.request = d.request
                       /\ r.revision = d.answer.revision
                       /\ r.status = d.answer.status
              /\ d.answer.code = "revision_conflict" => Dead(d.request)
    BY <1>1, <1>5 DEF CallsSound, Dead
  <1>7. CASE d = e
    BY <1>1, <1>2, <1>7
  <1>8. CASE d \in calls
    <2>1. d.id # i
      BY <1>8 DEF Free
    <2>2. /\ d.request \in asked
          /\ d.from = "hook" /\ d.id = hook.attempt => d.request = hook.intent
          /\ d.from = "panel" /\ d.id = panel.attempt => d.request = panel.intent
          /\ d.answer.code = "ok" =>
                \E r \in doc.receipts :
                   /\ r.request = d.request
                   /\ r.revision = d.answer.revision /\ r.status = d.answer.status
          /\ d.answer.code = "revision_conflict" => Dead(d.request)
      BY <1>8 DEF IntentsInv, CallsSound
    <2> QED
      BY <1>1, <2>1, <2>2
  <1> QED
    BY <1>3, <1>7, <1>8

LEMMA HookSendsKeeps ==
    ASSUME IntentsInv, NEW q, Asks(q), q.key > hook.born, HookSends(q)
    PROVE  IntentsInv'
  <1>1. PICK i \in CallIds :
           /\ IsNext(i) /\ calls' = calls \cup {NewCall(i, "hook", q)}
           /\ hook' = [hook EXCEPT !.phase = "pending", !.intent = q, !.attempt = i]
           /\ panel' = panel
    BY DEF HookSends
  <1>2. /\ doc' = doc /\ journal' = journal /\ foreign' = foreign /\ sync' = sync
        /\ epoch' = epoch /\ token' = token /\ told' = told
        /\ asked' = asked \cup {q} /\ q \in Requests
    BY DEF Asks, serverVars
  <1>3. hook \in Hooks
    BY PageTypes
  <1>4. /\ hook' \in Hooks /\ hook'.phase = "pending" /\ hook'.intent = q
        /\ hook'.attempt = i /\ hook'.offer = hook.offer
        /\ hook'.born = hook.born /\ hook'.view = hook.view
    BY <1>1, <1>2, <1>3, Zenon DEF Hooks, Phases
  <1>5. calls' \in SUBSET Calls /\ CallsSound'
    BY <1>1, <1>4, SentCalls DEF IsNext
  <1>6. /\ DocumentsSound' /\ AskedSound' /\ asked' \in SUBSET Requests
        /\ hook.born <= used'.minted
    BY AsksKeeps
  <1>7. TypeOK'
    BY <1>1, <1>2, <1>4, <1>5, <1>6 DEF IntentsInv, TypeOK, Hooks, Phases, Asks, Useds
  <1>8. PageSound'
    <2>1. PageSound
      BY DEF IntentsInv
    <2>2. OfferIsItsOwn'
      BY <1>2, <1>4, <2>1 DEF PageSound, OfferIsItsOwn, Made
    <2>3. \A t \in told' : t.verdict = "stale" => Dead(t.request)'
      BY <1>2, <2>1 DEF PageSound, Dead
    <2> QED
      BY <1>1, <1>2, <1>4, <1>6, <2>1, <2>2, <2>3 DEF PageSound, Unresolved
  <1> QED
    BY <1>5, <1>6, <1>7, <1>8 DEF IntentsInv

LEMMA PanelSendsKeeps ==
    ASSUME IntentsInv, NEW q, Asks(q), PanelSends(q)
    PROVE  IntentsInv'
  <1>1. PICK i \in CallIds :
           /\ IsNext(i) /\ calls' = calls \cup {NewCall(i, "panel", q)}
           /\ panel' = [phase |-> "pending", intent |-> q, attempt |-> i]
           /\ hook' = hook
    BY DEF PanelSends
  <1>2. /\ doc' = doc /\ journal' = journal /\ foreign' = foreign /\ sync' = sync
        /\ epoch' = epoch /\ token' = token /\ told' = told
        /\ asked' = asked \cup {q} /\ q \in Requests
    BY DEF Asks, serverVars
  <1>3. /\ panel'.phase = "pending" /\ panel'.intent = q /\ panel'.attempt = i
    BY <1>1
  <1>4. calls' \in SUBSET Calls /\ CallsSound'
    BY <1>1, <1>3, SentCalls DEF IsNext
  <1>5. /\ DocumentsSound' /\ AskedSound' /\ asked' \in SUBSET Requests
        /\ hook.born <= used'.minted
    BY AsksKeeps
  <1>6. TypeOK'
    <2>1. panel' \in [phase : {"none", "pending", "unknown", "undone", "conflict", "failed"},
                      intent : Requests \cup {NoRequest}, attempt : CallIds \cup {0}]
      BY <1>1, <1>2
    <2> QED
      BY <1>1, <1>2, <1>4, <1>5, <2>1 DEF IntentsInv, TypeOK, Asks, Useds
  <1>7. PageSound'
    <2>1. PageSound
      BY DEF IntentsInv
    <2>2. OfferIsItsOwn'
      BY <1>1, <1>2, <2>1 DEF PageSound, OfferIsItsOwn, Made
    <2>3. \A t \in told' : t.verdict = "stale" => Dead(t.request)'
      BY <1>2, <2>1 DEF PageSound, Dead
    <2> QED
      BY <1>1, <1>2, <1>3, <1>5, <2>1, <2>2, <2>3 DEF PageSound, Unresolved
  <1> QED
    BY <1>4, <1>5, <1>6, <1>7 DEF IntentsInv

\* The two places an intent is minted, and what it asks for.
LEMMA MarkInProgressAsks ==
    ASSUME IntentsInv, MarkInProgress
    PROVE  \E q : /\ Asks(q) /\ (\A p \in asked : p.key # q.key)
                  /\ q.key > hook.born /\ HookSends(q)
  <1> DEFINE q == [key |-> used.minted + 1, op |-> "status",
                   revision |-> hook.view.revision, status |-> "started",
                   undoes |-> 0]
  <1>1. /\ hook.view.status = "open" /\ Mint(q) /\ HookSends(q)
        /\ UNCHANGED <<serverVars, token, told>>
    BY DEF MarkInProgress
  <1>2. /\ q.key = used.minted + 1 /\ q.op = "status"
        /\ q.revision = hook.view.revision /\ q.undoes = 0
    OBVIOUS
  <1>3. /\ hook.view.revision \in Revisions /\ hook.born \in Nat /\ used.minted \in Nat
        /\ hook.born <= used.minted
    <2>1. hook.born \in Keys \cup {0} /\ used.minted \in Keys \cup {0}
      BY PageTypes, HookFields, PageRests, Zenon DEF Useds
    <2>2. hook.view.revision \in Revisions
      BY PageTypes, HookFields, SMT
    <2>3. hook.born <= used.minted
      BY DEF IntentsInv, PageSound
    <2> QED
      BY <2>1, <2>2, <2>3, Constants, SMT DEF Keys
  <1>4. q \in Requests
    <2>1. used.minted + 1 \in Keys
      BY <1>1, <1>3, Constants, SMT DEF Mint, Keys
    <2> QED
      BY <1>3, <2>1, Constants DEF Requests
  <1> HIDE DEF q
  <1>5. Expressed(q)
    BY <1>1, <1>2 DEF Expressed, IntentsInv, PageSound, Mint
  <1>6. q.key > hook.born
    BY <1>2, <1>3, SMT
  <1> QED
    BY <1>1, <1>4, <1>5, <1>6, MintAsks

LEMMA UndoLastAsks ==
    ASSUME IntentsInv, UndoLast
    PROVE  \/ \E q : /\ Asks(q) /\ (\A p \in asked : p.key # q.key)
                     /\ q.key > hook.born /\ HookSends(q)
           \/ PageStep /\ told' = told
  <1> DEFINE q == [key |-> used.minted + 1, op |-> "status",
                   revision |-> hook.offer.revision, status |-> hook.offer.status,
                   undoes |-> hook.offer.revision]
  <1>1. /\ hook.offer # NoOffer /\ UNCHANGED <<serverVars, token, told>>
        /\ \/ Mint(q) /\ HookSends(q)
           \/ /\ hook' = [hook EXCEPT !.offer = NoOffer]
              /\ UNCHANGED <<calls, panel, asked, used>>
    BY DEF UndoLast
  <1>2. /\ q.key = used.minted + 1 /\ q.op = "status"
        /\ q.revision = hook.offer.revision /\ q.undoes = hook.offer.revision
        /\ q.status = hook.offer.status
    OBVIOUS
  <1>3. /\ hook.offer \in Offers /\ hook.born \in Nat /\ used.minted \in Nat
        /\ hook.born <= used.minted
    <2>1. hook.born \in Keys \cup {0} /\ used.minted \in Keys \cup {0}
          /\ hook.offer \in Offers
      BY PageTypes, HookFields, PageRests, Zenon DEF Useds
    <2>2. hook.born <= used.minted
      BY DEF IntentsInv, PageSound
    <2> QED
      BY <2>1, <2>2, Constants, SMT DEF Keys
  <1>4. ASSUME Mint(q) PROVE q \in Requests
    <2>1. used.minted + 1 \in Keys
      BY <1>3, <1>4, Constants, SMT DEF Mint, Keys
    <2> QED
      BY <1>3, <2>1, OfferFields DEF Requests
  <1> HIDE DEF q
  <1>5. CASE Mint(q) /\ HookSends(q)
    <2>1. PICK n \in doc.changes : /\ n.revision = hook.offer.revision
                                   /\ n.prior = hook.offer.status
      BY <1>1 DEF IntentsInv, PageSound, OfferIsItsOwn, Made
    <2>2. n.revision # 0 /\ n.revision <= doc.revision
      BY DEF IntentsInv, DocumentsSound, DocSound
    <2>3. Expressed(q)
      BY <1>2, <1>5, <2>1, <2>2 DEF Expressed, Mint
    <2>4. q.key > hook.born
      BY <1>2, <1>3, SMT
    <2> QED
      BY <1>1, <1>4, <1>5, <2>3, <2>4, MintAsks
  <1>6. CASE hook' = [hook EXCEPT !.offer = NoOffer]
             /\ UNCHANGED <<calls, panel, asked, used>>
    <2>1. hook \in Hooks
      BY PageTypes
    <2>2. /\ hook' \in Hooks /\ hook'.phase = hook.phase
          /\ hook'.attempt = hook.attempt /\ hook'.intent = hook.intent
          /\ hook'.offer = NoOffer /\ hook'.born = hook.born
          /\ hook'.view = hook.view
      BY <1>6, <2>1, HookWithdrawn
    <2>3. HookMoves(hook')
      BY <2>2, PageRests DEF HookMoves
    <2> QED
      BY <1>1, <1>6, <2>3, PageRests DEF PageStep, HookMoves, PanelMoves
  <1> QED
    BY <1>1, <1>5, <1>6

LEMMA UndoNoticeAsks ==
    ASSUME IntentsInv, UndoNotice
    PROVE  \E q : /\ Asks(q) /\ (\A p \in asked : p.key # q.key) /\ PanelSends(q)
  <1>1. PICK n \in doc.changes :
           LET q == [key |-> used.minted + 1, op |-> "undo",
                     revision |-> n.revision, status |-> n.prior,
                     undoes |-> n.revision]
           IN Mint(q) /\ PanelSends(q)
    BY DEF UndoNotice
  <1> DEFINE q == [key |-> used.minted + 1, op |-> "undo",
                   revision |-> n.revision, status |-> n.prior,
                   undoes |-> n.revision]
  <1>2. /\ q.key = used.minted + 1 /\ q.op = "undo"
        /\ q.revision = n.revision /\ q.undoes = n.revision
    OBVIOUS
  <1>3. /\ Mint(q) /\ PanelSends(q) /\ UNCHANGED <<serverVars, token, told>>
    BY <1>1 DEF UndoNotice
  <1>4. n \in Changes /\ used.minted \in Nat
    <2>1. n \in Changes
      BY DocFields DEF IntentsInv, TypeOK
    <2>2. used.minted \in Keys \cup {0}
      BY PageRests, Zenon DEF Useds
    <2> QED
      BY <2>1, <2>2, Constants, SMT DEF Keys
  <1>5. q \in Requests
    <2>1. used.minted + 1 \in Keys
      BY <1>3, <1>4, Constants, SMT DEF Mint, Keys
    <2> QED
      BY <1>4, <2>1, ChangeFields DEF Requests
  <1> HIDE DEF q
  <1>6. n.revision # 0 /\ n.revision <= doc.revision
    BY DEF IntentsInv, DocumentsSound, DocSound
  <1>7. Expressed(q)
    BY <1>2, <1>3, <1>6 DEF Expressed, Mint
  <1> QED
    BY <1>3, <1>5, <1>7, MintAsks

LEMMA RetryIntentAsks ==
    ASSUME IntentsInv, RetryIntent
    PROVE  /\ hook.intent \in asked /\ Asks(hook.intent)
           /\ hook.intent.key > hook.born /\ HookSends(hook.intent)
  <1>1. hook.intent \in asked /\ hook.intent.key > hook.born
    BY DEF RetryIntent, IntentsInv, PageSound, Unresolved
  <1> QED
    BY <1>1, RetryAsks DEF RetryIntent

LEMMA RetryNoticeAsks ==
    ASSUME IntentsInv, RetryNotice
    PROVE  /\ panel.intent \in asked /\ Asks(panel.intent)
           /\ PanelSends(panel.intent)
  <1>1. panel.intent \in asked
    BY DEF RetryNotice, IntentsInv, PageSound, Unresolved
  <1> QED
    BY <1>1, RetryAsks DEF RetryNotice

-----------------------------------------------------------------------------
(* The theorems. *)

\* A step sends a call for an intent, moves the documents, or is of the page.
Sends ==
    \E q : /\ Asks(q) /\ (q \in asked \/ \A p \in asked : p.key # q.key)
           /\ (HookSends(q) /\ q.key > hook.born) \/ PanelSends(q)

LEMMA StepIsOfAKind ==
    ASSUME IntentsInv, Next
    PROVE  \/ Sends
           \/ ServerStep
           \/ PageStep /\ (told' = told \/ \E q \in asked : ToldTruly(q))
  <1>1. ASSUME MarkInProgress PROVE Sends
    BY <1>1, MarkInProgressAsks DEF Sends
  <1>2. ASSUME UndoLast PROVE Sends \/ (PageStep /\ told' = told)
    BY <1>2, UndoLastAsks DEF Sends
  <1>3. ASSUME RetryIntent PROVE Sends
    BY <1>3, RetryIntentAsks DEF Sends
  <1>4. ASSUME UndoNotice PROVE Sends
    BY <1>4, UndoNoticeAsks DEF Sends
  <1>5. ASSUME RetryNotice PROVE Sends
    BY <1>5, RetryNoticeAsks DEF Sends
  <1>6. ASSUME \/ Recover \/ OtherCommand \/ Restart
               \/ EditDocuments \/ SettleDocuments \/ UndoForeign
        PROVE ServerStep
    BY <1>6, RecoverKeeps, OtherCommandKeeps, RestartKeeps, EditKeeps
  <1>7. ASSUME Refresh \/ RefreshToken \/ ChangeOwner \/ Dismiss
        PROVE PageStep /\ told' = told
    BY <1>7, RefreshKeeps, RefreshTokenKeeps, ChangeOwnerKeeps, DismissKeeps
  <1>8. ASSUME NEW c \in calls, Serve(c)
        PROVE ServerStep
    BY <1>8, ServeKeeps
  <1>9. ASSUME NEW c \in calls, Deliver(c) \/ Lose(c)
        PROVE PageStep /\ \E q \in asked : ToldTruly(q)
    BY <1>9, CallIsTrue, DeliverKeeps, LoseKeeps
  <1> QED
    BY <1>1, <1>2, <1>3, <1>4, <1>5, <1>6, <1>7, <1>8, <1>9 DEF Next

\* The page and the server start empty, with a Task that nobody changed.
LEMMA InitIsSound == Init => IntentsInv
  <1> SUFFICES ASSUME Init PROVE IntentsInv
    OBVIOUS
  <1>1. /\ doc = [revision |-> 0, status |-> "open", changes |-> {}, receipts |-> {}]
        /\ journal = NoDoc /\ foreign = FALSE /\ sync = "in-sync"
        /\ epoch = 0 /\ token = 0 /\ calls = {}
        /\ hook = [phase |-> "idle", intent |-> NoRequest, attempt |-> 0,
                   offer |-> NoOffer, latest |-> 0, born |-> 0,
                   view |-> [revision |-> 0, status |-> "open"]]
        /\ panel = [phase |-> "none", intent |-> NoRequest, attempt |-> 0]
        /\ asked = {} /\ told = {}
        /\ used = [minted |-> 0, faults |-> 0, events |-> 0]
    BY DEF Init
  <1>2. TypeOK
    <2>1. doc \in Docs
      BY <1>1, Constants, SMT DEF Docs
    <2>2. hook \in [phase : {"idle", "pending", "unknown", "conflict"},
                    intent : Requests \cup {NoRequest}, attempt : CallIds \cup {0},
                    offer : Offers, latest : Revisions, born : Keys \cup {0},
                    view : [revision : Revisions, status : Statuses]]
      BY <1>1, NoOfferType, Constants, SMT
    <2>3. panel \in [phase : {"none", "pending", "unknown", "undone", "conflict", "failed"},
                     intent : Requests \cup {NoRequest}, attempt : CallIds \cup {0}]
      BY <1>1, SMT
    <2>4. used \in [minted : Keys \cup {0}, faults : Nat, events : Nat]
      BY <1>1, SMT
    <2> QED
      BY <1>1, <2>1, <2>2, <2>3, <2>4 DEF TypeOK
  <1>3. DocumentsSound
    BY <1>1 DEF DocumentsSound, DocSound, UndosExact
  <1>4. AskedSound /\ CallsSound
    BY <1>1 DEF AskedSound, CallsSound
  <1>5. PageSound
    BY <1>1, SMT DEF PageSound, Unresolved, OfferIsItsOwn
  <1> QED
    BY <1>2, <1>3, <1>4, <1>5 DEF IntentsInv

LEMMA NextKeeps == IntentsInv /\ [Next]_vars => IntentsInv'
  <1>1. ASSUME IntentsInv, Next PROVE IntentsInv'
    <2>1. CASE Sends
      BY <1>1, <2>1, HookSendsKeeps, PanelSendsKeeps DEF Sends
    <2>2. CASE ServerStep
      BY <1>1, <2>2, ServerKeeps
    <2>3. CASE PageStep
      BY <1>1, <2>3, PageStepKeeps
    <2> QED
      BY <1>1, <2>1, <2>2, <2>3, StepIsOfAKind
  <1>2. ASSUME IntentsInv, UNCHANGED vars PROVE IntentsInv'
    <2>1. UNCHANGED <<doc, journal, foreign, sync, epoch, calls, token, hook, panel,
                      asked, told, used>>
      BY <1>2 DEF vars
    <2>2. TypeOK'
      BY <1>2, <2>1 DEF IntentsInv, TypeOK
    <2>3. DocumentsSound'
      BY <1>2, <2>1, DocumentsKept
    <2>4. AskedSound' /\ CallsSound'
      BY <1>2, <2>1 DEF IntentsInv, AskedSound, CallsSound, Dead
    <2>5. PageSound'
      BY <1>2, <2>1 DEF IntentsInv, PageSound, OfferIsItsOwn, Made, Dead, Unresolved
    <2> QED
      BY <2>2, <2>3, <2>4, <2>5 DEF IntentsInv
  <1> QED
    BY <1>1, <1>2

\* Intents, calls, answers, documents and the page agree at every step.
THEOREM IntentsInvariant == Spec => []IntentsInv
  BY InitIsSound, NextKeeps, PTL DEF Spec

\* Every variable keeps its type: no revision or key leaves its bound.
THEOREM IntentsTypeCorrect == Spec => []TypeOK
  <1>1. IntentsInv => TypeOK
    BY DEF IntentsInv
  <1> QED
    BY <1>1, IntentsInvariant, PTL

\* An Undo, of the hook or of the panel, reverses exactly its change.
THEOREM UndoIsExactHolds == Spec => []UndoIsExact
  <1>1. IntentsInv => UndoIsExact
    BY DEF IntentsInv, DocumentsSound, DocSound, UndoIsExact
  <1> QED
    BY <1>1, IntentsInvariant, PTL

\* What the hook offers to undo is its own change, of this lifetime.
THEOREM OfferIsItsOwnHolds == Spec => []OfferIsItsOwn
  <1>1. IntentsInv => OfferIsItsOwn
    BY DEF IntentsInv, PageSound
  <1> QED
    BY <1>1, IntentsInvariant, PTL

-----------------------------------------------------------------------------
(* Each kind of step, for the ledger. *)

Ledgered == {r.request : r \in doc.receipts}

LEMMA TellAdds ==
    ASSUME NEW q, NEW v \in Verdicts, Tell(q, v)
    PROVE  /\ Of(v)' = Of(v) \cup {q}
           /\ \A w \in Verdicts : w # v => Of(w)' = Of(w)
  <1> DEFINE t == [request |-> q, verdict |-> v]
  <1>1. told' = told \cup {t}
    BY DEF Tell
  <1>2. t.request = q /\ t.verdict = v
    OBVIOUS
  <1> HIDE DEF t
  <1>3. Of(v)' = Of(v) \cup {q}
    <2>1. ASSUME NEW x PROVE x \in Of(v)' <=> x \in Of(v) \cup {q}
      BY <1>1, <1>2, SMT DEF Of
    <2> QED
      BY <2>1
  <1>4. ASSUME NEW w \in Verdicts, w # v PROVE Of(w)' = Of(w)
    <2>1. ASSUME NEW x PROVE x \in Of(w)' <=> x \in Of(w)
      BY <1>1, <1>2, <1>4, SMT DEF Of
    <2> QED
      BY <2>1
  <1> QED
    BY <1>3, <1>4

LEMMA TellsLedger ==
    ASSUME IntentsInv, PageStep, NEW q \in asked, ToldTruly(q)
    PROVE  [Ledger!Next]_(Ledger!ledgerVars)
  <1>1. doc' = doc /\ asked' = asked
    BY DEF PageStep, serverVars
  <1>2. Ledgered' = Ledgered
    BY <1>1 DEF Ledgered
  <1>3. CASE told' = told
    BY <1>1, <1>2, <1>3 DEF Ledger!ledgerVars, Of, Ledgered
  <1>4. CASE Tell(q, "applied") /\ \E r \in doc.receipts : r.request = q
    <2>1. Of("applied")' = Of("applied") \cup {q} /\ Of("stale")' = Of("stale")
      BY <1>4, TellAdds DEF Verdicts
    <2>2. q \in Ledgered
      BY <1>4 DEF Ledgered
    <2>3. Ledger!ReportAccepted(q)
      BY <1>1, <1>2, <2>1, <2>2 DEF Ledger!ReportAccepted, Ledgered
    <2> QED
      BY <2>3 DEF Ledger!Next
  <1>5. CASE Tell(q, "stale") /\ Dead(q)
    <2>1. Of("stale")' = Of("stale") \cup {q} /\ Of("applied")' = Of("applied")
      BY <1>5, TellAdds DEF Verdicts
    <2>2. q \notin Ledgered
      BY <1>5 DEF Ledgered, Dead
    <2>3. Ledger!ReportStale(q)
      BY <1>1, <1>2, <2>1, <2>2 DEF Ledger!ReportStale, Ledgered
    <2> QED
      BY <2>3 DEF Ledger!Next
  <1> QED
    BY <1>3, <1>4, <1>5 DEF ToldTruly

LEMMA RestsLedger ==
    ASSUME doc' = doc, asked' = asked, told' = told
    PROVE  [Ledger!Next]_(Ledger!ledgerVars)
  BY DEF Ledger!ledgerVars, Of

LEMMA SendsLedger ==
    ASSUME IntentsInv, Sends
    PROVE  [Ledger!Next]_(Ledger!ledgerVars)
  <1>1. PICK q : Asks(q) /\ (q \in asked \/ \A p \in asked : p.key # q.key)
    BY DEF Sends
  <1>2. /\ doc' = doc /\ told' = told /\ asked' = asked \cup {q} /\ q \in Requests
    BY <1>1 DEF Asks, serverVars
  <1>3. CASE q \in asked
    BY <1>2, <1>3, RestsLedger
  <1>4. CASE \A p \in asked : p.key # q.key
    <2>1. Ledger!Ask(q)
      BY <1>2, <1>4 DEF Ledger!Ask, Of
    <2> QED
      BY <1>2, <2>1 DEF Ledger!Next
  <1> QED
    BY <1>1, <1>3, <1>4

LEMMA ServerLedger ==
    ASSUME IntentsInv, ServerStep
    PROVE  [Ledger!Next]_(Ledger!ledgerVars)
  <1>1. /\ doc' \in Docs /\ Follows(doc, doc')
        /\ asked' = asked /\ told' = told
    BY DEF ServerStep, Reached, pageVars
  <1>2. Of("applied")' = Of("applied") /\ Of("stale")' = Of("stale")
    BY <1>1 DEF Of
  <1>3. doc'.status \in Statuses
    BY <1>1, DocFields
  <1>4. CASE doc' = doc
    BY <1>1, <1>4, RestsLedger
  <1>5. CASE doc'.revision = doc.revision + 1 /\ doc'.receipts = doc.receipts
    <2>1. Ledgered' = Ledgered
      BY <1>5 DEF Ledgered
    <2>2. Ledger!Change
      BY <1>1, <1>2, <1>3, <1>5, <2>1 DEF Ledger!Change, Ledgered
    <2> QED
      BY <2>2 DEF Ledger!Next
  <1>6. ASSUME NEW q \in asked, q.revision = doc.revision,
               \A r \in doc.receipts : r.request.key # q.key,
               doc'.receipts = doc.receipts \cup
                  {[request |-> q, revision |-> doc'.revision, status |-> doc'.status]},
               \/ doc'.revision = doc.revision + 1 /\ doc'.status # doc.status
               \/ doc'.revision = doc.revision /\ doc'.status = doc.status
        PROVE  [Ledger!Next]_(Ledger!ledgerVars)
    <2> DEFINE R == [request |-> q, revision |-> doc'.revision, status |-> doc'.status]
    <2>1. R.request = q /\ doc'.receipts = doc.receipts \cup {R}
      BY <1>6
    <2> HIDE DEF R
    <2>2. Ledgered' = Ledgered \cup {q}
      BY <2>1 DEF Ledgered
    <2>3. q \notin Ledgered
      BY <1>6 DEF Ledgered
    <2>4. q \notin Of("stale")
      <3>1. SUFFICES ASSUME NEW t \in told, t.verdict = "stale" PROVE t.request # q
        BY DEF Of
      <3>2. t.request.revision < doc.revision
        BY <3>1 DEF IntentsInv, PageSound, Dead
      <3>3. doc.revision \in Nat
        BY DocFields, Constants, SMT DEF IntentsInv, TypeOK, Revisions
      <3> QED
        BY <1>6, <3>2, <3>3, SMT
    <2>5. Ledger!Accept(q)
      BY <1>1, <1>2, <1>3, <1>6, <2>2, <2>3, <2>4 DEF Ledger!Accept, Ledgered
    <2> QED
      BY <2>5 DEF Ledger!Next
  <1> QED
    BY <1>1, <1>4, <1>5, <1>6 DEF Follows

\* The intents of the page and the documents of the server implement the ledger:
\* an intent is accepted once at most, at its own revision, and what the page is
\* told of it is true for good.
THEOREM ImplementsIntentLedgerHolds == Spec => ImplementsIntentLedger
  <1>1. Init => Ledger!Init
    BY DEF Init, Ledger!Init, Of
  <1>2. IntentsInv /\ [Next]_vars => [Ledger!Next]_(Ledger!ledgerVars)
    <2>1. ASSUME IntentsInv, Next PROVE [Ledger!Next]_(Ledger!ledgerVars)
      <3>1. CASE Sends
        BY <2>1, <3>1, SendsLedger
      <3>2. CASE ServerStep
        BY <2>1, <3>2, ServerLedger
      <3>3. CASE PageStep /\ told' = told
        BY <3>3, RestsLedger DEF PageStep, serverVars
      <3>4. CASE PageStep /\ \E q \in asked : ToldTruly(q)
        BY <2>1, <3>4, TellsLedger
      <3> QED
        BY <2>1, <3>1, <3>2, <3>3, <3>4, StepIsOfAKind
    <2>2. ASSUME UNCHANGED vars PROVE [Ledger!Next]_(Ledger!ledgerVars)
      BY <2>2, RestsLedger DEF vars
    <2> QED
      BY <2>1, <2>2
  <1> QED
    BY <1>1, <1>2, IntentsInvariant, PTL DEF Spec, ImplementsIntentLedger, Ledger!Spec
=============================================================================
