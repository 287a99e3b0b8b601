--------------------------- MODULE Services_proofs ---------------------------
(***************************************************************************)
(* Proofs about the services beside the pools, for every value of their    *)
(* constants: Platform, UserLogin, Paging and StakeLedger.                 *)
(***************************************************************************)
EXTENDS MCServices, Sequences, FiniteSetTheorems, TLAPS

----------------------------------------------------------------------------
(* PLATFORM.                                                               *)

\* A document names no program but the one that owns its account.
Owned == \A a \in stored : owner[a] \in Programs /\ programId[a] \in {NoProgram, owner[a]}

(* What a call relies on from one await to the next: the account it will   *)
(* create is its own; what it found is stored; and while nothing of        *)
(* another program has been stored since it found nothing at all, all that *)
(* is stored is of its program.                                            *)
CallInv(q) ==
  /\ req[q].pc \in {"idle", "find", "owner", "findProgram", "send"} =>
       owner[q] = NoProgram /\ q \notin stored
  /\ req[q].pc = "store" => owner[q] = req[q].target /\ q \notin stored
  /\ req[q].pc \in {"owner", "label"} => req[q].rec \in stored
  /\ req[q].pc = "label" => owner[req[q].rec] = req[q].target
  /\ req[q].pc \in {"send", "store", "refind"} /\ req[q].first /\ q \notin overtaken =>
       \A a \in stored : owner[a] = req[q].target
  /\ req[q].pc \in {"answered", "init"} /\ req[q].given /\ q \notin overtaken =>
       req[q].rec \in stored /\ owner[req[q].rec] = req[q].target
  /\ owner[q] # NoProgram /\ q \notin lost => q \in stored \/ req[q].pc = "store"

\* A program that is not raced has one account, or one call that creates it.
OneAccount ==
  \A p \in Programs \ raced :
    /\ \A a, b \in OfProgram(p) : a = b
    /\ \A q \in Requests : Creating(q) /\ req[q].target = p =>
         /\ OfProgram(p) = {}
         /\ \A other \in Requests : Creating(other) /\ req[other].target = p => other = q

PlatformInv == TypeOK /\ Owned /\ (\A q \in Requests : CallInv(q)) /\ OneAccount

----------------------------------------------------------------------------
LEMMA PlatformInvInit == Init => PlatformInv
<1> SUFFICES ASSUME Init PROVE PlatformInv
  OBVIOUS
<1>1. /\ \A q \in Requests : q \in Accounts /\ q \notin OldAccounts
      /\ \A a, b \in OldAccounts : a = b
      /\ OldAccounts \subseteq Accounts
  BY CallAssumption DEF Requests, Accounts
<1>2. TypeOK
  <2>1. \A q \in Requests : [pc |-> "idle", given |-> FALSE, target |-> current,
                             rec |-> q, first |-> FALSE] \in Request
    BY <1>1 DEF Init, Request, Steps
  <2> QED BY <1>1, <2>1 DEF Init, TypeOK
<1>3. Owned
  BY <1>1 DEF Init, Owned
<1>4. \A q \in Requests : CallInv(q)
  BY <1>1 DEF Init, CallInv
<1>5. OneAccount
  BY <1>1 DEF Init, OneAccount, OfProgram, Creating
<1> QED BY <1>2, <1>3, <1>4, <1>5 DEF PlatformInv

(* A step of q that touches no document and no account.                    *)
LEMMA GotoKeeps ==
  ASSUME PlatformInv, NEW q \in Requests, NEW r \in Request, Goto(q, r),
         raced' \subseteq Programs, raced \subseteq raced',
         CallInv(q)',
         r.pc \in {"send", "store"} =>
           \/ r.target \in raced'
           \/ /\ OfProgram(r.target) = {}
              /\ \A other \in Requests \ {q} : ~(Creating(other) /\ req[other].target = r.target)
  PROVE  PlatformInv'
<1>1. \A other \in Requests : req'[other] = IF other = q THEN r ELSE req[other]
  BY DEF Goto, PlatformInv, TypeOK
<1>2. owner' = owner /\ stored' = stored /\ programId' = programId
      /\ overtaken' = overtaken /\ lost' = lost
  BY DEF Goto
<1>3. TypeOK'
  BY DEF PlatformInv, TypeOK, Goto
<1>4. Owned'
  BY <1>2 DEF PlatformInv, Owned
<1>5. \A other \in Requests : CallInv(other)'
  <2> SUFFICES ASSUME NEW other \in Requests, other # q PROVE CallInv(other)'
    OBVIOUS
  <2>1. req'[other] = req[other] /\ CallInv(other)
    BY <1>1 DEF PlatformInv
  <2> QED BY <1>2, <2>1 DEF CallInv
<1>6. OneAccount'
  <2> SUFFICES ASSUME NEW p \in Programs \ raced'
               PROVE  /\ \A a, b \in OfProgram(p)' : a = b
                      /\ \A s \in Requests : Creating(s)' /\ req'[s].target = p =>
                           /\ OfProgram(p)' = {}
                           /\ \A o \in Requests : Creating(o)' /\ req'[o].target = p => o = s
    BY DEF OneAccount
  <2>1. p \notin raced /\ OfProgram(p)' = OfProgram(p)
    BY <1>2 DEF OfProgram
  <2>2. \A s \in Requests : s # q =>
          (Creating(s)' <=> Creating(s)) /\ req'[s].target = req[s].target
    BY <1>1 DEF Creating
  <2>3. Creating(q)' /\ req'[q].target = p =>
          /\ OfProgram(p) = {}
          /\ \A o \in Requests \ {q} : ~(Creating(o) /\ req[o].target = p)
    BY <1>1 DEF Creating
  <2> QED BY <2>1, <2>2, <2>3 DEF PlatformInv, OneAccount
<1> QED BY <1>3, <1>4, <1>5, <1>6 DEF PlatformInv

\* The documents labelled with a program are those of its accounts.
LEMMA LabelledOwned ==
  ASSUME PlatformInv, NEW p \in Programs
  PROVE  /\ \A a \in Labelled(p) : a \in stored /\ a \in Accounts /\ owner[a] = p
         /\ \A a \in OfProgram(p) : programId[a] \in {NoProgram, p}
  BY ProgramAssumption DEF PlatformInv, TypeOK, Owned, Labelled, OfProgram

LEMMA Target ==
  ASSUME PlatformInv, NEW q \in Requests
  PROVE  /\ req[q] \in Request /\ req[q].target \in Programs /\ req[q].rec \in Accounts
         /\ q \in Accounts /\ req[q].given \in BOOLEAN /\ req[q].first \in BOOLEAN
         /\ CallInv(q)
  BY DEF PlatformInv, TypeOK, Request, Requests, Accounts

LEMMA RacedGrows ==
  ASSUME PlatformInv, NEW q \in Requests, Raced(q)
  PROVE  raced' \subseteq Programs /\ raced \subseteq raced'
  BY Target DEF Raced, PlatformInv, TypeOK

LEMMA InvBegin ==
  ASSUME PlatformInv, NEW q \in Requests, Begin(q)
  PROVE  PlatformInv'
<1>1. PICK given \in BOOLEAN :
        Goto(q, [req[q] EXCEPT !.pc = "find", !.given = given, !.target = current])
  BY DEF Begin
<1> DEFINE r == [req[q] EXCEPT !.pc = "find", !.given = given, !.target = current]
<1>2. r \in Request /\ r.pc = "find"
  BY Target DEF Request, Steps, PlatformInv, TypeOK
<1>3. CallInv(q)'
  <2>1. req'[q].pc = "find" /\ owner' = owner /\ stored' = stored /\ lost' = lost
    BY <1>1, Target DEF Goto, PlatformInv, TypeOK, Request
  <2>2. req[q].pc = "idle" /\ owner[q] = NoProgram /\ q \notin stored
    BY Target DEF Begin, CallInv
  <2> QED BY <2>1, <2>2 DEF CallInv
<1>4. raced' = raced /\ raced \subseteq Programs
  BY DEF Begin, PlatformInv, TypeOK
<1> HIDE DEF r
<1> QED BY <1>1, <1>2, <1>3, <1>4, GotoKeeps DEF r

\* A call that found no document, or none of its program, goes on to create.
LEMMA InvMissed ==
  ASSUME PlatformInv, NEW q \in Requests, NEW first \in BOOLEAN, Raced(q),
         req[q].pc \in {"find", "findProgram"},
         first => stored = {}, Labelled(req[q].target) = {},
         Goto(q, [req[q] EXCEPT !.pc = "send", !.first = first])
  PROVE  PlatformInv'
<1> DEFINE r == [req[q] EXCEPT !.pc = "send", !.first = first]
<1>1. r \in Request /\ r.pc = "send" /\ r.target = req[q].target /\ r.first = first
  BY Target DEF Request, Steps
<1>2. CallInv(q)'
  <2>1. /\ req'[q].pc = "send" /\ req'[q].first = first /\ req'[q].target = req[q].target
        /\ owner' = owner /\ stored' = stored /\ lost' = lost /\ overtaken' = overtaken
    BY Target DEF Goto, PlatformInv, TypeOK, Request
  <2>2. owner[q] = NoProgram /\ q \notin stored
    BY Target DEF CallInv
  <2> QED BY <2>1, <2>2 DEF CallInv
<1>3. \/ req[q].target \in raced'
      \/ /\ OfProgram(req[q].target) = {}
         /\ \A other \in Requests \ {q} :
              ~(Creating(other) /\ req[other].target = req[q].target)
  <2>1. \A a \in OfProgram(req[q].target) : programId[a] = NoProgram
    BY LabelledOwned, Target DEF Labelled, OfProgram
  <2> QED BY <2>1, Target DEF Raced
<1>4. Goto(q, r)
  OBVIOUS
<1> HIDE DEF r
<1> QED BY <1>1, <1>2, <1>3, <1>4, RacedGrows, GotoKeeps

LEMMA InvFindFirst ==
  ASSUME PlatformInv, NEW q \in Requests, FindFirst(q)
  PROVE  PlatformInv'
<1>1. CASE /\ stored = {}
           /\ Goto(q, [req[q] EXCEPT !.pc = "send", !.first = TRUE])
           /\ Raced(q)
  <2>1. Labelled(req[q].target) = {}
    BY <1>1 DEF Labelled
  <2> QED BY <1>1, <2>1, InvMissed DEF FindFirst
<1>2. ASSUME NEW a \in stored, UNCHANGED raced,
             Goto(q, [req[q] EXCEPT !.pc = IF req[q].given THEN "owner" ELSE "answered",
                                    !.rec = a])
      PROVE  PlatformInv'
  <2> DEFINE r == [req[q] EXCEPT !.pc = IF req[q].given THEN "owner" ELSE "answered", !.rec = a]
  <2>1. a \in Accounts
    BY DEF PlatformInv, TypeOK
  <2>2. /\ r \in Request /\ r.rec = a /\ r.given = req[q].given
        /\ r.pc = IF req[q].given THEN "owner" ELSE "answered"
    BY <2>1, Target DEF Request, Steps
  <2>3. Goto(q, r)
    BY <1>2
  <2> HIDE DEF r
  <2>4. /\ req'[q] = r /\ owner' = owner /\ stored' = stored /\ lost' = lost
    BY <2>3 DEF Goto, PlatformInv, TypeOK
  <2>5. owner[q] = NoProgram /\ q \notin stored
    BY Target DEF CallInv, FindFirst
  <2>6. CallInv(q)'
    BY <2>2, <2>4, <2>5 DEF CallInv
  <2>7. raced' = raced /\ raced \subseteq Programs
    BY <1>2 DEF PlatformInv, TypeOK
  <2>8. r.pc \notin {"send", "store"}
    BY <2>2
  <2> QED BY <2>2, <2>3, <2>6, <2>7, <2>8, GotoKeeps
<1> QED BY <1>1, <1>2 DEF FindFirst

\* A step of q to an answer: the account found is of the program.
LEMMA InvAnswered ==
  ASSUME PlatformInv, NEW q \in Requests, NEW r \in Request, Goto(q, r), UNCHANGED raced,
         r.pc = "answered", owner[q] = NoProgram \/ q \in lost \/ q \in stored,
         r.given /\ q \notin overtaken => r.rec \in stored /\ owner[r.rec] = r.target
  PROVE  PlatformInv'
<1>1. req'[q] = r /\ owner' = owner /\ stored' = stored /\ lost' = lost /\ overtaken' = overtaken
  BY DEF Goto, PlatformInv, TypeOK
<1>2. CallInv(q)'
  BY <1>1 DEF CallInv
<1>3. raced' = raced /\ raced \subseteq Programs
  BY DEF PlatformInv, TypeOK
<1> QED BY <1>2, <1>3, GotoKeeps

LEMMA InvAskOwner ==
  ASSUME PlatformInv, NEW q \in Requests, AskOwner(q)
  PROVE  PlatformInv'
<1>1. PICK pc \in {"findProgram", "failed", "label", "answered"} :
        /\ Goto(q, [req[q] EXCEPT !.pc = pc])
        /\ pc \in {"label", "answered"} => owner[req[q].rec] = req[q].target
  BY DEF AskOwner
<1> DEFINE r == [req[q] EXCEPT !.pc = pc]
<1>2. /\ r \in Request /\ r.pc = pc /\ r.given = req[q].given /\ r.rec = req[q].rec
      /\ r.target = req[q].target
  BY Target DEF Request, Steps
<1>3. Goto(q, r)
  BY <1>1
<1> HIDE DEF r
<1>4. /\ req'[q] = r /\ owner' = owner /\ stored' = stored /\ lost' = lost
      /\ overtaken' = overtaken
  BY <1>3 DEF Goto, PlatformInv, TypeOK
<1>5. owner[q] = NoProgram /\ q \notin stored /\ req[q].rec \in stored
  BY Target DEF CallInv, AskOwner
<1>6. CallInv(q)'
  BY <1>1, <1>2, <1>4, <1>5 DEF CallInv
<1>7. raced' = raced /\ raced \subseteq Programs
  BY DEF AskOwner, PlatformInv, TypeOK
<1>8. r.pc \notin {"send", "store"}
  BY <1>2
<1> QED BY <1>2, <1>3, <1>6, <1>7, <1>8, GotoKeeps

LEMMA InvFindProgram ==
  ASSUME PlatformInv, NEW q \in Requests, FindProgram(q)
  PROVE  PlatformInv'
<1>1. CASE /\ Labelled(req[q].target) = {}
           /\ Goto(q, [req[q] EXCEPT !.pc = "send", !.first = FALSE])
           /\ Raced(q)
  BY <1>1, InvMissed DEF FindProgram
<1>2. ASSUME NEW a \in Labelled(req[q].target), UNCHANGED raced,
             Goto(q, [req[q] EXCEPT !.pc = "answered", !.rec = a])
      PROVE  PlatformInv'
  <2> DEFINE r == [req[q] EXCEPT !.pc = "answered", !.rec = a]
  <2>1. a \in stored /\ a \in Accounts /\ owner[a] = req[q].target
    BY LabelledOwned, Target
  <2>2. r \in Request /\ r.pc = "answered" /\ r.rec = a /\ r.target = req[q].target
    BY <2>1, Target DEF Request, Steps
  <2>3. owner[q] = NoProgram
    BY Target DEF CallInv, FindProgram
  <2>4. Goto(q, r)
    BY <1>2
  <2> HIDE DEF r
  <2> QED BY <1>2, <2>1, <2>2, <2>3, <2>4, InvAnswered
<1> QED BY <1>1, <1>2 DEF FindProgram

LEMMA InvRefind ==
  ASSUME PlatformInv, NEW q \in Requests, Refind(q)
  PROVE  PlatformInv'
<1>1. PICK a \in IF req[q].first THEN stored ELSE Labelled(req[q].target) :
        Goto(q, [req[q] EXCEPT !.pc = "answered", !.rec = a])
  BY DEF Refind
<1> DEFINE r == [req[q] EXCEPT !.pc = "answered", !.rec = a]
<1>2. a \in stored /\ a \in Accounts /\ (q \notin overtaken => owner[a] = req[q].target)
  <2>1. CASE req[q].first
    BY <1>1, <2>1, Target DEF CallInv, Refind, PlatformInv, TypeOK
  <2>2. CASE ~req[q].first
    BY <1>1, <2>2, Target, LabelledOwned
  <2> QED BY <2>1, <2>2
<1>3. r \in Request /\ r.pc = "answered" /\ r.rec = a /\ r.target = req[q].target
  BY <1>2, Target DEF Request, Steps
<1>4. owner[q] = NoProgram \/ q \in lost \/ q \in stored
  BY Target DEF CallInv, Refind
<1>5. Goto(q, r) /\ UNCHANGED raced
  BY <1>1 DEF Refind
<1> HIDE DEF r
<1> QED BY <1>2, <1>3, <1>4, <1>5, InvAnswered

LEMMA InvLabel ==
  ASSUME PlatformInv, NEW q \in Requests, Label(q)
  PROVE  PlatformInv'
<1> DEFINE a == req[q].rec
<1>1. a \in stored /\ owner[a] = req[q].target /\ a \in Accounts
  BY Target DEF CallInv, Label
<1>2. /\ req'[q].pc = "answered" /\ req'[q].rec = req[q].rec /\ req'[q].given = req[q].given
      /\ req'[q].target = req[q].target
      /\ \A other \in Requests : other # q => req'[other] = req[other]
      /\ req' \in [Requests -> Request]
  BY Target DEF Label, PlatformInv, TypeOK, Request, Steps
<1>3. /\ owner' = owner /\ stored' = stored /\ overtaken' = overtaken /\ lost' = lost
      /\ raced' = raced
  BY DEF Label
<1>4. \A b \in Accounts : programId'[b] = IF b = a THEN req[q].target ELSE programId[b]
  BY DEF Label, PlatformInv, TypeOK
<1>5. TypeOK'
  BY <1>2, Target DEF PlatformInv, TypeOK, Label
<1>6. Owned'
  BY <1>1, <1>3, <1>4 DEF PlatformInv, Owned, TypeOK
<1>7. \A other \in Requests : CallInv(other)'
  <2>1. CallInv(q)'
    BY <1>1, <1>2, <1>3, Target DEF CallInv, Label
  <2>2. ASSUME NEW other \in Requests, other # q PROVE CallInv(other)'
    BY <1>2, <1>3, <2>2 DEF PlatformInv, CallInv
  <2> QED BY <2>1, <2>2
<1>8. OneAccount'
  <2>1. \A p : OfProgram(p)' = OfProgram(p)
    BY <1>3 DEF OfProgram
  <2>2. \A other \in Requests : Creating(other)' =>
          Creating(other) /\ req'[other].target = req[other].target
    BY <1>2 DEF Creating
  <2> QED BY <1>3, <2>1, <2>2 DEF PlatformInv, OneAccount
<1> QED BY <1>5, <1>6, <1>7, <1>8 DEF PlatformInv

(* The account of a call comes to exist while no document has it.          *)
LEMMA InvSend ==
  ASSUME PlatformInv, NEW q \in Requests, Send(q)
  PROVE  PlatformInv'
<1>1. PICK landed \in BOOLEAN, confirmed \in BOOLEAN :
        /\ confirmed => landed
        /\ owner' = IF landed THEN [owner EXCEPT ![q] = req[q].target] ELSE owner
        /\ req' = [req EXCEPT ![q].pc = IF confirmed THEN "store" ELSE "failed"]
        /\ lost' = IF landed /\ ~confirmed THEN lost \cup {q} ELSE lost
  BY DEF Send
<1>2. req[q].pc = "send" /\ owner[q] = NoProgram /\ q \notin stored
  BY Target DEF CallInv, Send
<1>3. /\ req'[q].pc = IF confirmed THEN "store" ELSE "failed"
      /\ req'[q].target = req[q].target /\ req'[q].first = req[q].first
      /\ \A other \in Requests : other # q => req'[other] = req[other]
      /\ req' \in [Requests -> Request]
  BY <1>1, Target DEF PlatformInv, TypeOK, Request, Steps
<1>4. /\ \A a \in Accounts : a # q => owner'[a] = owner[a]
      /\ owner'[q] = IF landed THEN req[q].target ELSE NoProgram
      /\ owner' \in [Accounts -> Programs \cup {NoProgram}]
  BY <1>1, <1>2, Target DEF PlatformInv, TypeOK
<1>5. /\ stored' = stored /\ programId' = programId /\ overtaken' = overtaken
      /\ raced' = raced /\ current' = current /\ tiers' = tiers
  BY DEF Send
<1>6. \A a \in stored : a \in Accounts /\ a # q
  BY <1>2 DEF PlatformInv, TypeOK
<1>7. TypeOK'
  BY <1>1, <1>3, <1>4, <1>5 DEF PlatformInv, TypeOK
<1>8. Owned'
  BY <1>4, <1>5, <1>6 DEF PlatformInv, Owned
<1>9. \A other \in Requests : CallInv(other)'
  <2>1. CallInv(q)'
    BY <1>1, <1>2, <1>3, <1>4, <1>5, <1>6, Target DEF CallInv
  <2>2. ASSUME NEW other \in Requests, other # q PROVE CallInv(other)'
    <3>1. other \in Accounts /\ CallInv(other) /\ req[other].rec \in Accounts
      BY Target
    <3>2. other \in lost' <=> other \in lost
      BY <1>1, <2>2
    <3> QED BY <1>2, <1>3, <1>4, <1>5, <1>6, <2>2, <3>1, <3>2 DEF CallInv
  <2> QED BY <2>1, <2>2
<1>10. OneAccount'
  <2>1. \A p : OfProgram(p)' = OfProgram(p)
    BY <1>4, <1>5, <1>6 DEF OfProgram
  <2>2. \A other \in Requests : Creating(other)' =>
          Creating(other) /\ req'[other].target = req[other].target
    BY <1>2, <1>3 DEF Creating
  <2> QED BY <1>5, <2>1, <2>2 DEF PlatformInv, OneAccount
<1> QED BY <1>7, <1>8, <1>9, <1>10 DEF PlatformInv

LEMMA InvStore ==
  ASSUME PlatformInv, NEW q \in Requests, Store(q)
  PROVE  PlatformInv'
<1> DEFINE t == req[q].target
<1>1. req[q].pc = "store" /\ owner[q] = t /\ q \notin stored /\ t \in Programs /\ q \in Accounts
  BY Target DEF CallInv, Store, Stores
<1>2. /\ stored' = stored \cup {q}
      /\ programId' = [programId EXCEPT ![q] = t]
      /\ overtaken' = overtaken \cup Overtaken(t)
      /\ req' = [req EXCEPT ![q].pc = "refind"]
      /\ owner' = owner /\ raced' = raced /\ lost' = lost /\ current' = current /\ tiers' = tiers
  BY DEF Store, Stores
<1>3. /\ req'[q].pc = "refind" /\ req'[q].target = t /\ req'[q].first = req[q].first
      /\ \A other \in Requests : other # q => req'[other] = req[other]
      /\ req' \in [Requests -> Request]
  BY <1>2, Target DEF PlatformInv, TypeOK, Request, Steps
<1>4. TypeOK'
  BY <1>1, <1>2, <1>3 DEF PlatformInv, TypeOK, Overtaken
<1>5. Owned'
  BY <1>1, <1>2 DEF PlatformInv, Owned, TypeOK
<1>6. \A other \in Requests : CallInv(other)'
  <2>1. CallInv(q)'
    BY <1>1, <1>2, <1>3, Target DEF CallInv
  <2>2. ASSUME NEW other \in Requests, other # q PROVE CallInv(other)'
    <3>1. CallInv(other) /\ req'[other] = req[other]
      BY <1>3, <2>2, Target
    <3>2. /\ req[other].pc \in {"send", "store", "refind"} /\ req[other].first
          /\ other \notin overtaken'
          => other \notin overtaken /\ req[other].target = t
      BY <1>2 DEF Overtaken
    <3> QED BY <1>1, <1>2, <2>2, <3>1, <3>2 DEF CallInv
  <2> QED BY <2>1, <2>2
<1>7. OneAccount'
  <2> SUFFICES ASSUME NEW p \in Programs \ raced
               PROVE  /\ \A a, b \in OfProgram(p)' : a = b
                      /\ \A s \in Requests : Creating(s)' /\ req'[s].target = p =>
                           /\ OfProgram(p)' = {}
                           /\ \A o \in Requests : Creating(o)' /\ req'[o].target = p => o = s
    BY <1>2 DEF OneAccount
  <2>1. \A s \in Requests : Creating(s)' => Creating(s) /\ s # q
                                           /\ req'[s].target = req[s].target
    BY <1>3 DEF Creating
  <2>2. Creating(q)
    BY <1>1 DEF Creating
  <2>3. CASE p = t
    <3>1. OfProgram(p) = {} /\ \A s \in Requests : Creating(s) /\ req[s].target = p => s = q
      BY <2>2, <2>3 DEF PlatformInv, OneAccount
    <3>2. OfProgram(p)' = {q}
      BY <1>1, <1>2, <2>3, <3>1 DEF OfProgram
    <3> QED BY <2>1, <3>1, <3>2
  <2>4. CASE p # t
    <3>1. OfProgram(p)' = OfProgram(p)
      BY <1>1, <1>2, <2>4 DEF OfProgram
    <3> QED BY <2>1, <3>1 DEF PlatformInv, OneAccount
  <2> QED BY <2>3, <2>4
<1> QED BY <1>4, <1>5, <1>6, <1>7 DEF PlatformInv

(* A step that changes no account, no document and no history, and moves   *)
(* each call on only where it relies on nothing more than before.          *)
LEMMA InvMoves ==
  ASSUME PlatformInv, req' \in [Requests -> Request], current' \in Programs, tiers' \subseteq Scripts,
         UNCHANGED <<owner, stored, programId, overtaken, raced>>,
         lost \subseteq lost', lost' \subseteq Requests,
         \A q \in Requests :
           \/ req'[q] = req[q]
           \/ /\ req'[q].pc \in {"answered", "init"} /\ req[q].pc \in {"answered", "init"}
              /\ req'[q] = [req[q] EXCEPT !.pc = req'[q].pc]
           \/ /\ req'[q].pc = "failed"
              /\ req[q].pc = "store" => q \in lost'
  PROVE  PlatformInv'
<1>1. TypeOK'
  BY DEF PlatformInv, TypeOK
<1>2. Owned'
  BY DEF PlatformInv, Owned
<1>3. \A q \in Requests : CallInv(q)'
  <2> SUFFICES ASSUME NEW q \in Requests PROVE CallInv(q)'
    OBVIOUS
  <2>1. CASE req'[q] = req[q]
    BY <2>1, Target DEF CallInv
  <2>2. CASE /\ req'[q].pc \in {"answered", "init"} /\ req[q].pc \in {"answered", "init"}
             /\ req'[q] = [req[q] EXCEPT !.pc = req'[q].pc]
    <3>1. req'[q].given = req[q].given /\ req'[q].rec = req[q].rec /\ req'[q].target = req[q].target
      BY <2>2, Target DEF Request
    <3> QED BY <2>2, <3>1, Target DEF CallInv
  <2>3. CASE req'[q].pc = "failed" /\ (req[q].pc = "store" => q \in lost')
    BY <2>3, Target DEF CallInv
  <2> QED BY <2>1, <2>2, <2>3
<1>4. OneAccount'
  <2>1. \A p : OfProgram(p)' = OfProgram(p)
    BY DEF OfProgram
  <2>2. \A q \in Requests : Creating(q)' => Creating(q) /\ req'[q].target = req[q].target
    BY DEF Creating
  <2> QED BY <2>1, <2>2 DEF PlatformInv, OneAccount
<1> QED BY <1>1, <1>2, <1>3, <1>4 DEF PlatformInv

LEMMA InvCheckTiers ==
  ASSUME PlatformInv, NEW q \in Scripts, CheckTiers(q)
  PROVE  PlatformInv'
<1> DEFINE r == [req[q] EXCEPT !.pc = IF tiers = {} THEN "init" ELSE "failed"]
<1>1. q \in Requests /\ req[q].pc = "answered"
  BY DEF Requests, CheckTiers
<1>2. r \in Request /\ (r.pc = "init" \/ r.pc = "failed") /\ r = [req[q] EXCEPT !.pc = r.pc]
  BY <1>1, Target DEF Request, Steps
<1>3. \A other \in Requests : req'[other] = IF other = q THEN r ELSE req[other]
  BY DEF CheckTiers, Goto, PlatformInv, TypeOK
<1>4. req' \in [Requests -> Request] /\ current' \in Programs /\ tiers' \subseteq Scripts
      /\ lost' = lost /\ lost' \subseteq Requests
      /\ UNCHANGED <<owner, stored, programId, overtaken, raced>>
  BY <1>2 DEF CheckTiers, Goto, PlatformInv, TypeOK
<1> HIDE DEF r
<1>5. \A s \in Requests :
           \/ req'[s] = req[s]
           \/ /\ req'[s].pc \in {"answered", "init"} /\ req[s].pc \in {"answered", "init"}
              /\ req'[s] = [req[s] EXCEPT !.pc = req'[s].pc]
           \/ /\ req'[s].pc = "failed"
              /\ req[s].pc = "store" => s \in lost'
  BY <1>1, <1>2, <1>3
<1> QED BY <1>4, <1>5, InvMoves

LEMMA InvInitTiers ==
  ASSUME PlatformInv, NEW q \in Scripts, InitTiers(q)
  PROVE  PlatformInv'
<1>1. PICK landed \in BOOLEAN :
        /\ tiers' = IF landed THEN {q} ELSE tiers
        /\ req' = [req EXCEPT ![q].pc = IF landed THEN "answered" ELSE "failed"]
  BY DEF InitTiers
<1> DEFINE r == [req[q] EXCEPT !.pc = IF landed THEN "answered" ELSE "failed"]
<1>2. q \in Requests /\ req[q].pc = "init"
  BY DEF Requests, InitTiers
<1>3. r \in Request /\ (r.pc = "answered" \/ r.pc = "failed") /\ r = [req[q] EXCEPT !.pc = r.pc]
  BY <1>2, Target DEF Request, Steps
<1>4. \A other \in Requests : req'[other] = IF other = q THEN r ELSE req[other]
  BY <1>1, <1>2 DEF PlatformInv, TypeOK
<1>5. req' \in [Requests -> Request] /\ current' \in Programs /\ tiers' \subseteq Scripts
      /\ lost' = lost /\ lost' \subseteq Requests
      /\ UNCHANGED <<owner, stored, programId, overtaken, raced>>
  BY <1>1, <1>3 DEF InitTiers, PlatformInv, TypeOK
<1> HIDE DEF r
<1>6. \A s \in Requests :
           \/ req'[s] = req[s]
           \/ /\ req'[s].pc \in {"answered", "init"} /\ req[s].pc \in {"answered", "init"}
              /\ req'[s] = [req[s] EXCEPT !.pc = req'[s].pc]
           \/ /\ req'[s].pc = "failed"
              /\ req[s].pc = "store" => s \in lost'
  BY <1>2, <1>3, <1>4
<1> QED BY <1>5, <1>6, InvMoves

LEMMA InvRestart ==
  ASSUME PlatformInv, NEW p \in Programs, Restart(p)
  PROVE  PlatformInv'
<1>1. \A q \in Requests : [req[q] EXCEPT !.pc = "failed"] \in Request
  BY Target DEF Request, Steps
<1>2. \A q \in Requests :
        req'[q] = IF q \in Calls /\ req[q].pc \notin {"idle", "answered"}
                  THEN [req[q] EXCEPT !.pc = "failed"] ELSE req[q]
  BY DEF Restart
<1>3. req' \in [Requests -> Request] /\ current' \in Programs /\ tiers' \subseteq Scripts
      /\ lost \subseteq lost' /\ lost' \subseteq Requests
      /\ UNCHANGED <<owner, stored, programId, overtaken, raced>>
  BY <1>1 DEF Restart, PlatformInv, TypeOK, Requests
<1>4. \A q \in Calls : req[q].pc = "store" => q \in lost'
  BY DEF Restart
<1>5. \A s \in Requests :
           \/ req'[s] = req[s]
           \/ /\ req'[s].pc \in {"answered", "init"} /\ req[s].pc \in {"answered", "init"}
              /\ req'[s] = [req[s] EXCEPT !.pc = req'[s].pc]
           \/ /\ req'[s].pc = "failed"
              /\ req[s].pc = "store" => s \in lost'
  BY <1>2, <1>4, Target DEF Request
<1> QED BY <1>3, <1>5, InvMoves

LEMMA PlatformInvStutter == PlatformInv /\ UNCHANGED vars => PlatformInv'
  BY DEF PlatformInv, vars, TypeOK, Owned, CallInv, OneAccount, OfProgram, Creating

LEMMA PlatformInvNext == PlatformInv /\ [Next]_vars => PlatformInv'
<1> SUFFICES ASSUME PlatformInv, [Next]_vars PROVE PlatformInv'
  OBVIOUS
<1>1. ASSUME NEW q \in Requests, generate(q) PROVE PlatformInv'
  BY <1>1, InvBegin, InvFindFirst, InvAskOwner, InvLabel, InvFindProgram, InvSend, InvStore,
     InvRefind DEF generate
<1>2. ASSUME NEW q \in Scripts, CheckTiers(q) \/ InitTiers(q) PROVE PlatformInv'
  BY <1>2, InvCheckTiers, InvInitTiers
<1>3. ASSUME NEW p \in Programs, Restart(p) PROVE PlatformInv'
  BY <1>3, InvRestart
<1>4. CASE UNCHANGED vars
  BY <1>4, PlatformInvStutter
<1> QED BY <1>1, <1>2, <1>3, <1>4 DEF Next

LEMMA PlatformInvariance == Spec => []PlatformInv
  BY PlatformInvInit, PlatformInvNext, PTL DEF Spec

----------------------------------------------------------------------------
(* The theorems.                                                           *)

\* Type correctness of accounts, documents and calls.
THEOREM PlatformTypeCorrect == Spec => []TypeOK
<1>1. PlatformInv => TypeOK
  BY DEF PlatformInv
<1> QED BY <1>1, PlatformInvariance, PTL

\* A call for a program is answered with an account the program owns, for any
\* calls, scripts and deployments, unless it was overtaken.
THEOREM AnswersAreOwned == Spec => []AnswerIsOwned
<1>1. PlatformInv => AnswerIsOwned
  <2> SUFFICES ASSUME PlatformInv PROVE AnswerIsOwned
    OBVIOUS
  <2>1. \A a \in stored : programId[a] \in {NoProgram, owner[a]}
    BY DEF PlatformInv, Owned
  <2>2. \A q \in Requests \ overtaken :
          req[q].pc \in {"answered", "init"} /\ req[q].given =>
            req[q].rec \in OfProgram(req[q].target)
    BY DEF PlatformInv, CallInv, OfProgram
  <2> QED BY <2>1, <2>2 DEF AnswerIsOwned
<1> QED BY <1>1, PlatformInvariance, PTL

\* All calls for a program get the same account, but where two calls created
\* at the same time, a document without programId was missed, or a call was
\* overtaken.
THEOREM AllAnswersAgree == Spec => []AnswersAgree
<1>1. PlatformInv => AnswersAgree
  <2> SUFFICES ASSUME PlatformInv, NEW p \in Programs \ raced,
                      NEW q1 \in Requests \ overtaken, NEW q2 \in Requests \ overtaken,
                      req[q1].pc = "answered", req[q1].given, req[q1].target = p,
                      req[q2].pc = "answered", req[q2].given, req[q2].target = p
               PROVE  req[q1].rec = req[q2].rec
    BY DEF AnswersAgree
  <2>1. req[q1].rec \in OfProgram(p) /\ req[q2].rec \in OfProgram(p)
    BY DEF PlatformInv, CallInv, OfProgram
  <2> QED BY <2>1 DEF PlatformInv, OneAccount
<1> QED BY <1>1, PlatformInvariance, PTL

\* An account that exists on chain is stored, or about to be, unless a process
\* ended or a confirmation failed between the two writes.
THEOREM NoKeyLeaks == Spec => []NothingLeaks
<1>1. PlatformInv => NothingLeaks
  BY DEF PlatformInv, CallInv, NothingLeaks
<1> QED BY <1>1, PlatformInvariance, PTL

----------------------------------------------------------------------------
(* SIGN IN AND USERS.                                                      *)

(* A login between its read and its create: it has an address, no document *)
(* of its own yet, and, unless its address is raced, nobody else has a     *)
(* user of the address nor is about to create one.                         *)
Pending ==
  /\ \A q \in Logins : login[q].pc # "idle" => login[q].address \in Addresses
  /\ \A q \in Logins : login[q].pc # "done" => user[q] = NoUser
  /\ \A q \in Logins : login[q].pc = "create" /\ login[q].address \notin racedAddresses =>
       /\ Of(login[q].address) = {}
       /\ \A r \in Logins : login[r].pc = "create" /\ login[r].address = login[q].address => r = q

LoginInv == LoginTypeOK /\ Pending /\ TokenNamesItsUser /\ OneUserUnlessRaced

LEMMA Fields ==
  /\ NoUser.address = None /\ NoUser.first_name = None
  /\ None \notin Addresses \cup {Unset} /\ Unset \notin Addresses
  /\ \A u \in User : u # NoUser /\ u.address \in Addresses \cup {Unset}
                     /\ u.first_name \in Names \cup {None}
  /\ \A a \in Addresses \cup {Unset} : \A n \in Names \cup {None} :
       [address |-> a, first_name |-> n] \in User
  BY NoneAssumption DEF NoUser, User

\* The users are the documents that have an address.
LEMMA UsersHaveAddresses ==
  ASSUME LoginTypeOK
  PROVE  /\ \A u \in Ids : user[u] \in User \cup {NoUser}
         /\ \A u \in Users : user[u] \in User
         /\ \A a \in Addresses \cup {Unset} : Of(a) \subseteq Users
  BY Fields DEF LoginTypeOK, Users, Of

----------------------------------------------------------------------------
(* The initial states, and the steps.                                      *)

LEMMA LoginInvInit == LoginInit => LoginInv
<1> SUFFICES ASSUME LoginInit PROVE LoginInv
  OBVIOUS
<1>1. LoginTypeOK
  BY DEF LoginInit, LoginTypeOK, NoToken, Users
<1>2. Pending
  BY DEF LoginInit, Pending, Ids
<1>3. TokenNamesItsUser
  BY DEF LoginInit, TokenNamesItsUser
<1>4. OneUserUnlessRaced
  BY DEF LoginInit, OneUserUnlessRaced, Users
<1> QED BY <1>1, <1>2, <1>3, <1>4 DEF LoginInv

LEMMA InvLoginFound ==
  ASSUME LoginInv, NEW q \in Logins, NEW a \in Addresses, LoginFound(q, a)
  PROVE  LoginInv'
<1>1. PICK u \in Of(a) : token' = [token EXCEPT ![q] = Payload(u, user[u])]
  BY DEF LoginFound, FindByAddress
<1>2. u \in Ids /\ u \in Users /\ user[u].address = a /\ user[u] \in User
  BY <1>1, UsersHaveAddresses DEF LoginInv, Of
<1>3. Payload(u, user[u]) \in [id : Ids \cup {None}, address : Addresses \cup {None},
                               first_name : Names \cup {None}]
  BY <1>2, Fields DEF Payload
<1>4. Payload(u, user[u]).id = u /\ Payload(u, user[u]).address = a
  BY <1>2 DEF Payload
<1>5. LoginTypeOK'
  BY <1>1, <1>3 DEF LoginInv, LoginFound, LoginTypeOK, Users
<1>6. Pending'
  BY DEF LoginInv, LoginFound, LoginTypeOK, Pending, Of
<1>7. TokenNamesItsUser'
  BY <1>1, <1>2, <1>4 DEF LoginInv, LoginFound, LoginTypeOK, TokenNamesItsUser, Users
<1>8. OneUserUnlessRaced'
  BY DEF LoginInv, LoginFound, OneUserUnlessRaced, Users
<1> QED BY <1>5, <1>6, <1>7, <1>8 DEF LoginInv

LEMMA InvLoginMissed ==
  ASSUME LoginInv, NEW q \in Logins, NEW a \in Addresses, LoginMissed(q, a)
  PROVE  LoginInv'
<1>1. LoginTypeOK'
  BY DEF LoginInv, LoginMissed, LoginTypeOK, Users
<1>2. Pending'
  <2>1. \A r \in Logins : login'[r] = IF r = q THEN [pc |-> "create", address |-> a] ELSE login[r]
    BY DEF LoginInv, LoginTypeOK, LoginMissed
  <2>2. /\ racedAddresses \subseteq racedAddresses'
        /\ a \notin racedAddresses' =>
             \A r \in Logins : ~(login[r].pc = "create" /\ login[r].address = a)
    BY DEF LoginMissed, AboutToCreate
  <2>3. Of(a) = {} /\ user' = user /\ login[q].pc = "idle"
    BY DEF LoginMissed, FindByAddress
  <2> QED BY <2>1, <2>2, <2>3 DEF LoginInv, Pending, Of
<1>3. TokenNamesItsUser'
  BY DEF LoginInv, LoginMissed, LoginTypeOK, TokenNamesItsUser, Users
<1>4. OneUserUnlessRaced'
  BY DEF LoginInv, LoginMissed, OneUserUnlessRaced, Users
<1> QED BY <1>1, <1>2, <1>3, <1>4 DEF LoginInv

\* A document is added for u.
LEMMA Added ==
  ASSUME LoginInv, NEW u \in Ids, NEW a \in Addresses, NEW n \in Names \cup {None},
         user[u] = NoUser, user' = [user EXCEPT ![u] = [address |-> a, first_name |-> n]]
  PROVE  /\ user' \in [Ids -> User \cup {NoUser}]
         /\ Users' = Users \cup {u}
         /\ \A v \in Ids : user'[v] = IF v = u THEN [address |-> a, first_name |-> n] ELSE user[v]
  BY Fields DEF LoginInv, LoginTypeOK, Users

LEMMA InvLoginCreate ==
  ASSUME LoginInv, NEW q \in Logins, LoginCreate(q)
  PROVE  LoginInv'
<1> DEFINE a == login[q].address
           doc == [address |-> a, first_name |-> None]
<1>1. a \in Addresses /\ q \in Ids /\ user[q] = NoUser
  BY DEF LoginInv, LoginCreate, Pending, Ids
<1>2. /\ user' \in [Ids -> User \cup {NoUser}]
      /\ Users' = Users \cup {q}
      /\ \A v \in Ids : user'[v] = IF v = q THEN doc ELSE user[v]
  <2>1. user' = [user EXCEPT ![q] = doc]
    BY DEF LoginCreate
  <2> HIDE DEF doc
  <2>2. doc = [address |-> a, first_name |-> None]
    BY DEF doc
  <2> QED BY <1>1, <2>1, <2>2, Added
<1>3. /\ Payload(q, doc) \in [id : Ids \cup {None}, address : Addresses \cup {None},
                              first_name : Names \cup {None}]
      /\ Payload(q, doc).id = q /\ Payload(q, doc).address = a
  BY <1>1 DEF Payload
<1>4. \A r \in Logins : /\ r # q => login'[r] = login[r] /\ token'[r] = token[r]
                        /\ r = q => /\ login'[r].pc = "done" /\ login'[r].address = a
                                    /\ token'[r] = Payload(q, doc)
  BY DEF LoginInv, LoginTypeOK, LoginCreate
<1>5. LoginTypeOK'
  BY <1>2, <1>3 DEF LoginInv, LoginTypeOK, LoginCreate
<1>6. Pending'
  <2>1. \A r \in Logins : login'[r].pc = "create" => r # q /\ login[r].pc = "create"
    BY <1>4
  <2>2. \A r \in Logins : login[r].pc = "create" /\ login[r].address = a /\ r # q => a \in racedAddresses
    BY DEF LoginInv, Pending, LoginCreate
  <2>3. \A b \in Addresses : b # a => Of(b)' = Of(b)
    BY <1>1, <1>2, Fields DEF Of
  <2>4. racedAddresses' = racedAddresses
    BY DEF LoginCreate
  <2>5. \A r \in Logins : login'[r].pc # "done" => user'[r] = NoUser
    BY <1>2, <1>4 DEF LoginInv, Pending, Ids
  <2> QED BY <1>1, <1>4, <2>1, <2>2, <2>3, <2>4, <2>5 DEF LoginInv, Pending
<1>7. TokenNamesItsUser'
  <2>1. \A v \in Users : v # q /\ v \in Ids
    BY <1>1 DEF Users
  <2> QED BY <1>1, <1>2, <1>3, <1>4, <2>1 DEF LoginInv, TokenNamesItsUser, LoginCreate
<1>8. OneUserUnlessRaced'
  <2>1. a \notin racedAddresses => Of(a) = {}
    BY DEF LoginInv, Pending, LoginCreate
  <2>2. \A v \in Users : v # q /\ v \in Ids
    BY <1>1 DEF Users
  <2>3. racedAddresses' = racedAddresses
    BY DEF LoginCreate
  <2> QED BY <1>1, <1>2, <2>1, <2>2, <2>3 DEF LoginInv, OneUserUnlessRaced, Of
<1> QED BY <1>5, <1>6, <1>7, <1>8 DEF LoginInv

LEMMA LoginInvCreate ==
  ASSUME LoginInv, NEW q \in Creates, NEW a \in Addresses, NEW n \in Names, create(q, a, n)
  PROVE  LoginInv'
<1>1. q \in Ids /\ q \notin Logins
  BY RequestsAssumption DEF Ids
<1>2. /\ user' \in [Ids -> User \cup {NoUser}]
      /\ Users' = Users \cup {q}
      /\ \A v \in Ids : user'[v] = IF v = q THEN [address |-> a, first_name |-> n] ELSE user[v]
  BY <1>1, Added DEF create
<1>3. /\ racedAddresses \subseteq racedAddresses'
      /\ a \notin racedAddresses' =>
           /\ Of(a) = {}
           /\ \A r \in Logins : ~(login[r].pc = "create" /\ login[r].address = a)
  BY DEF create, AboutToCreate
<1>4. login' = login /\ token' = token
  BY DEF create
<1>5. \A v \in Users : v # q /\ v \in Ids
  BY DEF create, Users
<1>6. LoginTypeOK'
  BY <1>2 DEF LoginInv, LoginTypeOK, create
<1>7. Pending'
  <2>1. \A b \in Addresses : b # a => Of(b)' = Of(b)
    BY <1>2, <1>5, Fields, <1>1 DEF Of, create
  <2> QED BY <1>1, <1>2, <1>3, <1>4, <2>1 DEF LoginInv, Pending, Ids
<1>8. TokenNamesItsUser'
  BY <1>2, <1>4, <1>5 DEF LoginInv, TokenNamesItsUser, create
<1>9. OneUserUnlessRaced'
  <2>1. SUFFICES ASSUME NEW u \in Users', NEW v \in Users',
                        user'[u].address = user'[v].address, user'[u].address # Unset,
                        user'[u].address \notin racedAddresses'
                 PROVE  u = v
    BY DEF OneUserUnlessRaced
  <2>2. \A w \in Users : user'[w] = user[w]
    BY <1>2, <1>5
  <2>3. user'[q].address = a
    BY <1>1, <1>2
  <2>4. a \notin racedAddresses' => \A w \in Users : user[w].address # a
    BY <1>3, <1>5 DEF Of
  <2>5. CASE u \in Users /\ v \in Users
    BY <1>3, <2>1, <2>2, <2>5 DEF LoginInv, OneUserUnlessRaced
  <2>6. CASE u = q /\ v \in Users
    BY <2>1, <2>2, <2>3, <2>4, <2>6
  <2>7. CASE v = q /\ u \in Users
    BY <2>1, <2>2, <2>3, <2>4, <2>7
  <2> QED BY <1>2, <2>5, <2>6, <2>7
<1> QED BY <1>6, <1>7, <1>8, <1>9 DEF LoginInv

LEMMA LoginInvUpdate ==
  ASSUME LoginInv, NEW u \in Users, NEW a \in Addresses, NEW n \in Names,
         NEW set \in Addresses \cup {Unset, None}, update(u, a, n, set)
  PROVE  LoginInv'
<1> DEFINE old == user[u].address
           address == IF set = None THEN old ELSE set
<1>1. u \in Ids /\ user[u] \in User /\ old \in Addresses \cup {Unset}
  BY UsersHaveAddresses, Fields DEF LoginInv, Users
<1>2. address \in Addresses \cup {Unset} /\ [address |-> address, first_name |-> n] \in User
  BY <1>1, Fields
<1>3. /\ user' = [user EXCEPT ![u] = [address |-> address, first_name |-> n]]
      /\ readdressed' = IF address # old THEN readdressed \cup {u} ELSE readdressed
      /\ racedAddresses' = IF address # old /\ (Of(address) # {} \/ AboutToCreate(address))
                          THEN racedAddresses \cup {address} ELSE racedAddresses
      /\ login' = login /\ token' = token
  BY DEF update
<1> HIDE DEF address, old
<1>4. /\ user' \in [Ids -> User \cup {NoUser}]
      /\ \A v \in Ids : v # u => user'[v] = user[v]
      /\ user'[u] \in User /\ user'[u].address = address
  BY <1>1, <1>2, <1>3 DEF LoginInv, LoginTypeOK
<1>5. Users' = Users
  BY <1>1, <1>4, Fields DEF Users
<1>6. \A v \in Ids : user[v] = NoUser => user'[v] = NoUser
  BY <1>1, <1>4, Fields
<1>7. racedAddresses \subseteq racedAddresses' /\ readdressed \subseteq readdressed'
  BY <1>3
<1>8. ASSUME address # old, address \notin racedAddresses'
      PROVE  Of(address) = {} /\ ~AboutToCreate(address)
  BY <1>3, <1>8
<1>9. LoginTypeOK'
  BY <1>2, <1>3, <1>4, <1>5 DEF LoginInv, LoginTypeOK
<1>10. Pending'
  <2>1. ASSUME NEW q \in Logins, login[q].pc = "create", login[q].address \notin racedAddresses'
        PROVE  Of(login[q].address)' = {}
    <3>1. Of(login[q].address) = {}
      BY <1>7, <2>1 DEF LoginInv, Pending
    <3>2. address = login[q].address => FALSE
      BY <1>1, <1>8, <2>1, <3>1 DEF AboutToCreate, Of, old
    <3> QED BY <1>1, <1>3, <1>4, <3>1, <3>2 DEF Of
  <2> QED BY <1>3, <1>6, <1>7, <2>1 DEF LoginInv, Pending, Ids
<1>11. TokenNamesItsUser'
  <2>1. ASSUME NEW q \in Logins, login[q].pc = "done"
        PROVE  \/ user'[token[q].id].address = login[q].address
               \/ token[q].id \in readdressed'
    <3>1. token[q].id \in Users /\ token[q].id \in Ids
      BY <2>1 DEF LoginInv, TokenNamesItsUser, Users
    <3>2. CASE token[q].id = u
      BY <1>3, <1>4, <2>1, <3>2 DEF LoginInv, TokenNamesItsUser, old
    <3>3. CASE token[q].id # u
      BY <1>4, <1>7, <2>1, <3>1, <3>3 DEF LoginInv, TokenNamesItsUser
    <3> QED BY <3>2, <3>3
  <2> QED BY <1>3, <1>5, <2>1 DEF LoginInv, TokenNamesItsUser
<1>12. OneUserUnlessRaced'
  <2>1. SUFFICES ASSUME NEW v \in Users, NEW w \in Users, v # w,
                        user'[v].address = user'[w].address,
                        user'[v].address \notin racedAddresses' \cup {Unset}
                 PROVE  FALSE
    BY <1>5 DEF OneUserUnlessRaced
  <2>2. v \in Ids /\ w \in Ids
    BY DEF Users
  <2>3. ASSUME NEW x \in Users, NEW y \in Users, x = u, y # u,
               user'[x].address = user'[y].address,
               user'[x].address \notin racedAddresses' \cup {Unset}
        PROVE  FALSE
    <3>1. y \in Ids /\ user[y].address = address /\ address \notin racedAddresses' \cup {Unset}
      BY <1>4, <2>3 DEF Users
    <3>2. address = old
      BY <1>8, <3>1 DEF Of
    <3> QED BY <1>7, <2>3, <3>1, <3>2 DEF LoginInv, OneUserUnlessRaced, old
  <2>4. CASE v # u /\ w # u
    BY <1>4, <1>7, <2>1, <2>2, <2>4 DEF LoginInv, OneUserUnlessRaced
  <2> QED BY <2>1, <2>3, <2>4
<1> QED BY <1>9, <1>10, <1>11, <1>12 DEF LoginInv

LEMMA LoginInvStutter == LoginInv /\ UNCHANGED userVars => LoginInv'
  BY DEF LoginInv, userVars, LoginTypeOK, Pending, TokenNamesItsUser, OneUserUnlessRaced, Users, Of

LEMMA LoginInvNext == LoginInv /\ [LoginNext]_userVars => LoginInv'
<1> SUFFICES ASSUME LoginInv, [LoginNext]_userVars PROVE LoginInv'
  OBVIOUS
<1>1. ASSUME NEW q \in Logins, NEW a \in Addresses, LoginFound(q, a) PROVE LoginInv'
  BY <1>1, InvLoginFound
<1>2. ASSUME NEW q \in Logins, NEW a \in Addresses, LoginMissed(q, a) PROVE LoginInv'
  BY <1>2, InvLoginMissed
<1>3. ASSUME NEW q \in Logins, LoginCreate(q) PROVE LoginInv'
  BY <1>3, InvLoginCreate
<1>4. ASSUME NEW q \in Creates, NEW a \in Addresses, NEW n \in Names, create(q, a, n) PROVE LoginInv'
  BY <1>4, LoginInvCreate
<1>5. ASSUME NEW u \in Users, NEW a \in Addresses, NEW n \in Names,
             NEW set \in Addresses \cup {Unset, None}, update(u, a, n, set)
      PROVE  LoginInv'
  BY <1>5, LoginInvUpdate
<1>6. CASE UNCHANGED userVars
  BY <1>6, LoginInvStutter
<1> QED BY <1>1, <1>2, <1>3, <1>4, <1>5, <1>6 DEF LoginNext

LEMMA LoginInvariance == LoginSpec => []LoginInv
  BY LoginInvInit, LoginInvNext, PTL DEF LoginSpec

----------------------------------------------------------------------------
(* The theorems.                                                           *)

\* Type correctness of users, logins and tokens.
THEOREM UserTypeCorrect == LoginSpec => []LoginTypeOK
<1>1. LoginInv => LoginTypeOK
  BY DEF LoginInv
<1> QED BY <1>1, LoginInvariance, PTL

\* A token names a user that exists and has the address the token was given for,
\* unless an update gave that user another one, for any number of logins, creates
\* and updates.
THEOREM TokensNameTheirUsers == LoginSpec => []TokenNamesItsUser
<1>1. LoginInv => TokenNamesItsUser
  BY DEF LoginInv
<1> QED BY <1>1, LoginInvariance, PTL

\* An address has a second user only if two first logins overlapped, or one was
\* created for it or given it beside.
THEOREM OnlyRacesMakeTwoUsers == LoginSpec => []OneUserUnlessRaced
<1>1. LoginInv => OneUserUnlessRaced
  BY DEF LoginInv
<1> QED BY <1>1, LoginInvariance, PTL

\* All logins of an address that is not raced are the same user's, while the users
\* they name keep their address.
THEOREM AllLoginsAgree == LoginSpec => []LoginsAgree
<1>1. LoginInv => LoginsAgree
  <2> SUFFICES ASSUME LoginInv, NEW q \in Logins, NEW r \in Logins,
                      login[q].pc = "done", login[r].pc = "done",
                      login[q].address = login[r].address, login[q].address \notin racedAddresses,
                      {token[q].id, token[r].id} \cap readdressed = {}
               PROVE  token[q].id = token[r].id
    BY DEF LoginsAgree
  <2>1. token[q].id \in Users /\ user[token[q].id].address = login[q].address
    BY DEF LoginInv, TokenNamesItsUser
  <2>2. token[r].id \in Users /\ user[token[r].id].address = login[r].address
    BY DEF LoginInv, TokenNamesItsUser
  <2>3. login[q].address # Unset
    BY Fields DEF LoginInv, Pending
  <2> QED BY <2>1, <2>2, <2>3 DEF LoginInv, OneUserUnlessRaced
<1> QED BY <1>1, LoginInvariance, PTL
----------------------------------------------------------------------------
(* SUMS OVER FINITE SETS.  Induction is over the members of a set of sets, *)
(* so that no operator is passed to a theorem.                             *)

LEMMA FiniteSetInduction ==
  ASSUME NEW S, IsFiniteSet(S), NEW Good, {} \in Good,
         \A T \in SUBSET S : \A x \in S \ T : T \in Good => T \cup {x} \in Good
  PROVE  S \in Good
<1> SUFFICES ASSUME S \notin Good PROVE FALSE
  OBVIOUS
<1> DEFINE Bad == {T \in SUBSET S : T \notin Good}
           R == StrictSubsetOrdering(S)
<1>1. IsWellFoundedOn(R, SUBSET S)
  BY FS_StrictSubsetOrderingWellFounded, FS_FiniteSubsetsOfFinite
<1>2. Bad \subseteq SUBSET S /\ Bad # {}
  OBVIOUS
<1>3. \E T \in Bad : \A U \in Bad : ~ (<<U, T>> \in R)
  <2> HIDE DEF Bad, R
  <2> QED BY <1>1, <1>2, WFMin
<1>4. PICK T \in Bad : \A U \in Bad : ~ (<<U, T>> \in R)
  BY <1>3
<1>5. PICK x \in T : TRUE
  OBVIOUS
<1>6. T \ {x} \in Bad
  <2>1. T = (T \ {x}) \cup {x} /\ T \ {x} \in SUBSET S /\ x \in S \ (T \ {x})
    OBVIOUS
  <2> QED BY <2>1
<1>7. <<T \ {x}, T>> \in R
  BY <1>5 DEF StrictSubsetOrdering
<1> QED BY <1>4, <1>6, <1>7

LEMMA NatInd ==
  ASSUME NEW Good, 0 \in Good, \A n \in Nat : n \in Good => n + 1 \in Good, NEW n \in Nat
  PROVE  n \in Good
<1> DEFINE G == {T \in SUBSET (1..n) : Cardinality(T) \in Good}
<1>1. IsFiniteSet(1..n) /\ Cardinality(1..n) = n
  BY FS_Interval
<1>2. {} \in G
  BY FS_EmptySet
<1>3. \A T \in SUBSET (1..n) : \A x \in (1..n) \ T : T \in G => T \cup {x} \in G
  <2> SUFFICES ASSUME NEW T \in SUBSET (1..n), NEW x \in (1..n) \ T, T \in G
               PROVE  T \cup {x} \in G
    OBVIOUS
  <2>1. IsFiniteSet(T) /\ Cardinality(T) \in Nat
    BY <1>1, FS_Subset, FS_CardinalityType
  <2>2. Cardinality(T \cup {x}) = Cardinality(T) + 1
    BY <2>1, FS_AddElement
  <2> QED BY <2>1, <2>2
<1>4. 1..n \in G
  <2> HIDE DEF G
  <2> QED BY <1>1, <1>2, <1>3, FiniteSetInduction
<1> QED BY <1>1, <1>4

(* Subsets by their size.                                                  *)
Pick(s) == CHOOSE x \in s : TRUE
UpTo(S, n) == {s \in SUBSET S : Cardinality(s) <= n}
IsSumOn(g, f, D) == g = [s \in D |-> IF s = {} THEN 0 ELSE f[Pick(s)] + g[s \ {Pick(s)}]]

LEMMA Sizes ==
  ASSUME NEW S, IsFiniteSet(S)
  PROVE  /\ \A s \in SUBSET S : IsFiniteSet(s) /\ Cardinality(s) \in 0..Cardinality(S)
         /\ \A s \in SUBSET S : (Cardinality(s) = 0) <=> (s = {})
         /\ \A s \in SUBSET S : \A x \in s : Cardinality(s \ {x}) = Cardinality(s) - 1
         /\ UpTo(S, Cardinality(S)) = SUBSET S
<1>1. \A s \in SUBSET S : IsFiniteSet(s) /\ Cardinality(s) \in 0..Cardinality(S)
  BY FS_Subset, FS_CardinalityType
<1>2. \A s \in SUBSET S : (Cardinality(s) = 0) <=> (s = {})
  BY <1>1, FS_EmptySet
<1>3. \A s \in SUBSET S : \A x \in s : Cardinality(s \ {x}) = Cardinality(s) - 1
  BY <1>1, FS_RemoveElement
<1>4. UpTo(S, Cardinality(S)) = SUBSET S
  BY <1>1 DEF UpTo
<1> QED BY <1>1, <1>2, <1>3, <1>4

LEMMA PickIn == \A s : s # {} => Pick(s) \in s
  BY DEF Pick

LEMMA SumExists ==
  ASSUME NEW S, IsFiniteSet(S), NEW f
  PROVE  \E g : IsSumOn(g, f, SUBSET S)
<1> DEFINE Good == {n \in Nat : \E g : IsSumOn(g, f, UpTo(S, n))}
<1>1. 0 \in Good
  <2> DEFINE g == [s \in UpTo(S, 0) |-> 0]
  <2>1. \A s \in UpTo(S, 0) : s = {}
    BY Sizes DEF UpTo
  <2>2. IsSumOn(g, f, UpTo(S, 0))
    BY <2>1 DEF IsSumOn
  <2> QED BY <2>2
<1>2. ASSUME NEW n \in Nat, n \in Good PROVE n + 1 \in Good
  <2>1. PICK g : IsSumOn(g, f, UpTo(S, n))
    BY <1>2
  <2> DEFINE h == [s \in UpTo(S, n + 1) |->
                     IF s = {} THEN 0 ELSE f[Pick(s)] + g[s \ {Pick(s)}]]
  <2>2. \A s \in UpTo(S, n + 1) : s # {} => s \ {Pick(s)} \in UpTo(S, n)
    BY PickIn, Sizes DEF UpTo
  <2>3. UpTo(S, n) \subseteq UpTo(S, n + 1)
    BY Sizes DEF UpTo
  <2>4. \A s \in UpTo(S, n) : g[s] = IF s = {} THEN 0 ELSE f[Pick(s)] + g[s \ {Pick(s)}]
    BY <2>1 DEF IsSumOn
  <2>5. \A s \in UpTo(S, n) : h[s] = g[s]
    BY <2>3, <2>4
  <2>6. \A s \in UpTo(S, n + 1) :
          h[s] = IF s = {} THEN 0 ELSE f[Pick(s)] + h[s \ {Pick(s)}]
    BY <2>2, <2>5
  <2>7. h = [s \in UpTo(S, n + 1) |-> h[s]]
    OBVIOUS
  <2>8. IsSumOn(h, f, UpTo(S, n + 1))
    <3> HIDE DEF h
    <3> QED BY <2>6, <2>7 DEF IsSumOn
  <2> QED BY <2>8
<1>3. Cardinality(S) \in Nat
  BY FS_CardinalityType
<1>4. Cardinality(S) \in Good
  <2> HIDE DEF Good
  <2> QED BY <1>1, <1>2, <1>3, NatInd
<1> QED BY <1>4, Sizes

\* The sums over the subsets of S.
Sums(f, S) == CHOOSE g : IsSumOn(g, f, SUBSET S)

LEMMA SumSteps ==
  ASSUME NEW S, IsFiniteSet(S), NEW f
  PROVE  /\ Stakes!SumOf(f, S) = Sums(f, S)[S]
         /\ Sums(f, S)[{}] = 0
         /\ \A s \in SUBSET S : s # {} =>
              Sums(f, S)[s] = f[Pick(s)] + Sums(f, S)[s \ {Pick(s)}]
<1>1. Stakes!SumOf(f, S) = Sums(f, S)[S]
  BY DEF Stakes!SumOf, Stakes!FoldFunctionOnSet, Stakes!MapThenFoldSet, Sums, IsSumOn, Pick
<1>2. IsSumOn(Sums(f, S), f, SUBSET S)
  BY SumExists DEF Sums
<1> HIDE DEF Sums
<1>3. \A s \in SUBSET S :
        Sums(f, S)[s] = IF s = {} THEN 0 ELSE f[Pick(s)] + Sums(f, S)[s \ {Pick(s)}]
  BY <1>2 DEF IsSumOn
<1> QED BY <1>1, <1>3

LEMMA SumsInt ==
  ASSUME NEW S, IsFiniteSet(S), NEW f, \A x \in S : f[x] \in Int
  PROVE  \A s \in SUBSET S : Sums(f, S)[s] \in Int
<1> DEFINE g == Sums(f, S)
           Good == {n \in Nat : \A s \in SUBSET S : Cardinality(s) = n => g[s] \in Int}
<1>1. g[{}] = 0 /\ \A s \in SUBSET S : s # {} => g[s] = f[Pick(s)] + g[s \ {Pick(s)}]
  BY SumSteps
<1> HIDE DEF g
<1>2. 0 \in Good
  <2>1. \A s \in SUBSET S : Cardinality(s) = 0 => s = {}
    BY Sizes
  <2>2. g[{}] \in Int
    BY <1>1
  <2>3. \A s \in SUBSET S : Cardinality(s) = 0 => g[s] \in Int
    BY <2>1, <2>2
  <2> QED BY <2>3
<1>3. ASSUME NEW n \in Nat, n \in Good PROVE n + 1 \in Good
  <2> SUFFICES ASSUME NEW s \in SUBSET S, Cardinality(s) = n + 1 PROVE g[s] \in Int
    OBVIOUS
  <2>1. s # {} /\ Pick(s) \in s
    BY Sizes, PickIn
  <2>2. g[s \ {Pick(s)}] \in Int
    BY <1>3, <2>1, Sizes
  <2> QED BY <1>1, <2>1, <2>2
<1>4. \A n \in Nat : n \in Good
  <2> HIDE DEF Good
  <2> QED BY <1>2, <1>3, NatInd
<1> QED BY <1>4, Sizes DEF g

\* Any element may be taken first.
LEMMA SumsOrder ==
  ASSUME NEW S, IsFiniteSet(S), NEW f, \A x \in S : f[x] \in Int
  PROVE  \A s \in SUBSET S : \A y \in s : Sums(f, S)[s] = f[y] + Sums(f, S)[s \ {y}]
<1> DEFINE g == Sums(f, S)
           Ordered(s) == \A y \in s : g[s] = f[y] + g[s \ {y}]
           Good == {n \in Nat : \A s \in SUBSET S : Cardinality(s) = n => Ordered(s)}
<1>1. \A s \in SUBSET S : g[s] \in Int /\ (s # {} => g[s] = f[Pick(s)] + g[s \ {Pick(s)}])
  BY SumSteps, SumsInt
<1> HIDE DEF g
<1>2. 0 \in Good
  BY <1>1, Sizes
<1>3. ASSUME NEW n \in Nat, n \in Good PROVE n + 1 \in Good
  <2> SUFFICES ASSUME NEW s \in SUBSET S, Cardinality(s) = n + 1, NEW y \in s
               PROVE  g[s] = f[y] + g[s \ {y}]
    OBVIOUS
  <2> DEFINE p == Pick(s)
             t == (s \ {p}) \ {y}
  <2>1. p \in s /\ g[s] = f[p] + g[s \ {p}]
    BY <1>1, PickIn
  <2> HIDE DEF p
  <2>2. \A x \in s : s \ {x} \in SUBSET S /\ Ordered(s \ {x})
    <3>1. \A x \in s : s \ {x} \in SUBSET S /\ Cardinality(s \ {x}) = n
      BY Sizes
    <3> HIDE DEF Ordered
    <3> QED BY <1>3, <3>1
  <2>3. CASE y # p
    <3>1. g[s \ {p}] = f[y] + g[t]
      BY <2>1, <2>2, <2>3
    <3>2. g[s \ {y}] = f[p] + g[t]
      <4>1. t = (s \ {y}) \ {p}
        OBVIOUS
      <4> HIDE DEF t
      <4> QED BY <2>1, <2>2, <2>3, <4>1
    <3>3. f[p] \in Int /\ f[y] \in Int /\ g[t] \in Int
      BY <1>1, <2>1
    <3> QED BY <2>1, <3>1, <3>2, <3>3
  <2> QED BY <2>1, <2>3
<1>4. \A n \in Nat : n \in Good
  <2> HIDE DEF Good
  <2> QED BY <1>2, <1>3, NatInd
<1>5. \A s \in SUBSET S : Cardinality(s) \in Nat
  BY Sizes
<1> QED BY <1>4, <1>5 DEF g

\* A sum depends on the values in its set only, wherever it is taken from.
LEMMA SumsAgree ==
  ASSUME NEW S, IsFiniteSet(S), NEW T \in SUBSET S, NEW f, NEW g,
         \A x \in T : f[x] = g[x]
  PROVE  Sums(f, S)[T] = Sums(g, T)[T]
<1> DEFINE F == Sums(f, S)
           G == Sums(g, T)
           Good == {n \in Nat : \A s \in SUBSET T : Cardinality(s) = n => F[s] = G[s]}
<1>0. IsFiniteSet(T)
  BY FS_Subset
<1>1. /\ F[{}] = 0 /\ G[{}] = 0
      /\ \A s \in SUBSET T : s # {} => /\ F[s] = f[Pick(s)] + F[s \ {Pick(s)}]
                                       /\ G[s] = g[Pick(s)] + G[s \ {Pick(s)}]
  BY <1>0, SumSteps
<1> HIDE DEF F, G
<1>2. 0 \in Good
  BY <1>0, <1>1, Sizes
<1>3. ASSUME NEW n \in Nat, n \in Good PROVE n + 1 \in Good
  <2> SUFFICES ASSUME NEW s \in SUBSET T, Cardinality(s) = n + 1 PROVE F[s] = G[s]
    OBVIOUS
  <2>1. s # {} /\ Pick(s) \in s
    BY <1>0, Sizes, PickIn
  <2>2. F[s \ {Pick(s)}] = G[s \ {Pick(s)}]
    BY <1>0, <1>3, <2>1, Sizes
  <2> QED BY <1>1, <2>1, <2>2
<1>4. \A n \in Nat : n \in Good
  <2> HIDE DEF Good
  <2> QED BY <1>2, <1>3, NatInd
<1> QED BY <1>0, <1>4, Sizes DEF F, G

(* What SumOf is: 0 over nothing, an integer, the sum of one element and   *)
(* the others, and the same for functions that agree.                      *)
LEMMA SumEmpty == \A f : Stakes!SumOf(f, {}) = 0
  BY SumSteps, FS_EmptySet

LEMMA SumInt ==
  ASSUME NEW S, IsFiniteSet(S), NEW f, \A x \in S : f[x] \in Int
  PROVE  Stakes!SumOf(f, S) \in Int
  BY SumSteps, SumsInt

LEMMA SumAgrees ==
  ASSUME NEW S, IsFiniteSet(S), NEW f, NEW g, \A x \in S : f[x] = g[x]
  PROVE  Stakes!SumOf(f, S) = Stakes!SumOf(g, S)
  BY SumSteps, SumsAgree

LEMMA SumAdds ==
  ASSUME NEW S, IsFiniteSet(S), NEW y, y \notin S, NEW f, \A x \in S \cup {y} : f[x] \in Int
  PROVE  Stakes!SumOf(f, S \cup {y}) = f[y] + Stakes!SumOf(f, S)
<1> DEFINE T == S \cup {y}
<1>1. IsFiniteSet(T) /\ S \in SUBSET T /\ T \in SUBSET T /\ T \ {y} = S
  BY FS_AddElement
<1>2. Sums(f, T)[T] = f[y] + Sums(f, T)[S]
  BY <1>1, SumsOrder
<1>3. Sums(f, T)[S] = Sums(f, S)[S]
  BY <1>1, SumsAgree
<1> QED BY <1>1, <1>2, <1>3, SumSteps

\* One value changes.
LEMMA SumChanges ==
  ASSUME NEW S, IsFiniteSet(S), NEW y \in S, NEW f, NEW g, \A x \in S : f[x] \in Int,
         g[y] \in Int, \A x \in S \ {y} : g[x] = f[x]
  PROVE  Stakes!SumOf(g, S) = Stakes!SumOf(f, S) - f[y] + g[y]
<1> DEFINE T == S \ {y}
<1>1. IsFiniteSet(T) /\ y \notin T /\ S = T \cup {y}
  BY FS_RemoveElement
<1> HIDE DEF T
<1>2. Stakes!SumOf(f, S) = f[y] + Stakes!SumOf(f, T)
  BY <1>1, SumAdds
<1>3. Stakes!SumOf(g, S) = g[y] + Stakes!SumOf(g, T)
  BY <1>1, SumAdds DEF T
<1>4. Stakes!SumOf(g, T) = Stakes!SumOf(f, T) /\ Stakes!SumOf(f, T) \in Int
  BY <1>1, SumAgrees, SumInt DEF T
<1>5. f[y] \in Int
  OBVIOUS
<1> QED BY <1>2, <1>3, <1>4, <1>5

----------------------------------------------------------------------------
(* STAKE HISTORIES.                                                        *)

(* The rows of a user and an account, and what an operation still adds.    *)
RowsAt(u, a) == {r \in rows : r.stake_account = a /\ r.user_address = u}
RowAmount == [r \in rows |-> r.amount]
OnItsWay == [o \in done |-> posts[o] * Stakes!Moves(input[o])]

\* Every report of an operation that was done is on its way or stored, but the
\* lost ones, and those sent again are there twice.
Reported(o) ==
  posts[o] + Cardinality(Stakes!Copies(o)) =
    IF o \notin done \/ o \in lostReports THEN 0 ELSE IF o \in repeated THEN 2 ELSE 1

RowInv(r) ==
  /\ r.user_address = input[r.of].user_address
  /\ r.stake_account = input[r.of].stake_account
  /\ r.amount = Stakes!Moves(input[r.of])
  /\ r.copy < Cardinality(Stakes!Copies(r.of))

\* For every account, the current one or not.
AddsUp(u, a) ==
  Stakes!Done(u, a) \cap (lostReports \cup repeated) = {} =>
    Stakes!SumOf(RowAmount, RowsAt(u, a)) + Stakes!SumOf(OnItsWay, Stakes!Done(u, a)) = staked[u][a]

StakeInv ==
  /\ Stakes!TypeOK
  /\ IsFiniteSet(rows) /\ IsFiniteSet(done)
  /\ \A o \in Operations : Reported(o)
  /\ \A r \in rows : RowInv(r)
  /\ \A u \in Stakers, a \in StakeAccounts : AddsUp(u, a)

LEMMA SameCardinality == \A S : Stakes!Cardinality(S) = Cardinality(S)
  BY DEF Stakes!Cardinality, Cardinality

LEMMA Inputs ==
  ASSUME Stakes!TypeOK, NEW o \in Operations
  PROVE  /\ input[o].user_address \in Stakers /\ input[o].stake_account \in StakeAccounts
         /\ input[o].amount \in Nat
         /\ Stakes!Moves(input[o]) \in Int
<1>1. input[o] \in Stakes!CreateUserStakeHistory
  BY DEF Stakes!TypeOK
<1>2. /\ input[o].user_address \in Stakers /\ input[o].stake_account \in StakeAccounts
      /\ input[o].amount \in Nat
  BY <1>1, AmountsAssumption DEF Stakes!CreateUserStakeHistory
<1> QED BY <1>2 DEF Stakes!Moves

\* The terms of the sums, and where they are taken.
LEMMA Terms ==
  ASSUME StakeInv
  PROVE  /\ \A r \in rows : RowAmount[r] \in Int
         /\ \A o \in done : posts[o] \in Nat /\ Stakes!Moves(input[o]) \in Int /\ OnItsWay[o] \in Int
         /\ \A u, a : /\ IsFiniteSet(RowsAt(u, a)) /\ RowsAt(u, a) \subseteq rows
                      /\ IsFiniteSet(Stakes!Done(u, a)) /\ Stakes!Done(u, a) \subseteq done
         /\ \A o : IsFiniteSet(Stakes!Copies(o)) /\ Cardinality(Stakes!Copies(o)) \in Nat
<1>1. \A r \in rows : RowAmount[r] \in Int
  BY DEF StakeInv, Stakes!TypeOK, Stakes!Row, RowAmount
<1>2. \A o \in done : posts[o] \in Nat /\ Stakes!Moves(input[o]) \in Int /\ OnItsWay[o] \in Int
  <2> SUFFICES ASSUME NEW o \in done
               PROVE  posts[o] \in Nat /\ Stakes!Moves(input[o]) \in Int /\ OnItsWay[o] \in Int
    OBVIOUS
  <2>1. o \in Operations /\ posts[o] \in Nat
    BY DEF StakeInv, Stakes!TypeOK
  <2>2. Stakes!Moves(input[o]) \in Int
    BY <2>1, Inputs DEF StakeInv
  <2> QED BY <2>1, <2>2 DEF OnItsWay
<1>3. \A u, a : /\ RowsAt(u, a) \subseteq rows /\ Stakes!Done(u, a) \subseteq done
  BY DEF RowsAt, Stakes!Done
<1>4. \A o : Stakes!Copies(o) \subseteq rows
  BY DEF Stakes!Copies
<1> QED BY <1>1, <1>2, <1>3, <1>4, FS_Subset, FS_CardinalityType DEF StakeInv

LEMMA StakeInvInit == Stakes!Init => StakeInv
<1> SUFFICES ASSUME Stakes!Init PROVE StakeInv
  OBVIOUS
<1> USE DEF Stakes!Init
<1>1. Stakes!TypeOK
  <2>1. staked \in [Stakers -> [StakeAccounts -> Nat]]
    OBVIOUS
  <2>2. posts \in [Operations -> 0..2]
    OBVIOUS
  <2> QED BY <2>1, <2>2 DEF Stakes!TypeOK
<1>2. \A o : Stakes!Copies(o) = {} /\ Cardinality({}) = 0
  BY FS_EmptySet DEF Stakes!Copies
<1>3. \A o \in Operations : Reported(o)
  BY <1>2 DEF Reported
<1>4. \A u \in Stakers, a \in StakeAccounts : AddsUp(u, a)
  <2> SUFFICES ASSUME NEW u \in Stakers, NEW a \in StakeAccounts PROVE AddsUp(u, a)
    OBVIOUS
  <2>1. RowsAt(u, a) = {} /\ Stakes!Done(u, a) = {} /\ staked[u][a] = 0
    BY DEF RowsAt, Stakes!Done
  <2> QED BY <2>1, SumEmpty DEF AddsUp
<1> QED BY <1>1, <1>3, <1>4, FS_EmptySet DEF StakeInv

LEMMA StakeInvChain ==
  ASSUME StakeInv, NEW o \in Operations, Stakes!ChainMoves(o)
  PROVE  StakeInv'
<1> DEFINE u == input[o].user_address
           m == Stakes!Moves(input[o])
<1>1. /\ u \in Stakers /\ currentStake \in StakeAccounts /\ m \in Int
      /\ input[o].stake_account = currentStake
      /\ o \notin done /\ o \notin lostReports /\ o \notin repeated
  BY Inputs DEF Stakes!ChainMoves, StakeInv, Stakes!TypeOK
<1>2. /\ staked' = [staked EXCEPT ![u][currentStake] = @ + m]
      /\ staked[u][currentStake] + m >= 0
      /\ done' = done \cup {o} /\ posts' = [posts EXCEPT ![o] = 1]
      /\ UNCHANGED <<currentStake, input, rows, lostReports, repeated>>
  BY DEF Stakes!ChainMoves
<1>3. Stakes!TypeOK'
  <2>1. staked \in [Stakers -> [StakeAccounts -> Nat]]
    BY DEF StakeInv, Stakes!TypeOK
  <2>2. staked' \in [Stakers -> [StakeAccounts -> Nat]]
    BY <1>1, <1>2, <2>1
  <2>3. posts' \in [Operations -> 0..2]
    BY <1>2 DEF StakeInv, Stakes!TypeOK
  <2> QED BY <1>2, <2>2, <2>3 DEF StakeInv, Stakes!TypeOK, Stakes!CreateUserStakeHistory, Stakes!Row
<1>4. \A p : Stakes!Copies(p)' = Stakes!Copies(p)
  BY <1>2 DEF Stakes!Copies
<1>5. \A p \in Operations : Reported(p)'
  <2>1. posts[o] + Cardinality(Stakes!Copies(o)) = 0
    BY <1>1 DEF StakeInv, Reported
  <2>2. Cardinality(Stakes!Copies(o)) = 0
    BY <2>1, Terms DEF StakeInv, Stakes!TypeOK
  <2>3. Reported(o)'
    BY <1>1, <1>2, <1>4, <2>2 DEF Reported, StakeInv, Stakes!TypeOK
  <2>4. ASSUME NEW p \in Operations, p # o PROVE Reported(p)'
    BY <1>1, <1>2, <1>4, <2>4 DEF Reported, StakeInv, Stakes!TypeOK
  <2> QED BY <2>3, <2>4
<1>6. \A r \in rows' : RowInv(r)'
  BY <1>2, <1>4 DEF StakeInv, RowInv
<1>7. ASSUME NEW v \in Stakers, NEW a \in StakeAccounts PROVE AddsUp(v, a)'
  <2>1. RowAmount' = RowAmount /\ RowsAt(v, a)' = RowsAt(v, a)
    BY <1>2 DEF RowAmount, RowsAt
  <2>2. \A p \in done : OnItsWay'[p] = OnItsWay[p] /\ OnItsWay'[p] \in Int
    BY <1>1, <1>2, Terms DEF OnItsWay, StakeInv, Stakes!TypeOK
  <2>3. Stakes!SumOf(OnItsWay', Stakes!Done(v, a)) = Stakes!SumOf(OnItsWay, Stakes!Done(v, a))
    BY <2>2, Terms, SumAgrees
  <2>4. CASE v = u /\ a = currentStake
    <3>1. Stakes!Done(v, a)' = Stakes!Done(v, a) \cup {o} /\ o \notin Stakes!Done(v, a)
      BY <1>1, <1>2, <2>4 DEF Stakes!Done
    <3>2. OnItsWay'[o] = m
      BY <1>1, <1>2 DEF OnItsWay, StakeInv, Stakes!TypeOK
    <3>3. Stakes!SumOf(OnItsWay', Stakes!Done(v, a)')
            = m + Stakes!SumOf(OnItsWay', Stakes!Done(v, a))
      BY <1>1, <2>2, <3>1, <3>2, Terms, SumAdds
    <3>4. staked'[v][a] = staked[v][a] + m
      BY <1>1, <1>2, <2>4 DEF StakeInv, Stakes!TypeOK
    <3>5. Stakes!Done(v, a) \cap (lostReports \cup repeated)
            = Stakes!Done(v, a)' \cap (lostReports' \cup repeated')
      BY <1>1, <1>2, <3>1
    <3>6. /\ Stakes!SumOf(RowAmount, RowsAt(v, a)) \in Int
          /\ Stakes!SumOf(OnItsWay, Stakes!Done(v, a)) \in Int
      BY Terms, SumInt
    <3>7. AddsUp(v, a)
      BY DEF StakeInv
    <3> QED BY <1>1, <2>1, <2>3, <3>3, <3>4, <3>5, <3>6, <3>7 DEF AddsUp
  <2>5. CASE ~(v = u /\ a = currentStake)
    <3>1. Stakes!Done(v, a)' = Stakes!Done(v, a)
      BY <1>1, <1>2, <2>5 DEF Stakes!Done
    <3>2. staked'[v][a] = staked[v][a]
      BY <1>1, <1>2, <2>5 DEF StakeInv, Stakes!TypeOK
    <3>3. AddsUp(v, a)
      BY DEF StakeInv
    <3> QED BY <1>2, <2>1, <2>3, <3>1, <3>2, <3>3 DEF AddsUp
  <2> QED BY <2>4, <2>5
<1>8. IsFiniteSet(done')
  BY <1>2, FS_AddElement DEF StakeInv
<1> QED BY <1>2, <1>3, <1>5, <1>6, <1>7, <1>8 DEF StakeInv

LEMMA StakeInvRecord ==
  ASSUME StakeInv, NEW o \in Operations, Stakes!createJoinPoolHistory(o)
  PROVE  StakeInv'
<1> DEFINE m == Stakes!Moves(input[o])
           n == Cardinality(Stakes!Copies(o))
           u == input[o].user_address
           a == input[o].stake_account
<1>1. /\ u \in Stakers /\ a \in StakeAccounts /\ m \in Int
      /\ posts \in [Operations -> 0..2] /\ posts[o] > 0
  BY Inputs DEF Stakes!createJoinPoolHistory, StakeInv, Stakes!TypeOK
<1>0. PICK r : r = Stakes!Recorded(o, m)
  OBVIOUS
<1>2. /\ rows' = rows \cup {r} /\ posts' = [posts EXCEPT ![o] = @ - 1]
      /\ UNCHANGED <<currentStake, staked, done, input, lostReports, repeated>>
  BY <1>0 DEF Stakes!createJoinPoolHistory
<1>3. n \in Nat /\ posts[o] + n \in 1..2 /\ o \in done /\ o \notin lostReports
      /\ posts[o] + n = IF o \in repeated THEN 2 ELSE 1
  <2>1. n \in Nat /\ Reported(o)
    BY Terms DEF StakeInv
  <2> QED BY <1>1, <2>1 DEF Reported
<1>4. /\ r.of = o /\ r.copy = n /\ r.user_address = u /\ r.stake_account = a /\ r.amount = m
      /\ r \in Stakes!Row
  <2>1. n \in 0..1
    BY <1>1, <1>3
  <2>2. r = [of |-> o, copy |-> n, user_address |-> u, stake_account |-> a, amount |-> m]
    BY <1>0, SameCardinality DEF Stakes!Recorded
  <2> HIDE DEF m, n, u, a
  <2> QED BY <1>1, <2>1, <2>2 DEF Stakes!Row
\* The copies are numbered, so that this one is new.
<1>5. r \notin rows
  BY <1>3, <1>4 DEF StakeInv, RowInv
<1>6. /\ Stakes!Copies(o)' = Stakes!Copies(o) \cup {r} /\ r \notin Stakes!Copies(o)
      /\ \A p : p # o => Stakes!Copies(p)' = Stakes!Copies(p)
  BY <1>2, <1>4, <1>5 DEF Stakes!Copies
<1>7. Cardinality(Stakes!Copies(o)') = n + 1
  BY <1>6, Terms, FS_AddElement
<1>8. Stakes!TypeOK'
  <2>1. posts' \in [Operations -> 0..2]
    BY <1>1, <1>2
  <2>2. rows' \subseteq Stakes!Row
    BY <1>2, <1>4 DEF StakeInv, Stakes!TypeOK
  <2> QED BY <1>2, <2>1, <2>2 DEF StakeInv, Stakes!TypeOK, Stakes!CreateUserStakeHistory, Stakes!Row
<1>9. \A p \in Operations : Reported(p)'
  <2>1. Reported(o)'
    BY <1>1, <1>2, <1>3, <1>7 DEF Reported
  <2>2. ASSUME NEW p \in Operations, p # o PROVE Reported(p)'
    BY <1>1, <1>2, <1>6, <2>2 DEF Reported, StakeInv
  <2> QED BY <2>1, <2>2
<1>10. \A s \in rows' : RowInv(s)'
  <2>1. RowInv(r)'
    BY <1>2, <1>3, <1>4, <1>7 DEF RowInv, Stakes!Moves
  <2>2. ASSUME NEW s \in rows PROVE RowInv(s)'
    <3>1. RowInv(s) /\ s.copy \in Nat
      BY DEF StakeInv, Stakes!TypeOK, Stakes!Row
    <3>2. CASE s.of = o
      BY <1>2, <1>3, <1>7, <3>1, <3>2 DEF RowInv, Stakes!Moves
    <3>3. CASE s.of # o
      BY <1>2, <1>6, <3>1, <3>3 DEF RowInv, Stakes!Moves
    <3> QED BY <3>2, <3>3
  <2> QED BY <1>2, <2>1, <2>2
<1>11. ASSUME NEW v \in Stakers, NEW b \in StakeAccounts PROVE AddsUp(v, b)'
  <2> DEFINE D == Stakes!Done(v, b)
             E == RowsAt(v, b)
  <2>1. D' = D /\ staked'[v][b] = staked[v][b]
    BY <1>2 DEF Stakes!Done
  <2>2. AddsUp(v, b)
    BY DEF StakeInv
  <2>3. \A s \in rows : RowAmount'[s] = RowAmount[s] /\ RowAmount'[s] \in Int
    BY <1>2, Terms DEF RowAmount
  <2>4. Stakes!SumOf(RowAmount', E) = Stakes!SumOf(RowAmount, E) /\ Stakes!SumOf(RowAmount, E) \in Int
    BY <2>3, Terms, SumAgrees, SumInt
  <2>5. \A p \in D : p # o => OnItsWay'[p] = OnItsWay[p]
    BY <1>1, <1>2 DEF OnItsWay, Stakes!Done, StakeInv, Stakes!TypeOK
  <2>6. CASE v = u /\ b = a
    <3> SUFFICES ASSUME D \cap (lostReports \cup repeated) = {}
                 PROVE  Stakes!SumOf(RowAmount', E') + Stakes!SumOf(OnItsWay', D) = staked[v][b]
      BY <1>2, <2>1 DEF AddsUp
    <3>1. o \in D
      BY <1>3, <2>6 DEF Stakes!Done
    \* It is the only report of the operation.
    <3>2. posts[o] = 1
      BY <1>1, <1>3, <3>1
    <3>3. E' = E \cup {r} /\ r \notin E
      BY <1>2, <1>4, <1>5, <2>6 DEF RowsAt
    <3>4. RowAmount'[r] = m
      BY <1>2, <1>4 DEF RowAmount
    <3>5. Stakes!SumOf(RowAmount', E') = m + Stakes!SumOf(RowAmount', E)
      <4>1. \A s \in E \cup {r} : RowAmount'[s] \in Int
        BY <1>1, <2>3, <3>4 DEF RowsAt
      <4> QED BY <3>3, <3>4, <4>1, Terms, SumAdds
    <3>6. OnItsWay[o] = m /\ OnItsWay'[o] = 0
      BY <1>1, <1>2, <1>3, <3>2 DEF OnItsWay, Stakes!Moves
    <3>7. Stakes!SumOf(OnItsWay', D) = Stakes!SumOf(OnItsWay, D) - m + 0
      <4>1. IsFiniteSet(D) /\ \A p \in D : OnItsWay[p] \in Int
        BY Terms
      <4>2. 0 \in Int
        OBVIOUS
      <4> HIDE DEF D
      <4> QED BY <2>5, <3>1, <3>6, <4>1, <4>2, SumChanges
    <3>8. Stakes!SumOf(OnItsWay, D) \in Int
      BY Terms, SumInt
    <3> QED BY <1>1, <2>2, <2>4, <3>5, <3>7, <3>8 DEF AddsUp
  <2>7. CASE ~(v = u /\ b = a)
    <3>1. E' = E /\ o \notin D
      BY <1>2, <1>4, <2>7 DEF RowsAt, Stakes!Done
    <3>2. Stakes!SumOf(OnItsWay', D) = Stakes!SumOf(OnItsWay, D)
      BY <2>5, <3>1, Terms, SumAgrees
    <3> QED BY <1>2, <2>1, <2>2, <2>4, <3>1, <3>2 DEF AddsUp
  <2> QED BY <2>6, <2>7
<1>12. IsFiniteSet(rows') /\ IsFiniteSet(done')
  BY <1>2, FS_AddElement DEF StakeInv
<1> QED BY <1>8, <1>9, <1>10, <1>11, <1>12 DEF StakeInv

\* A report sent again, or lost for good, takes its operation out of the promise.
LEMMA StakeInvPosts ==
  ASSUME StakeInv, NEW o \in Operations, Stakes!Repeat(o) \/ Stakes!Lose(o)
  PROVE  StakeInv'
<1>1. /\ posts \in [Operations -> 0..2] /\ lostReports \subseteq done /\ repeated \subseteq done
      /\ UNCHANGED <<currentStake, staked, done, input, rows>>
      /\ lostReports \subseteq lostReports' /\ repeated \subseteq repeated'
      /\ o \in lostReports' \cup repeated'
  BY DEF StakeInv, Stakes!TypeOK, Stakes!Repeat, Stakes!Lose
<1>2. /\ posts' \in [Operations -> 0..2] /\ \A p \in Operations : p # o => posts'[p] = posts[p]
      /\ o \in done /\ lostReports' \subseteq done /\ repeated' \subseteq done
      /\ \A p \in Operations : Reported(p)'
  <2>1. \A p : Cardinality(Stakes!Copies(p)) \in Nat /\ Stakes!Copies(p)' = Stakes!Copies(p)
    BY <1>1, Terms DEF Stakes!Copies
  <2>2. \A p \in Operations : Reported(p)
    BY DEF StakeInv
  <2>3. CASE Stakes!Repeat(o)
    <3>1. /\ o \in done /\ o \notin lostReports /\ o \notin repeated
          /\ posts' = [posts EXCEPT ![o] = @ + 1] /\ repeated' = repeated \cup {o}
          /\ lostReports' = lostReports
      BY <2>3 DEF Stakes!Repeat
    <3>2. posts[o] \in 0..1
      BY <1>1, <2>1, <2>2, <3>1 DEF Reported
    <3> QED BY <1>1, <2>1, <2>2, <3>1, <3>2 DEF Reported
  <2>4. CASE Stakes!Lose(o)
    <3>1. /\ posts[o] = 1 /\ Stakes!Copies(o) = {}
          /\ posts' = [posts EXCEPT ![o] = 0] /\ lostReports' = lostReports \cup {o}
          /\ repeated' = repeated
      BY <2>4 DEF Stakes!Lose
    <3>2. Cardinality(Stakes!Copies(o)) = 0
      BY <3>1, FS_EmptySet
    <3>3. o \in done
      BY <2>2, <3>1, <3>2 DEF Reported
    <3> QED BY <1>1, <2>1, <2>2, <3>1, <3>2, <3>3 DEF Reported
  <2> QED BY <2>3, <2>4
<1>3. Stakes!TypeOK'
  BY <1>1, <1>2 DEF StakeInv, Stakes!TypeOK, Stakes!CreateUserStakeHistory, Stakes!Row
<1>4. \A r \in rows' : RowInv(r)'
  BY <1>1 DEF StakeInv, RowInv, Stakes!Copies, Stakes!Moves
<1>5. ASSUME NEW u \in Stakers, NEW a \in StakeAccounts PROVE AddsUp(u, a)'
  <2>1. /\ Stakes!Done(u, a)' = Stakes!Done(u, a) /\ RowsAt(u, a)' = RowsAt(u, a)
        /\ RowAmount' = RowAmount /\ staked' = staked
    BY <1>1 DEF Stakes!Done, RowsAt, RowAmount
  <2>2. CASE o \in Stakes!Done(u, a)
    BY <1>1, <2>1, <2>2 DEF AddsUp
  <2>3. CASE o \notin Stakes!Done(u, a)
    <3>1. \A p \in Stakes!Done(u, a) : OnItsWay'[p] = OnItsWay[p]
      BY <1>1, <1>2, <2>3 DEF OnItsWay, Stakes!Done, StakeInv, Stakes!TypeOK, Stakes!Moves
    <3>2. Stakes!SumOf(OnItsWay', Stakes!Done(u, a)) = Stakes!SumOf(OnItsWay, Stakes!Done(u, a))
      BY <3>1, Terms, SumAgrees
    <3>3. AddsUp(u, a)
      BY DEF StakeInv
    <3> QED BY <1>1, <2>1, <3>2, <3>3 DEF AddsUp
  <2> QED BY <2>2, <2>3
<1> QED BY <1>1, <1>2, <1>3, <1>4, <1>5 DEF StakeInv

LEMMA StakeInvStep == StakeInv /\ [ServicesNext]_servicesVars => StakeInv'
<1> SUFFICES ASSUME StakeInv, [ServicesNext]_servicesVars PROVE StakeInv'
  OBVIOUS
<1>1. CASE UNCHANGED stakeVars
  BY <1>1 DEF stakeVars, StakeInv, Stakes!TypeOK, Reported, RowInv, AddsUp, RowsAt, RowAmount,
              OnItsWay, Stakes!Done, Stakes!Copies, Stakes!Moves, Stakes!Row,
              Stakes!CreateUserStakeHistory
<1>2. ASSUME NEW a \in StakeAccounts, Stakes!Deploy(a) PROVE StakeInv'
  BY <1>2 DEF Stakes!Deploy, StakeInv, Stakes!TypeOK, Reported, RowInv, AddsUp, RowsAt, RowAmount,
              OnItsWay, Stakes!Done, Stakes!Copies, Stakes!Moves, Stakes!Row,
              Stakes!CreateUserStakeHistory
<1>3. CASE StakeStep
  BY <1>2, <1>3, StakeInvChain, StakeInvRecord, StakeInvPosts DEF StakeStep, Stakes!Next
<1>4. StakeStep \/ UNCHANGED stakeVars
  BY DEF ServicesNext, servicesVars, PlatformStep, LoginStep, PagingStep
<1> QED BY <1>1, <1>3, <1>4

LEMMA StakeInvariance == ServicesSpec => []StakeInv
<1>1. ServicesInit => StakeInv
  BY StakeInvInit DEF ServicesInit
<1> QED BY <1>1, StakeInvStep, PTL DEF ServicesSpec

\* The export adds up, for every user and whichever account is current, to the
\* stake on chain but what is on its way, for any operations and amounts, unless a
\* report was lost or repeated.
THEOREM StakeExportAddsUp == ServicesSpec => []ExportAddsUp
<1>1. StakeInv => ExportAddsUp
  <2> SUFFICES ASSUME StakeInv, NEW u \in Stakers,
                      Stakes!Done(u, currentStake) \cap (lostReports \cup repeated) = {}
               PROVE  Stakes!SumOf(RowAmount, RowsAt(u, currentStake))
                        + Stakes!SumOf(OnItsWay, Stakes!Done(u, currentStake))
                          = staked[u][currentStake]
    BY DEF ExportAddsUp, Stakes!ExportAddsUp, Stakes!Total, Stakes!Exported, RowsAt, RowAmount, OnItsWay
  <2> QED BY DEF StakeInv, AddsUp, Stakes!TypeOK
<1> QED BY <1>1, StakeInvariance, PTL

----------------------------------------------------------------------------
(* WALKS THROUGH THE PAGES OF A LISTING.                                   *)

PageIndex == ask - Pages!FirstPage
Offset == PageIndex * Limit
Size == Cardinality(listed)
Untied == {d \in Pages!Docs : ~Pages!Tied(d)}

\* The documents that every query gives before d.
Ahead(d) == {e \in listed : Pages!Before(e, d)}
Rank(d) == Cardinality(Ahead(d))

\* The documents of a page that starts after the first Offset.
PageSize == IF Offset + Limit < Size THEN Limit ELSE IF Offset < Size THEN Size - Offset ELSE 0

\* The request has read up to here.
Reached == IF found = Pages!NoPage THEN Offset ELSE Offset + Limit

(* What was shown or found is behind what is left to read, and stays there *)
(* while nothing is inserted before it.                                    *)
ShownOnce ==
  /\ \A d \in twice : Pages!Tied(d)
  /\ walking => \A d \in Untied :
       /\ d \in seen => Rank(d) < Offset
       /\ d \in found => d \notin seen /\ Rank(d) < Offset + Limit

(* A document that was there throughout is shown, or on the page that was  *)
(* found, or still to come, and then the count says so.                    *)
NothingMissed ==
  \A d \in Untied \cap steady :
    \/ d \in seen
    \/ walking /\ d \in found
    \/ /\ walking /\ Reached <= Rank(d)
       /\ total # Pages!NoTotal => total > Offset + Limit

(* While nothing changes, as many documents are shown as the pages hold.   *)
Counted ==
  /\ total \in {Size, Pages!NoTotal}
  /\ walking => /\ shown = Offset /\ Offset <= Size
                /\ found # Pages!NoPage => Cardinality(found) = PageSize
  /\ ~walking => shown = Size

PagesInv ==
  /\ Pages!TypeOK
  /\ ~walking \/ listing = "users" => found = Pages!NoPage
  /\ listing # "histories" /\ found = Pages!NoPage => total = Pages!NoTotal
  /\ "inserted" \notin moved => ShownOnce
  /\ "removed" \notin moved => NothingMissed
  /\ moved = {} => Counted

----------------------------------------------------------------------------
(* Sizes and order.                                                        *)

LEMMA PageCardinality == \A S : Pages!Cardinality(S) = Cardinality(S)
  BY DEF Pages!Cardinality, Cardinality

LEMMA Finite ==
  /\ IsFiniteSet(Pages!Docs) /\ Cardinality(Pages!Docs) = MaxDocs
  /\ \A S \in SUBSET Pages!Docs : IsFiniteSet(S) /\ Cardinality(S) \in 0..MaxDocs
  /\ \A S \in SUBSET Pages!Docs : S # Pages!NoPage
<1>1. IsFiniteSet(Pages!Docs) /\ Cardinality(Pages!Docs) = MaxDocs
  BY PagingAssumption, FS_Interval DEF Pages!Docs
<1>2. ASSUME NEW S \in SUBSET Pages!Docs
      PROVE  IsFiniteSet(S) /\ Cardinality(S) \in 0..MaxDocs
  BY <1>1, PagingAssumption, FS_Subset, FS_CardinalityType
<1>3. \A S \in SUBSET Pages!Docs : S # Pages!NoPage
  BY PagingAssumption DEF Pages!Docs, Pages!NoPage
<1> QED BY <1>1, <1>2, <1>3

LEMMA Pages0 ==
  ASSUME Pages!TypeOK
  PROVE  /\ PageIndex \in Nat /\ Offset \in Nat /\ Limit \in Nat \ {0} /\ MaxDocs \in Nat
         /\ (PageIndex + 1) * Limit = Offset + Limit
         /\ ask \in Nat /\ ask = PageIndex + Pages!FirstPage /\ Pages!FirstPage \in {0, 1}
         /\ IsFiniteSet(listed) /\ Size \in 0..MaxDocs
<1>1. /\ ask \in Nat /\ PageIndex \in Nat /\ Limit \in Nat \ {0} /\ MaxDocs \in Nat
      /\ ask = PageIndex + Pages!FirstPage /\ Pages!FirstPage \in {0, 1}
  BY PagingAssumption DEF Pages!TypeOK, Pages!FirstPage, Pages!DEFAULT_PAGE, PageIndex
<1>2. Offset \in Nat /\ (PageIndex + 1) * Limit = Offset + Limit
  BY <1>1 DEF Offset
<1>3. IsFiniteSet(listed) /\ Size \in 0..MaxDocs
  BY Finite DEF Pages!TypeOK, Size
<1> QED BY <1>1, <1>2, <1>3

\* The pages are counted in documents.
LEMMA HasNextMeans ==
  ASSUME Pages!TypeOK, NEW n \in Nat
  PROVE  Pages!HasNext(ask, n) <=> n > Offset + Limit
<1>1. PageIndex \in Nat /\ Limit \in Nat \ {0} /\ (PageIndex + 1) * Limit = Offset + Limit
  BY Pages0
<1>2. Pages!totalPages(n) \in Nat
  BY <1>1 DEF Pages!totalPages
<1>3. Pages!totalPages(n) <= PageIndex + 1 <=> n <= (PageIndex + 1) * Limit
  <2> DEFINE m == PageIndex + 1
  <2>1. m \in Nat
    BY <1>1
  <2> HIDE DEF m
  <2>2. Pages!totalPages(n) <= m <=> n <= m * Limit
    BY <1>1, <2>1 DEF Pages!totalPages
  <2> QED BY <2>2 DEF m
<1>4. ask \in Nat /\ ask = PageIndex + Pages!FirstPage /\ Pages!FirstPage \in Nat
  BY Pages0
<1>5. Pages!HasNext(ask, n) <=> ~(Pages!totalPages(n) <= PageIndex + 1)
  BY <1>1, <1>2, <1>4 DEF Pages!HasNext
<1> QED BY <1>1, <1>3, <1>5, Pages0

\* A document that ties with none is before or after each other one.
LEMMA Compared ==
  ASSUME NEW d \in Untied
  PROVE  /\ listing # "histories" /\ ~Pages!Before(d, d)
         /\ \A e \in Pages!Docs \ {d} : Pages!Before(e, d) <=> ~Pages!Before(d, e)
<1>1. listing # "histories" /\ \A e \in Pages!Docs \ {d} : Instant[e] # Instant[d]
  BY DEF Untied, Pages!Tied
<1>2. \A e \in Pages!Docs : Instant[e] \in Nat
  BY PagingAssumption DEF Pages!Docs
<1>3. d \in Pages!Docs
  BY DEF Untied
<1>4. CASE listing = "pools"
  BY <1>1, <1>2, <1>3, <1>4 DEF Pages!Before
<1>5. CASE listing # "pools"
  BY <1>1, <1>2, <1>3, <1>5 DEF Pages!Before
<1> QED BY <1>1, <1>4, <1>5

LEMMA RankOf ==
  ASSUME Pages!TypeOK, NEW d \in Untied
  PROVE  /\ IsFiniteSet(Ahead(d)) /\ Rank(d) \in Nat
         /\ d \in listed => Rank(d) < Size
<1>1. listed \in SUBSET Pages!Docs /\ Ahead(d) \in SUBSET listed /\ IsFiniteSet(listed) /\ Size \in Nat
  BY Pages0 DEF Pages!TypeOK, Ahead
<1>2. IsFiniteSet(Ahead(d)) /\ Rank(d) \in Nat /\ Rank(d) <= Size /\ (Size = Rank(d) => listed = Ahead(d))
  BY <1>1, FS_Subset, FS_CardinalityType DEF Rank, Size
<1>3. d \notin Ahead(d)
  BY Compared DEF Ahead
<1> QED BY <1>1, <1>2, <1>3

\* Whatever the order of those that tie, the others are among the first k exactly
\* if fewer than k are before them.
LEMMA FirstRank ==
  ASSUME Pages!TypeOK, NEW k \in Nat, NEW A \in Pages!First(k), NEW d \in Untied, d \in listed
  PROVE  d \in A <=> Rank(d) < k
<1>1. /\ A \subseteq listed /\ IsFiniteSet(A) /\ Cardinality(A) \in Nat
      /\ Cardinality(A) = IF k < Size THEN k ELSE Size
      /\ \A a \in A, b \in listed \ A : ~Pages!Before(b, a)
  BY Pages0, PageCardinality, FS_Subset, FS_CardinalityType DEF Pages!First, Size
<1>2. /\ Rank(d) \in Nat /\ Rank(d) < Size /\ IsFiniteSet(Ahead(d))
      /\ listed \subseteq Pages!Docs /\ Size \in Nat
  BY RankOf, Pages0 DEF Pages!TypeOK
<1>3. ASSUME d \notin A PROVE ~(Rank(d) < k)
  <2>1. A \subseteq Ahead(d)
    BY <1>1, <1>2, <1>3, Compared DEF Ahead
  <2>2. Cardinality(A) <= Rank(d)
    BY <1>2, <2>1, FS_Subset DEF Rank
  <2> QED BY <1>1, <1>2, <2>2
<1>4. ASSUME d \in A PROVE Rank(d) < k
  <2>1. Ahead(d) \subseteq A \ {d}
    BY <1>1, <1>4, Compared DEF Ahead
  <2>2. IsFiniteSet(A \ {d}) /\ Cardinality(A \ {d}) = Cardinality(A) - 1
    BY <1>1, <1>4, FS_RemoveElement
  <2>3. Rank(d) <= Cardinality(A) - 1
    BY <2>1, <2>2, FS_Subset DEF Rank
  <2> QED BY <1>1, <1>2, <2>3
<1> QED BY <1>3, <1>4

\* A page has the documents whose rank is in its range, but for those that tie,
\* and as many documents as its range and the listing allow.
LEMMA FindFacts ==
  ASSUME Pages!TypeOK, NEW docs \in Pages!Find(ask)
  PROVE  /\ docs \subseteq listed /\ docs \subseteq Pages!Docs /\ docs # Pages!NoPage
         /\ Cardinality(docs) = PageSize /\ PageSize \in 0..Limit
         /\ \A d \in Untied : d \in listed =>
              (d \in docs <=> Offset <= Rank(d) /\ Rank(d) < Offset + Limit)
<1>1. /\ Offset \in Nat /\ Limit \in Nat \ {0} /\ (PageIndex + 1) * Limit = Offset + Limit
      /\ Size \in Nat /\ IsFiniteSet(listed) /\ listed \subseteq Pages!Docs
  BY Pages0 DEF Pages!TypeOK
<1>2. Pages!Find(ask) = Pages!Slice(PageIndex)
  BY Pages0 DEF Pages!Find, Pages!FirstPage, Pages!DEFAULT_PAGE, Pages!TypeOK
<1>3. docs \in Pages!From(Offset, Offset + Limit)
  BY <1>1, <1>2 DEF Pages!Slice, Offset
<1>4. PICK A \in Pages!First(Offset) : /\ A \cap docs = {}
                                       /\ A \cup docs \in Pages!First(Offset + Limit)
  BY <1>3 DEF Pages!From
<1>5. docs \subseteq listed
  BY <1>3 DEF Pages!From
<1>6. /\ A \subseteq listed /\ Cardinality(A) = IF Offset < Size THEN Offset ELSE Size
      /\ Cardinality(A \cup docs) = IF Offset + Limit < Size THEN Offset + Limit ELSE Size
  BY <1>4, PageCardinality DEF Pages!First, Size
<1>7. IsFiniteSet(A) /\ IsFiniteSet(docs) /\ Cardinality(docs) \in Nat /\ Cardinality(A) \in Nat
  BY <1>1, <1>5, <1>6, FS_Subset, FS_CardinalityType
<1>8. Cardinality(A \cup docs) = Cardinality(A) + Cardinality(docs)
  BY <1>4, <1>7, FS_Union, FS_EmptySet
<1>9. Cardinality(docs) = PageSize /\ PageSize \in 0..Limit
  BY <1>1, <1>6, <1>7, <1>8 DEF PageSize
<1>10. ASSUME NEW d \in Untied, d \in listed
       PROVE  d \in docs <=> Offset <= Rank(d) /\ Rank(d) < Offset + Limit
  <2>1. (d \in A <=> Rank(d) < Offset) /\ (d \in A \cup docs <=> Rank(d) < Offset + Limit)
    BY <1>1, <1>4, <1>10, FirstRank
  <2> QED BY <1>1, <1>4, <1>10, <2>1, RankOf
<1> QED BY <1>1, <1>5, <1>9, <1>10, Finite

----------------------------------------------------------------------------
(* The steps.                                                              *)

LEMMA PagesInit == Pages!Init => PagesInv
<1> SUFFICES ASSUME Pages!Init PROVE PagesInv
  OBVIOUS
<1>1. Pages!TypeOK
  BY PagingAssumption
  DEF Pages!Init, Pages!TypeOK, Pages!NoTotal, Pages!FirstPage, Pages!DEFAULT_PAGE
<1>2. Offset = 0 /\ Reached = 0
  BY <1>1, Pages0 DEF Pages!Init, Offset, PageIndex, Reached
<1>3. ShownOnce
  BY PagingAssumption DEF Pages!Init, ShownOnce, Pages!NoPage, Untied, Pages!Docs
<1>4. NothingMissed
  BY <1>1, <1>2, RankOf DEF Pages!Init, NothingMissed
<1>5. Counted
  BY <1>1, <1>2, Pages0 DEF Pages!Init, Counted
<1> QED BY <1>1, <1>3, <1>4, <1>5 DEF PagesInv, Pages!Init

\* The client is shown a page.
LEMMA AnswerKeeps ==
  ASSUME PagesInv, walking, NEW docs \in SUBSET Pages!Docs, NEW n \in Nat, Pages!Answer(docs, n),
         "inserted" \notin moved =>
           \A d \in Untied : d \in docs => d \notin seen /\ Rank(d) < Offset + Limit,
         "removed" \notin moved =>
           \A d \in Untied \cap steady :
             d \in seen \cup docs \/ (Offset + Limit <= Rank(d) /\ n > Offset + Limit),
         moved = {} => Cardinality(docs) = PageSize /\ (n > Offset + Limit <=> Size > Offset + Limit),
         n > Offset + Limit => n <= MaxDocs
  PROVE  PagesInv'
<1>1. /\ seen' = seen \cup docs /\ twice' = twice \cup (seen \cap docs)
      /\ shown' = shown + Cardinality(docs)
      /\ found' = Pages!NoPage /\ total' = Pages!NoTotal
      /\ UNCHANGED <<listing, listed, gone, steady, moved>>
  BY PageCardinality DEF Pages!Answer
<1>2. Pages!TypeOK
  BY DEF PagesInv
<1>3. /\ PageIndex \in Nat /\ Offset \in Nat /\ Limit \in Nat \ {0} /\ MaxDocs \in Nat
      /\ (PageIndex + 1) * Limit = Offset + Limit
      /\ ask = PageIndex + Pages!FirstPage /\ Pages!FirstPage \in {0, 1}
      /\ Size \in Nat /\ Cardinality(docs) \in Nat
  BY <1>2, Pages0, Finite
<1>4. /\ Pages!FirstPage' = Pages!FirstPage /\ Untied' = Untied /\ Size' = Size
      /\ \A d : Pages!Tied(d)' = Pages!Tied(d)
      /\ \A d : Rank(d)' = Rank(d)
  BY <1>1 DEF Pages!FirstPage, Untied, Pages!Tied, Rank, Ahead, Pages!Before, Size
<1>5. /\ walking' => Offset' = Offset + Limit /\ n > Offset + Limit
      /\ ~walking' => n <= Offset + Limit
      /\ walking' \in BOOLEAN /\ ask' \in Pages!FirstPage..(MaxDocs + 1)
  <2>1. CASE Pages!HasNext(ask, n)
    <3>1. ask' = ask + 1 /\ walking' = walking /\ n > Offset + Limit
      BY <1>2, <2>1, HasNextMeans DEF Pages!Answer
    <3>2. PageIndex' = PageIndex + 1
      BY <1>3, <1>4, <3>1 DEF PageIndex
    <3>3. Offset' = Offset + Limit
      BY <1>3, <3>2 DEF Offset
    <3>4. PageIndex <= Offset
      BY <1>3 DEF Offset
    <3>5. ask' \in Pages!FirstPage..(MaxDocs + 1)
      BY <1>3, <3>1, <3>4
    <3> QED BY <3>1, <3>3, <3>5
  <2>2. CASE ~Pages!HasNext(ask, n)
    <3>1. walking' = FALSE /\ ask' = ask
      BY <2>2 DEF Pages!Answer
    <3>2. ~(n > Offset + Limit)
      BY <1>2, <2>2, HasNextMeans
    <3>3. ask \in Pages!FirstPage..(MaxDocs + 1)
      BY <1>2 DEF Pages!TypeOK
    <3>4. n <= Offset + Limit
      BY <1>3, <3>2
    <3>5. ask' \in Pages!FirstPage..(MaxDocs + 1)
      BY <3>1, <3>3
    <3> QED BY <3>1, <3>4, <3>5, Zenon
  <2> QED BY <2>1, <2>2
<1>6. Pages!TypeOK'
  <2>1. /\ seen' \subseteq Pages!Docs /\ twice' \subseteq seen' /\ shown' \in Nat
    BY <1>1, <1>2, <1>3 DEF Pages!TypeOK
  <2>2. total' \in 0..Pages!NoTotal
    BY <1>1, <1>3 DEF Pages!NoTotal
  <2> QED BY <1>1, <1>2, <1>4, <1>5, <2>1, <2>2 DEF Pages!TypeOK
<1>7. ASSUME "inserted" \notin moved' PROVE ShownOnce'
  <2>1. ShownOnce
    BY <1>1, <1>7 DEF PagesInv
  <2>2. \A d \in twice' : Pages!Tied(d)
    BY <1>1, <1>2, <1>7, <2>1 DEF ShownOnce, Untied, Pages!TypeOK
  <2>3. ASSUME walking', NEW d \in Untied
        PROVE  /\ d \in seen' => Rank(d) < Offset'
               /\ d \in found' => FALSE
    <3>1. d \in Pages!Docs /\ Rank(d) \in Nat
      BY <1>2, RankOf DEF Untied
    <3>2. d \notin found'
      BY <1>1, <3>1, PagingAssumption DEF Pages!NoPage, Pages!Docs
    <3> QED BY <1>1, <1>3, <1>5, <1>7, <2>1, <2>3, <3>1, <3>2 DEF ShownOnce
  <2> QED BY <1>4, <2>2, <2>3 DEF ShownOnce
<1>8. ASSUME "removed" \notin moved' PROVE NothingMissed'
  <2>1. Reached' = Offset'
    BY <1>1 DEF Reached
  <2>2. ASSUME NEW d \in Untied \cap steady, d \notin seen'
        PROVE  walking' /\ Offset' <= Rank(d)
    BY <1>1, <1>3, <1>5, <1>8, <2>2
  <2> QED BY <1>1, <1>4, <2>1, <2>2 DEF NothingMissed
<1>9. ASSUME moved' = {} PROVE Counted'
  <2>1. /\ shown = Offset /\ Offset <= Size /\ Cardinality(docs) = PageSize
        /\ n > Offset + Limit <=> Size > Offset + Limit
    BY <1>1, <1>9 DEF PagesInv, Counted
  <2>2. shown' = Offset + PageSize
    BY <1>1, <2>1
  <2>3. CASE walking'
    BY <1>1, <1>3, <1>4, <1>5, <2>1, <2>2, <2>3 DEF Counted, PageSize
  <2>4. CASE ~walking'
    BY <1>1, <1>3, <1>4, <1>5, <2>1, <2>2, <2>4 DEF Counted, PageSize
  <2> QED BY <2>3, <2>4
<1>10. /\ found' = Pages!NoPage /\ total' = Pages!NoTotal
  BY <1>1
<1> QED BY <1>6, <1>7, <1>8, <1>9, <1>10 DEF PagesInv

\* The users are loaded, sliced and counted.
LEMMA StepPaginate == PagesInv /\ Pages!paginate => PagesInv'
<1> SUFFICES ASSUME PagesInv, Pages!paginate PROVE PagesInv'
  OBVIOUS
<1>1. PICK docs \in Pages!Find(ask) : Pages!Answer(docs, Size)
  BY PageCardinality DEF Pages!paginate, Size
<1>2. Pages!TypeOK /\ walking /\ found = Pages!NoPage
  BY DEF PagesInv, Pages!paginate
<1>3. /\ docs \subseteq listed /\ docs \in SUBSET Pages!Docs /\ Cardinality(docs) = PageSize
      /\ \A d \in Untied : d \in listed =>
           (d \in docs <=> Offset <= Rank(d) /\ Rank(d) < Offset + Limit)
  BY <1>1, <1>2, FindFacts
<1>4. Size \in 0..MaxDocs /\ Offset \in Nat /\ Limit \in Nat /\ MaxDocs \in Nat /\ Size \in Nat
  BY <1>2, Pages0
<1>5. ASSUME "inserted" \notin moved, NEW d \in Untied, d \in docs
      PROVE  d \notin seen /\ Rank(d) < Offset + Limit
  BY <1>2, <1>3, <1>4, <1>5, RankOf DEF PagesInv, ShownOnce
<1>6. ASSUME "removed" \notin moved, NEW d \in Untied \cap steady, d \notin seen \cup docs
      PROVE  Offset + Limit <= Rank(d) /\ Size > Offset + Limit
  <2>1. d \in Untied /\ d \in listed /\ d \notin found
    BY <1>2, PagingAssumption DEF Pages!TypeOK, Pages!NoPage, Untied, Pages!Docs
  <2>2. Offset <= Rank(d)
    BY <1>2, <1>6, <2>1 DEF PagesInv, NothingMissed, Reached
  <2> QED BY <1>2, <1>3, <1>4, <1>6, <2>1, <2>2, RankOf
<1> QED BY <1>1, <1>2, <1>3, <1>4, <1>5, <1>6, AnswerKeeps

LEMMA StepFindPage == PagesInv /\ Pages!FindPage => PagesInv'
<1> SUFFICES ASSUME PagesInv, Pages!FindPage PROVE PagesInv'
  OBVIOUS
<1>1. /\ walking /\ listing # "users" /\ found = Pages!NoPage /\ found' \in Pages!Find(ask)
      /\ UNCHANGED <<listing, listed, gone, ask, walking, total, seen, twice, shown, steady, moved>>
  BY DEF Pages!FindPage
<1>2. Pages!TypeOK /\ (listing # "histories" => total = Pages!NoTotal)
  BY <1>1 DEF PagesInv
<1>3. /\ found' \subseteq listed /\ found' \subseteq Pages!Docs /\ found' # Pages!NoPage
      /\ Cardinality(found') = PageSize /\ PageSize \in 0..Limit
      /\ \A d \in Untied : d \in listed =>
           (d \in found' <=> Offset <= Rank(d) /\ Rank(d) < Offset + Limit)
  BY <1>1, <1>2, FindFacts
<1>4. Offset \in Nat /\ Limit \in Nat /\ Size \in Nat
  BY <1>2, Pages0
<1>5. /\ Pages!FirstPage' = Pages!FirstPage /\ Untied' = Untied /\ Size' = Size
      /\ Offset' = Offset /\ PageSize' = PageSize
      /\ \A d : Pages!Tied(d)' = Pages!Tied(d)
      /\ \A d : Rank(d)' = Rank(d)
  BY <1>1 DEF Pages!FirstPage, Untied, Pages!Tied, Rank, Ahead, Pages!Before, Size, Offset,
              PageIndex, PageSize
<1>6. Pages!TypeOK'
  BY <1>1, <1>2, <1>3, <1>4, <1>5, PageCardinality DEF Pages!TypeOK
<1>7. ASSUME "inserted" \notin moved' PROVE ShownOnce'
  <2>1. ASSUME NEW d \in Untied, d \in found' PROVE d \notin seen /\ Rank(d) < Offset + Limit
    BY <1>1, <1>2, <1>3, <1>4, <1>7, <2>1, RankOf DEF PagesInv, ShownOnce
  <2> QED BY <1>1, <1>5, <1>7, <2>1 DEF PagesInv, ShownOnce
<1>8. ASSUME "removed" \notin moved' PROVE NothingMissed'
  <2>1. Reached' = Offset + Limit
    BY <1>3, <1>5, <1>1 DEF Reached
  <2>2. ASSUME NEW d \in Untied \cap steady, d \notin seen, d \notin found'
        PROVE  Offset + Limit <= Rank(d) /\ total = Pages!NoTotal
    <3>1. d \in Untied /\ d \in listed /\ d \notin found
      BY <1>1, <1>2, PagingAssumption DEF Pages!TypeOK, Pages!NoPage, Untied, Pages!Docs
    <3>2. Offset <= Rank(d)
      BY <1>1, <1>8, <2>2, <3>1 DEF PagesInv, NothingMissed, Reached
    <3>3. total = Pages!NoTotal
      BY <1>2, <3>1, Compared
    <3> QED BY <1>2, <1>3, <1>4, <2>2, <3>1, <3>2, <3>3, RankOf
  <2> QED BY <1>1, <1>5, <2>1, <2>2 DEF NothingMissed
<1>9. ASSUME moved' = {} PROVE Counted'
  BY <1>1, <1>3, <1>5, <1>9 DEF PagesInv, Counted
<1> QED BY <1>1, <1>3, <1>6, <1>7, <1>8, <1>9 DEF PagesInv

LEMMA StepCountDocs == PagesInv /\ Pages!CountDocs => PagesInv'
<1> SUFFICES ASSUME PagesInv, Pages!CountDocs PROVE PagesInv'
  OBVIOUS
<1>1. /\ walking /\ listing # "users" /\ total = Pages!NoTotal /\ total' = Size
      /\ found # Pages!NoPage \/ listing = "histories"
      /\ UNCHANGED <<listing, listed, gone, ask, walking, found, seen, twice, shown, steady, moved>>
  BY PageCardinality DEF Pages!CountDocs, Size
<1>2. Pages!TypeOK
  BY DEF PagesInv
<1>3. /\ Offset \in Nat /\ Limit \in Nat /\ Size \in 0..MaxDocs /\ MaxDocs \in Nat
  BY <1>2, Pages0
<1>4. /\ Pages!FirstPage' = Pages!FirstPage /\ Untied' = Untied /\ Size' = Size
      /\ Offset' = Offset /\ PageSize' = PageSize /\ Reached' = Reached
      /\ \A d : Pages!Tied(d)' = Pages!Tied(d)
      /\ \A d : Rank(d)' = Rank(d)
  BY <1>1 DEF Pages!FirstPage, Untied, Pages!Tied, Rank, Ahead, Pages!Before, Size, Offset,
              PageIndex, PageSize, Reached
<1>5. Pages!TypeOK'
  <2>1. total' \in 0..Pages!NoTotal
    BY <1>1, <1>3 DEF Pages!NoTotal
  <2> QED BY <1>1, <1>2, <1>4, <2>1, PageCardinality DEF Pages!TypeOK
<1>6. ASSUME "inserted" \notin moved' PROVE ShownOnce'
  BY <1>1, <1>4, <1>6 DEF PagesInv, ShownOnce
<1>7. ASSUME "removed" \notin moved' PROVE NothingMissed'
  <2>1. ASSUME NEW d \in Untied \cap steady, d \notin seen, d \notin found
        PROVE  Reached <= Rank(d) /\ Size > Offset + Limit
    <3>1. d \in Untied /\ d \in listed
      BY <1>2 DEF Pages!TypeOK
    <3>2. Reached <= Rank(d)
      BY <1>1, <1>7, <2>1 DEF PagesInv, NothingMissed
    <3>3. Reached = Offset + Limit
      BY <1>1, <3>1, Compared DEF Reached
    <3> QED BY <1>2, <1>3, <3>1, <3>2, <3>3, RankOf
  <2> QED BY <1>1, <1>4, <2>1 DEF NothingMissed
<1>8. ASSUME moved' = {} PROVE Counted'
  BY <1>1, <1>4, <1>8 DEF PagesInv, Counted
<1> QED BY <1>1, <1>5, <1>6, <1>7, <1>8 DEF PagesInv

LEMMA StepRespond == PagesInv /\ Pages!Respond => PagesInv'
<1> SUFFICES ASSUME PagesInv, Pages!Respond PROVE PagesInv'
  OBVIOUS
<1>1. /\ found # Pages!NoPage /\ total # Pages!NoTotal
      /\ Pages!Answer(found, Pages!totalDocs)
  BY DEF Pages!Respond
<1>2. Pages!TypeOK /\ walking
  BY <1>1 DEF PagesInv
<1>3. /\ found \in SUBSET Pages!Docs /\ Cardinality(found) \in 0..Limit /\ total \in 0..MaxDocs
      /\ Offset \in Nat /\ Limit \in Nat \ {0} /\ MaxDocs \in Nat /\ Size \in Nat
  BY <1>1, <1>2, Pages0, PageCardinality, Finite DEF Pages!TypeOK, Pages!NoTotal
<1>4. /\ Pages!totalDocs \in Nat
      /\ Pages!totalDocs > Offset + Limit <=> total > Offset + Limit
      /\ Pages!totalDocs > Offset + Limit => Pages!totalDocs <= MaxDocs
  BY <1>3, PageCardinality DEF Pages!totalDocs
<1>5. "inserted" \notin moved =>
        \A d \in Untied : d \in found => d \notin seen /\ Rank(d) < Offset + Limit
  BY <1>2 DEF PagesInv, ShownOnce
<1>6. ASSUME "removed" \notin moved, NEW d \in Untied \cap steady, d \notin seen \cup found
      PROVE  Offset + Limit <= Rank(d) /\ Pages!totalDocs > Offset + Limit
  BY <1>1, <1>4, <1>6 DEF PagesInv, NothingMissed, Reached
<1>7. ASSUME moved = {}
      PROVE  /\ Cardinality(found) = PageSize
             /\ Pages!totalDocs > Offset + Limit <=> Size > Offset + Limit
  BY <1>1, <1>2, <1>4, <1>7 DEF PagesInv, Counted
<1> HIDE DEF Pages!totalDocs
<1> QED BY <1>1, <1>2, <1>3, <1>4, <1>5, <1>6, <1>7, AnswerKeeps

LEMMA StepEnters ==
  ASSUME PagesInv, NEW x \in Moving, Pages!DocumentEnters(x)
  PROVE  PagesInv'
<1>1. /\ walking /\ x \notin listed /\ listed' = listed \cup {x}
      /\ UNCHANGED <<listing, gone, ask, walking, found, total, seen, twice, shown, steady>>
      /\ moved \subseteq moved' /\ moved' # {}
      /\ moved' \subseteq moved \cup {"inserted", "appended"}
      /\ "inserted" \notin moved' =>
           \A e \in Pages!Docs : e \in listed \cup seen \cup found => ~Pages!Before(x, e)
  BY DEF Pages!DocumentEnters
<1>2. Pages!TypeOK /\ x \in Pages!Docs
  BY PagingAssumption DEF PagesInv, Pages!Docs
<1>3. /\ Pages!FirstPage' = Pages!FirstPage /\ Untied' = Untied
      /\ Offset' = Offset /\ Reached' = Reached
      /\ \A d : Pages!Tied(d)' = Pages!Tied(d)
  BY <1>1 DEF Pages!FirstPage, Untied, Pages!Tied, Offset, PageIndex, Reached
<1>4. Pages!TypeOK'
  BY <1>1, <1>2, <1>3, PageCardinality DEF Pages!TypeOK
<1>5. \A d \in Untied : Ahead(d)' = Ahead(d) \cup (IF Pages!Before(x, d) THEN {x} ELSE {})
  BY <1>1 DEF Ahead, Pages!Before
<1>6. /\ Offset \in Nat /\ Limit \in Nat
      /\ \A d \in Untied : /\ IsFiniteSet(Ahead(d)')
                          /\ Rank(d) \in Nat /\ Rank(d)' \in Nat
  <2>1. \A d : Ahead(d)' \in SUBSET Pages!Docs
    BY <1>4 DEF Ahead, Pages!TypeOK
  <2>2. \A d : IsFiniteSet(Ahead(d)') /\ Rank(d)' \in Nat
    BY <2>1, Finite DEF Rank
  <2> QED BY <1>2, <2>2, Pages0, RankOf
<1>7. ASSUME "inserted" \notin moved' PROVE ShownOnce'
  <2>1. ASSUME NEW d \in Untied, d \in seen \cup found PROVE Rank(d)' = Rank(d)
    <3>1. d \in Pages!Docs
      BY DEF Untied
    <3>2. Ahead(d)' = Ahead(d)
      BY <1>1, <1>5, <1>7, <2>1, <3>1
    <3> QED BY <3>2 DEF Rank
  <2> QED BY <1>1, <1>3, <1>7, <2>1 DEF PagesInv, ShownOnce
<1>8. ASSUME "removed" \notin moved' PROVE NothingMissed'
  <2>1. ASSUME NEW d \in Untied PROVE Rank(d) <= Rank(d)'
    <3>1. Ahead(d) \subseteq Ahead(d)' /\ IsFiniteSet(Ahead(d)')
      BY <1>5, <1>6
    <3> QED BY <3>1, FS_Subset DEF Rank
  <2>2. Reached \in Nat
    BY <1>6 DEF Reached
  <2>3. \A d \in Untied : Reached <= Rank(d) => Reached <= Rank(d)'
    BY <1>6, <2>1, <2>2
  <2> QED BY <1>1, <1>3, <1>8, <2>3 DEF PagesInv, NothingMissed
<1> QED BY <1>1, <1>4, <1>7, <1>8 DEF PagesInv

LEMMA StepLeaves ==
  ASSUME PagesInv, NEW x \in Moving, Pages!DocumentLeaves(x)
  PROVE  PagesInv'
<1>1. /\ walking /\ listed' = listed \ {x} /\ steady' = steady \ {x}
      /\ gone' \subseteq gone \cup {x} /\ moved' = moved \cup {"removed"}
      /\ UNCHANGED <<listing, ask, walking, found, total, seen, twice, shown>>
  BY DEF Pages!DocumentLeaves
<1>2. Pages!TypeOK /\ x \in Pages!Docs
  BY PagingAssumption DEF PagesInv, Pages!Docs
<1>3. /\ Pages!FirstPage' = Pages!FirstPage /\ Untied' = Untied /\ Offset' = Offset
      /\ \A d : Pages!Tied(d)' = Pages!Tied(d)
  BY <1>1 DEF Pages!FirstPage, Untied, Pages!Tied, Offset, PageIndex
<1>4. Pages!TypeOK'
  BY <1>1, <1>2, <1>3, PageCardinality DEF Pages!TypeOK
<1>5. ASSUME "inserted" \notin moved' PROVE ShownOnce'
  <2>1. ASSUME NEW d \in Untied PROVE Rank(d)' <= Rank(d) /\ Rank(d) \in Nat /\ Rank(d)' \in Nat
    <3>1. Ahead(d)' \subseteq Ahead(d)
      BY <1>1 DEF Ahead, Pages!Before
    <3>2. IsFiniteSet(Ahead(d)) /\ Rank(d) \in Nat
      BY <1>2, RankOf
    <3>3. Ahead(d)' \in SUBSET Pages!Docs
      BY <1>4 DEF Ahead, Pages!TypeOK
    <3>4. Rank(d)' \in Nat
      BY <3>3, Finite DEF Rank
    <3> QED BY <3>1, <3>2, <3>4, FS_Subset DEF Rank
  <2>2. Offset \in Nat /\ Limit \in Nat
    BY <1>2, Pages0
  <2>3. \A d \in Untied : /\ Rank(d) < Offset => Rank(d)' < Offset
                          /\ Rank(d) < Offset + Limit => Rank(d)' < Offset + Limit
    BY <2>1, <2>2
  <2> QED BY <1>1, <1>3, <1>5, <2>3 DEF PagesInv, ShownOnce
<1> QED BY <1>1, <1>4, <1>5 DEF PagesInv

LEMMA PagesStep == PagesInv /\ [ServicesNext]_servicesVars => PagesInv'
<1> SUFFICES ASSUME PagesInv, [ServicesNext]_servicesVars PROVE PagesInv'
  OBVIOUS
<1>1. CASE UNCHANGED pageVars
  BY <1>1 DEF pageVars, PagesInv, Pages!TypeOK, ShownOnce, NothingMissed, Counted, Untied,
    Pages!Tied, Rank, Ahead, Pages!Before, Size, Offset, PageIndex, PageSize, Reached,
    Pages!FirstPage
<1>2. CASE PagingStep
  BY <1>2, StepEnters, StepLeaves, StepPaginate, StepFindPage, StepCountDocs, StepRespond
  DEF PagingStep, Pages!Next, Pages!Serve
<1>3. PagingStep \/ UNCHANGED pageVars
  BY DEF ServicesNext, servicesVars, PlatformStep, LoginStep, StakeStep
<1> QED BY <1>1, <1>2, <1>3

LEMMA PagesInvariance == ServicesSpec => []PagesInv
<1>1. ServicesInit => PagesInv
  BY PagesInit DEF ServicesInit
<1> QED BY <1>1, PagesStep, PTL DEF ServicesSpec

\* A walk that has ended and from which nothing was removed showed every document
\* that was there throughout and ties with none, in each listing, for any creation
\* dates and page size and any order of the documents that tie; and if nothing
\* changed, it showed as many documents as there are.
THEOREM WalksSeeAll == ServicesSpec => []WalkSeesAll
<1>1. PagesInv => WalkSeesAll
  <2> SUFFICES ASSUME PagesInv, ~walking
               PROVE  /\ "removed" \notin moved => \A d \in steady : Pages!Tied(d) \/ d \in seen
                      /\ moved = {} => shown = Pages!Cardinality(listed)
    BY DEF WalkSeesAll, Pages!WalkSeesAll
  <2>1. ASSUME "removed" \notin moved, NEW d \in steady, ~Pages!Tied(d) PROVE d \in seen
    <3>1. d \in Untied \cap steady
      BY <2>1 DEF PagesInv, Pages!TypeOK, Untied
    <3> QED BY <2>1, <3>1 DEF PagesInv, NothingMissed
  <2>2. moved = {} => shown = Pages!Cardinality(listed)
    BY PageCardinality DEF PagesInv, Counted, Size
  <2> QED BY <2>1, <2>2
<1> QED BY <1>1, PagesInvariance, PTL

\* A walk shows twice only documents that tie, for any creation dates and page
\* size, unless one was inserted before others.
THEOREM WalksShowOnce == ServicesSpec => []NothingTwice
<1>1. PagesInv => NothingTwice
  BY DEF PagesInv, ShownOnce, NothingTwice, Pages!NothingTwice
<1> QED BY <1>1, PagesInvariance, PTL

----------------------------------------------------------------------------
(* ALL SERVICES TOGETHER.                                                  *)

\* What is proved of Platform and of UserLogin alone holds beside the others.
LEMMA EachServiceRuns == ServicesSpec => Spec /\ LoginSpec
<1>1. ServicesInit => Init /\ LoginInit
  BY DEF ServicesInit
<1>2. [ServicesNext]_servicesVars => [Next]_vars /\ [LoginNext]_userVars
  BY DEF ServicesNext, servicesVars, PlatformStep, LoginStep, PagingStep, StakeStep
<1> QED BY <1>1, <1>2, PTL DEF ServicesSpec, Spec, LoginSpec

\* Type correctness of the accounts, users, walks and stake histories.
THEOREM ServicesTypeCorrect == ServicesSpec => []ServicesTypeOK
<1>1. PagesInv /\ StakeInv => Pages!TypeOK /\ Stakes!TypeOK
  BY DEF PagesInv, StakeInv
<1>2. TypeOK /\ LoginTypeOK /\ Pages!TypeOK /\ Stakes!TypeOK => ServicesTypeOK
  BY DEF ServicesTypeOK
<1> QED BY <1>1, <1>2, EachServiceRuns, PlatformTypeCorrect, UserTypeCorrect,
           PagesInvariance, StakeInvariance, PTL
==============================================================================
