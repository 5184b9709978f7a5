-------------------------- MODULE EnrollmentProofs --------------------------
(***************************************************************************)
(* Theorems about Enrollment, for any processes, commands and bounds: its  *)
(* types, that approvals do not overlap, that none is opened while one can *)
(* be polled, and that a rejected credential is not used again.            *)
(*                                                                         *)
(* None of the properties is inductive. LeaderInv ties the steps of an     *)
(* approval to the leader lock. NewInv says that the number of an approval *)
(* is new to the worker until the browser calls back, so that a session    *)
(* once consumed stays consumed; StoreInv and HeldInv then say that a      *)
(* credential is on its way to the cache in one process only, before       *)
(* anybody holds it.                                                       *)
(***************************************************************************)
EXTENDS Enrollment, TLAPS

(* The leader's steps; only it has a browser open. *)
Leading == {"recheck", "reopen", "open", "browser"}

LeaderInv == \A p \in Processes : pc[p] \in Leading => leader = p

(* What a process works with where it needs it. *)
SessionInv ==
  \A p \in Processes :
    /\ pc[p] \in {"browser", "poll", "store", "drop"} => session[p] \in Sessions
    /\ pc[p] \in {"policy", "forget"} => mine[p] \in Sessions

(* The leader looked again before it opens the browser. *)
OpenInv == \A p \in Processes : pc[p] = "open" => Pending = None

(* The worker knows only approvals that were opened, and not yet the one a  *)
(* browser is open for.                                                     *)
NewInv ==
  /\ \A s \in Sessions : approval[s] # "none" => s <= opened
  /\ \A p \in Processes :
       pc[p] = "browser" => session[p] <= opened /\ approval[session[p]] = "none"

(* Credentials come from consumed sessions. *)
HeldInv ==
  /\ credential # None => approval[credential] = "consumed"
  /\ \A p \in Processes : /\ mine[p] # None => approval[mine[p]] = "consumed"
                          /\ rejected[p] # None => approval[rejected[p]] = "consumed"

(* A credential that is about to be stored is nowhere else. *)
StoreInv ==
  \A p \in Processes :
    pc[p] = "store" =>
      /\ approval[session[p]] = "consumed"
      /\ credential # session[p]
      /\ \A q \in Processes :
           /\ mine[q] # session[p] /\ rejected[q] # session[p]
           /\ pc[q] = "store" /\ session[q] = session[p] => q = p

RejectedInv ==
  \A p \in Processes :
    rejected[p] # None => credential # rejected[p] /\ mine[p] # rejected[p]

Inv ==
  /\ TypeOK /\ LeaderInv /\ SessionInv /\ OpenInv /\ NewInv /\ HeldInv /\ StoreInv
  /\ RejectedInv

-----------------------------------------------------------------------------
(* Approvals are natural numbers, and None is not one of them. *)
LEMMA SessionsAreNumbers == Sessions \subseteq Nat /\ None \notin Sessions
BY EnrollmentConstants DEF Sessions

(* Nothing is enrolled at first. *)
LEMMA InitInv == Init => Inv
BY EnrollmentConstants, SessionsAreNumbers
DEF Init, Inv, TypeOK, LeaderInv, Leading, SessionInv, OpenInv, NewInv, HeldInv, StoreInv,
    RejectedInv

(* A command that ends. *)
LEMMA ExitInv ==
  ASSUME Inv, NEW p \in Processes, Exit(p),
         UNCHANGED <<worker, shared, opened, resets>>,
         faults' \in 0 .. MaxFaults
  PROVE  Inv'
<1> USE SessionsAreNumbers DEF Inv, Exit, ReleaseLeader, worker, shared
<1>1. TypeOK'
  BY EnrollmentConstants DEF TypeOK
<1>2. LeaderInv'
  BY DEF TypeOK, LeaderInv, Leading
<1>3. SessionInv'
  BY DEF TypeOK, SessionInv
<1>4. OpenInv'
  BY DEF TypeOK, OpenInv, Pending
<1>5. NewInv'
  BY DEF TypeOK, NewInv
<1>6. HeldInv'
  BY DEF TypeOK, HeldInv
<1>7. StoreInv'
  BY DEF TypeOK, StoreInv, SessionInv
<1>8. RejectedInv'
  BY DEF TypeOK, RejectedInv
<1> QED BY <1>1, <1>2, <1>3, <1>4, <1>5, <1>6, <1>7, <1>8
(* Obtained, with a credential that a consumed session yielded and that is   *)
(* not the one the process gave up.                                          *)
LEMMA ObtainedInv ==
  ASSUME Inv, NEW p \in Processes, NEW s \in Sessions, Obtained(p, s),
         UNCHANGED <<worker, shared, opened, resets, faults>>,
         approval[s] = "consumed", s # rejected[p],
         \A q \in Processes : pc[q] = "store" => session[q] # s
  PROVE  Inv'
<1> USE SessionsAreNumbers DEF Inv, Obtained, Exit, ReleaseLeader, Goto, worker, shared
<1>1. TypeOK'
  BY EnrollmentConstants DEF TypeOK
<1>2. LeaderInv'
  BY DEF TypeOK, LeaderInv, Leading
<1>3. SessionInv'
  BY DEF TypeOK, SessionInv
<1>4. OpenInv'
  BY DEF TypeOK, OpenInv, Pending
<1>5. NewInv'
  BY DEF TypeOK, NewInv
<1>6. HeldInv'
  BY DEF TypeOK, HeldInv
<1>7. StoreInv'
  BY DEF TypeOK, StoreInv, SessionInv
<1>8. RejectedInv'
  BY DEF TypeOK, RejectedInv
<1> QED BY <1>1, <1>2, <1>3, <1>4, <1>5, <1>6, <1>7, <1>8

(* The user approves a session. *)
LEMMA UserApprovesInv ==
  ASSUME Inv, NEW s \in Sessions, UserApproves(s)
  PROVE  Inv'
<1> USE SessionsAreNumbers DEF Inv, UserApproves, shared, locals
<1>1. TypeOK'
  BY EnrollmentConstants DEF TypeOK
<1>2. LeaderInv'
  BY DEF TypeOK, LeaderInv, Leading
<1>3. SessionInv'
  BY DEF TypeOK, SessionInv
<1>4. OpenInv'
  BY DEF TypeOK, OpenInv, Pending
<1>5. NewInv'
  BY DEF TypeOK, NewInv
<1>6. HeldInv'
  BY DEF TypeOK, HeldInv
<1>7. StoreInv'
  BY DEF TypeOK, StoreInv, SessionInv
<1>8. RejectedInv'
  BY DEF TypeOK, RejectedInv
<1> QED BY <1>1, <1>2, <1>3, <1>4, <1>5, <1>6, <1>7, <1>8

(* A session expires: none becomes pending by that. *)
LEMMA SessionExpiresInv ==
  ASSUME Inv, NEW s \in Sessions, SessionExpires(s)
  PROVE  Inv'
<1> USE SessionsAreNumbers DEF Inv, SessionExpires, shared, locals
<1>1. TypeOK'
  BY EnrollmentConstants DEF TypeOK
<1>2. LeaderInv'
  BY DEF TypeOK, LeaderInv, Leading
<1>3. SessionInv'
  BY DEF TypeOK, SessionInv
<1>4. OpenInv'
  BY DEF TypeOK, OpenInv, Pending
<1>5. NewInv'
  BY DEF TypeOK, NewInv
<1>6. HeldInv'
  BY DEF TypeOK, HeldInv
<1>7. StoreInv'
  BY DEF TypeOK, StoreInv, SessionInv
<1>8. RejectedInv'
  BY DEF TypeOK, RejectedInv
<1> QED BY <1>1, <1>2, <1>3, <1>4, <1>5, <1>6, <1>7, <1>8

(* The worker revokes a credential. *)
LEMMA RevokeInv ==
  ASSUME Inv, NEW s \in Sessions, Revoke(s)
  PROVE  Inv'
<1> USE SessionsAreNumbers DEF Inv, Revoke, shared, locals
<1>1. TypeOK'
  BY EnrollmentConstants DEF TypeOK
<1>2. LeaderInv'
  BY DEF TypeOK, LeaderInv, Leading
<1>3. SessionInv'
  BY DEF TypeOK, SessionInv
<1>4. OpenInv'
  BY DEF TypeOK, OpenInv, Pending
<1>5. NewInv'
  BY DEF TypeOK, NewInv
<1>6. HeldInv'
  BY DEF TypeOK, HeldInv
<1>7. StoreInv'
  BY DEF TypeOK, StoreInv, SessionInv
<1>8. RejectedInv'
  BY DEF TypeOK, RejectedInv
<1> QED BY <1>1, <1>2, <1>3, <1>4, <1>5, <1>6, <1>7, <1>8

(* The state is reset. *)
LEMMA ResetStateInv ==
  ASSUME Inv, ResetState
  PROVE  Inv'
<1> USE SessionsAreNumbers DEF Inv, ResetState, worker, locals
<1>1. TypeOK'
  BY EnrollmentConstants DEF TypeOK
<1>2. LeaderInv'
  BY DEF TypeOK, LeaderInv, Leading
<1>3. SessionInv'
  BY DEF TypeOK, SessionInv
<1>4. OpenInv'
  BY DEF TypeOK, OpenInv, Pending
<1>5. NewInv'
  BY DEF TypeOK, NewInv
<1>6. HeldInv'
  BY DEF TypeOK, HeldInv
<1>7. StoreInv'
  BY DEF TypeOK, StoreInv, SessionInv
<1>8. RejectedInv'
  BY DEF TypeOK, RejectedInv
<1> QED BY <1>1, <1>2, <1>3, <1>4, <1>5, <1>6, <1>7, <1>8

(* A pending session is polled without the lock. *)
LEMMA ReadPendingInv ==
  ASSUME Inv, NEW p \in Processes, ReadPending(p)
  PROVE  Inv'
<1> USE SessionsAreNumbers DEF Inv, ReadPending, Goto, Pending, worker, shared
<1>1. TypeOK'
  BY EnrollmentConstants DEF TypeOK
<1>2. LeaderInv'
  BY DEF TypeOK, LeaderInv, Leading
<1>3. SessionInv'
  BY DEF TypeOK, SessionInv
<1>4. OpenInv'
  BY DEF TypeOK, OpenInv, Pending
<1>5. NewInv'
  BY DEF TypeOK, NewInv
<1>6. HeldInv'
  BY DEF TypeOK, HeldInv
<1>7. StoreInv'
  BY DEF TypeOK, StoreInv, SessionInv
<1>8. RejectedInv'
  BY DEF TypeOK, RejectedInv
<1> QED BY <1>1, <1>2, <1>3, <1>4, <1>5, <1>6, <1>7, <1>8

(* The lock is taken only when no process leads. *)
LEMMA TryLeaderInv ==
  ASSUME Inv, NEW p \in Processes, TryLeader(p)
  PROVE  Inv'
<1> USE SessionsAreNumbers DEF Inv, TryLeader, Goto, worker, shared, locals
<1>1. TypeOK'
  BY EnrollmentConstants DEF TypeOK
<1>2. LeaderInv'
  BY EnrollmentConstants DEF TypeOK, LeaderInv, Leading
<1>3. SessionInv'
  BY DEF TypeOK, SessionInv
<1>4. OpenInv'
  BY DEF TypeOK, OpenInv, Pending
<1>5. NewInv'
  BY DEF TypeOK, NewInv
<1>6. HeldInv'
  BY DEF TypeOK, HeldInv
<1>7. StoreInv'
  BY DEF TypeOK, StoreInv, SessionInv
<1>8. RejectedInv'
  BY DEF TypeOK, RejectedInv
<1> QED BY <1>1, <1>2, <1>3, <1>4, <1>5, <1>6, <1>7, <1>8

(* The leader found no pending session, so it may open the browser. *)
LEMMA RecheckPendingInv ==
  ASSUME Inv, NEW p \in Processes, RecheckPending(p)
  PROVE  Inv'
<1> USE SessionsAreNumbers DEF Inv, RecheckPending, Goto, Pending, worker, shared
<1>1. TypeOK'
  BY EnrollmentConstants DEF TypeOK
<1>2. LeaderInv'
  BY DEF TypeOK, LeaderInv, Leading
<1>3. SessionInv'
  BY DEF TypeOK, SessionInv
<1>4. OpenInv'
  BY DEF TypeOK, OpenInv, Pending
<1>5. NewInv'
  BY DEF TypeOK, NewInv
<1>6. HeldInv'
  BY DEF TypeOK, HeldInv
<1>7. StoreInv'
  BY DEF TypeOK, StoreInv, SessionInv
<1>8. RejectedInv'
  BY DEF TypeOK, RejectedInv
<1> QED BY <1>1, <1>2, <1>3, <1>4, <1>5, <1>6, <1>7, <1>8

(* The browser opens for a number the worker does not know. *)
LEMMA OpenBrowserInv ==
  ASSUME Inv, NEW p \in Processes, OpenBrowser(p)
  PROVE  Inv'
<1> USE SessionsAreNumbers DEF Inv, OpenBrowser, Goto, worker, shared
<1>a. opened + 1 \in Sessions /\ opened' = opened + 1 /\ approval[opened + 1] = "none"
  BY EnrollmentConstants DEF TypeOK, NewInv, Sessions
<1>b. \A s \in Sessions : s <= opened => s <= opened + 1
  BY EnrollmentConstants DEF TypeOK, Sessions
<1>1. TypeOK'
  BY <1>a, EnrollmentConstants DEF TypeOK
<1>2. LeaderInv'
  BY DEF TypeOK, LeaderInv, Leading
<1>3. SessionInv'
  BY <1>a DEF TypeOK, SessionInv
<1>4. OpenInv'
  BY DEF TypeOK, OpenInv, Pending
<1>5. NewInv'
  <2>1. \A s \in Sessions : approval'[s] # "none" => s <= opened'
    BY <1>a, <1>b DEF NewInv
  <2>2. ASSUME NEW q \in Processes, pc'[q] = "browser"
        PROVE  session'[q] <= opened' /\ approval'[session'[q]] = "none"
    <3>1. CASE q = p
      BY <1>a, <3>1 DEF TypeOK, Sessions
    <3>2. CASE q # p
      BY <1>a, <1>b, <2>2, <3>2 DEF TypeOK, NewInv, SessionInv
    <3> QED BY <3>1, <3>2
  <2> QED BY <2>1, <2>2 DEF NewInv
<1>6. HeldInv'
  BY DEF TypeOK, HeldInv
<1>7. StoreInv'
  BY <1>a DEF TypeOK, StoreInv, SessionInv
<1>8. RejectedInv'
  BY DEF TypeOK, RejectedInv
<1> QED BY <1>1, <1>2, <1>3, <1>4, <1>5, <1>6, <1>7, <1>8

(* The called-back session becomes pending; one leader, so no other browser. *)
LEMMA CallbackInv ==
  ASSUME Inv, NEW p \in Processes, Callback(p)
  PROVE  Inv'
<1> USE SessionsAreNumbers DEF Inv, Callback, Goto
<1> DEFINE kept == IF Pending # None THEN Pending ELSE session[p]
<1>a. /\ pending' = kept /\ session' = [session EXCEPT ![p] = kept] /\ kept \in Sessions
      /\ pc' = [pc EXCEPT ![p] = "poll"]
      /\ approval' = [approval EXCEPT ![session[p]] = "pending"]
  BY DEF TypeOK, SessionInv, Pending
<1>b. /\ pc[p] = "browser" /\ session[p] \in Sessions /\ leader = p
      /\ approval[session[p]] = "none" /\ session[p] <= opened
  BY DEF LeaderInv, Leading, SessionInv, NewInv
<1> HIDE DEF kept
<1>1. TypeOK'
  BY <1>a, <1>b, EnrollmentConstants DEF TypeOK
<1>2. LeaderInv'
  BY <1>a, <1>b DEF TypeOK, LeaderInv, Leading
<1>3. SessionInv'
  BY <1>a, <1>b DEF TypeOK, SessionInv
<1>4. OpenInv'
  BY <1>a, <1>b DEF TypeOK, OpenInv, Pending, LeaderInv, Leading
<1>5. NewInv'
  BY <1>a, <1>b DEF TypeOK, NewInv, LeaderInv, Leading
<1>6. HeldInv'
  BY <1>a, <1>b DEF TypeOK, HeldInv
<1>7. StoreInv'
  BY <1>a, <1>b DEF TypeOK, StoreInv, SessionInv
<1>8. RejectedInv'
  BY <1>a, <1>b DEF TypeOK, RejectedInv
<1> QED BY <1>1, <1>2, <1>3, <1>4, <1>5, <1>6, <1>7, <1>8

(* A cached credential is used, before or after the lock was tried. *)
LEMMA CachedInv ==
  ASSUME Inv, NEW p \in Processes, credential # None, Obtained(p, credential),
         UNCHANGED <<worker, shared, opened, resets, faults>>
  PROVE  Inv'
<1>1. credential \in Sessions /\ approval[credential] = "consumed"
  BY DEF Inv, TypeOK, HeldInv
<1>2. credential # rejected[p]
  BY <1>1, SessionsAreNumbers DEF Inv, RejectedInv
<1>3. \A q \in Processes : pc[q] = "store" => session[q] # credential
  BY DEF Inv, StoreInv
<1> QED BY <1>1, <1>2, <1>3, ObtainedInv

(* A process goes on to a step that asks nothing of it. *)
LEMMA GotoInv ==
  ASSUME Inv, NEW p \in Processes, NEW step \in {"enroll", "reopen"},
         pc[p] = IF step = "reopen" THEN "recheck" ELSE "cached",
         Goto(p, step), UNCHANGED <<worker, shared, leader, locals, opened, resets, faults>>
  PROVE  Inv'
<1> USE SessionsAreNumbers DEF Inv, Goto, worker, shared, locals
<1>1. TypeOK'
  BY EnrollmentConstants DEF TypeOK
<1>2. LeaderInv'
  BY DEF TypeOK, LeaderInv, Leading
<1>3. SessionInv'
  BY DEF TypeOK, SessionInv
<1>4. OpenInv'
  BY DEF TypeOK, OpenInv, Pending
<1>5. NewInv'
  BY DEF TypeOK, NewInv
<1>6. HeldInv'
  BY DEF TypeOK, HeldInv
<1>7. StoreInv'
  BY DEF TypeOK, StoreInv, SessionInv
<1>8. RejectedInv'
  BY DEF TypeOK, RejectedInv
<1> QED BY <1>1, <1>2, <1>3, <1>4, <1>5, <1>6, <1>7, <1>8

(* Looks at the cache. *)
LEMMA ReadCachedInv ==
  ASSUME Inv, NEW p \in Processes, ReadCached(p)
  PROVE  Inv'
<1>1. CASE credential # None /\ Obtained(p, credential)
  BY <1>1, CachedInv DEF ReadCached
<1>2. CASE Exit(p)
  BY <1>2, ExitInv DEF ReadCached, Inv, TypeOK
<1>3. CASE Goto(p, "enroll") /\ UNCHANGED <<locals, leader>>
  BY <1>3, GotoInv DEF ReadCached
<1> QED BY <1>1, <1>2, <1>3 DEF ReadCached

(* A process that does not lead uses what is cached, or ends. *)
LEMMA FollowInv ==
  ASSUME Inv, NEW p \in Processes, Follow(p)
  PROVE  Inv'
<1>1. CASE credential # None
  BY <1>1, CachedInv DEF Follow
<1>2. CASE credential = None
  BY <1>2, ExitInv DEF Follow, Inv, TypeOK
<1> QED BY <1>1, <1>2

(* The leader uses what is cached, or looks for a pending session. *)
LEMMA RecheckCachedInv ==
  ASSUME Inv, NEW p \in Processes, RecheckCached(p)
  PROVE  Inv'
<1>1. CASE credential # None
  BY <1>1, CachedInv DEF RecheckCached
<1>2. CASE credential = None
  BY <1>2, GotoInv DEF RecheckCached
<1> QED BY <1>1, <1>2

(* A command starts. *)
LEMMA StartInv ==
  ASSUME Inv, NEW p \in Processes, NEW what \in Commands, Start(p, what)
  PROVE  Inv'
<1> USE SessionsAreNumbers DEF Inv, Start, Goto, worker, shared
<1>1. TypeOK'
  BY EnrollmentConstants DEF TypeOK
<1>2. LeaderInv'
  BY DEF TypeOK, LeaderInv, Leading
<1>3. SessionInv'
  BY DEF TypeOK, SessionInv
<1>4. OpenInv'
  BY DEF TypeOK, OpenInv, Pending
<1>5. NewInv'
  BY DEF TypeOK, NewInv
<1>6. HeldInv'
  BY DEF TypeOK, HeldInv
<1>7. StoreInv'
  BY DEF TypeOK, StoreInv, SessionInv
<1>8. RejectedInv'
  BY DEF TypeOK, RejectedInv
<1> QED BY <1>1, <1>2, <1>3, <1>4, <1>5, <1>6, <1>7, <1>8

(* A command that ends after the worker handed out the credential of its     *)
(* session: the response is lost.                                            *)
LEMMA LostResponseInv ==
  ASSUME Inv, NEW p \in Processes, pc[p] = "poll", approval[session[p]] = "approved",
         approval' = [approval EXCEPT ![session[p]] = "consumed"],
         Exit(p), UNCHANGED <<expired, revoked, shared, opened, resets>>,
         faults' \in 0 .. MaxFaults
  PROVE  Inv'
<1> USE SessionsAreNumbers DEF Inv, Exit, ReleaseLeader, shared
<1>a. session[p] \in Sessions
  BY DEF SessionInv
<1>1. TypeOK'
  BY <1>a, EnrollmentConstants DEF TypeOK
<1>2. LeaderInv'
  BY <1>a DEF TypeOK, LeaderInv, Leading
<1>3. SessionInv'
  BY <1>a DEF TypeOK, SessionInv
<1>4. OpenInv'
  BY <1>a DEF TypeOK, OpenInv, Pending
<1>5. NewInv'
  BY <1>a DEF TypeOK, NewInv
<1>6. HeldInv'
  BY <1>a DEF TypeOK, HeldInv
<1>7. StoreInv'
  BY <1>a DEF TypeOK, StoreInv, SessionInv
<1>8. RejectedInv'
  BY <1>a DEF TypeOK, RejectedInv
<1> QED BY <1>1, <1>2, <1>3, <1>4, <1>5, <1>6, <1>7, <1>8

(* The credential reaches one process, and no process had it before. *)
LEMMA ConsumedInv ==
  ASSUME Inv, NEW p \in Processes, pc[p] = "poll", approval[session[p]] = "approved",
         approval' = [approval EXCEPT ![session[p]] = "consumed"],
         Goto(p, "store"), UNCHANGED <<locals, leader>>,
         UNCHANGED <<expired, revoked, shared, opened, resets, faults>>
  PROVE  Inv'
<1> USE SessionsAreNumbers DEF Inv, Goto, shared, locals
<1>a. session[p] \in Sessions
  BY DEF SessionInv
<1>1. TypeOK'
  BY <1>a, EnrollmentConstants DEF TypeOK
<1>2. LeaderInv'
  BY <1>a DEF TypeOK, LeaderInv, Leading
<1>3. SessionInv'
  BY <1>a DEF TypeOK, SessionInv
<1>4. OpenInv'
  BY <1>a DEF TypeOK, OpenInv, Pending
<1>5. NewInv'
  BY <1>a DEF TypeOK, NewInv
<1>6. HeldInv'
  BY <1>a DEF TypeOK, HeldInv
<1>7. StoreInv'
  BY <1>a DEF TypeOK, StoreInv, SessionInv, HeldInv
<1>8. RejectedInv'
  BY <1>a DEF TypeOK, RejectedInv
<1> QED BY <1>1, <1>2, <1>3, <1>4, <1>5, <1>6, <1>7, <1>8

(* The session is spent or over. *)
LEMMA SpentInv ==
  ASSUME Inv, NEW p \in Processes, pc[p] = "poll",
         Goto(p, "drop"), UNCHANGED <<worker, shared, leader, locals, opened, resets, faults>>
  PROVE  Inv'
<1> USE SessionsAreNumbers DEF Inv, Goto, worker, shared, locals
<1>1. TypeOK'
  BY EnrollmentConstants DEF TypeOK
<1>2. LeaderInv'
  BY DEF TypeOK, LeaderInv, Leading
<1>3. SessionInv'
  BY DEF TypeOK, SessionInv
<1>4. OpenInv'
  BY DEF TypeOK, OpenInv, Pending
<1>5. NewInv'
  BY DEF TypeOK, NewInv
<1>6. HeldInv'
  BY DEF TypeOK, HeldInv
<1>7. StoreInv'
  BY DEF TypeOK, StoreInv, SessionInv
<1>8. RejectedInv'
  BY DEF TypeOK, RejectedInv
<1> QED BY <1>1, <1>2, <1>3, <1>4, <1>5, <1>6, <1>7, <1>8

(* An answer to a poll. *)
LEMMA PollInv ==
  ASSUME Inv, NEW p \in Processes, Poll(p)
  PROVE  Inv'
<1> USE DEF Poll
<1>1. CASE /\ approval[session[p]] = "approved"
           /\ approval' = [approval EXCEPT ![session[p]] = "consumed"]
           /\ Goto(p, "store") /\ UNCHANGED <<locals, leader>>
  BY <1>1, ConsumedInv
<1>2. CASE Goto(p, "drop") /\ UNCHANGED <<approval, locals, leader>>
  BY <1>2, SpentInv DEF worker
<1>3. CASE Exit(p) /\ UNCHANGED approval
  BY <1>3, ExitInv DEF Inv, TypeOK, worker
<1> QED BY <1>1, <1>2, <1>3

(* The credential is cached. *)
LEMMA StoreCredentialInv ==
  ASSUME Inv, NEW p \in Processes, StoreCredential(p)
  PROVE  Inv'
<1> USE SessionsAreNumbers DEF Inv, StoreCredential, Obtained, Exit, ReleaseLeader, Goto, worker
<1>a. pc[p] = "store" /\ session[p] \in Sessions /\ credential' = session[p]
  BY DEF SessionInv
<1>1. TypeOK'
  BY <1>a, EnrollmentConstants DEF TypeOK
<1>2. LeaderInv'
  BY <1>a DEF TypeOK, LeaderInv, Leading
<1>3. SessionInv'
  BY <1>a DEF TypeOK, SessionInv
<1>4. OpenInv'
  BY <1>a DEF TypeOK, OpenInv, Pending
<1>5. NewInv'
  BY <1>a DEF TypeOK, NewInv
<1>6. HeldInv'
  BY <1>a DEF TypeOK, HeldInv, StoreInv
<1>7. StoreInv'
  BY <1>a DEF TypeOK, StoreInv, SessionInv
<1>8. RejectedInv'
  BY <1>a DEF TypeOK, RejectedInv, StoreInv
<1> QED BY <1>1, <1>2, <1>3, <1>4, <1>5, <1>6, <1>7, <1>8

(* The pending session is dropped. *)
LEMMA ForgetSessionInv ==
  ASSUME Inv, NEW p \in Processes, ForgetSession(p)
  PROVE  Inv'
<1> USE SessionsAreNumbers DEF Inv, ForgetSession, Exit, ReleaseLeader, worker
<1>1. TypeOK'
  BY EnrollmentConstants DEF TypeOK
<1>2. LeaderInv'
  BY DEF TypeOK, LeaderInv, Leading
<1>3. SessionInv'
  BY DEF TypeOK, SessionInv
<1>4. OpenInv'
  BY DEF TypeOK, OpenInv, Pending
<1>5. NewInv'
  BY DEF TypeOK, NewInv
<1>6. HeldInv'
  BY DEF TypeOK, HeldInv
<1>7. StoreInv'
  BY DEF TypeOK, StoreInv, SessionInv
<1>8. RejectedInv'
  BY DEF TypeOK, RejectedInv
<1> QED BY <1>1, <1>2, <1>3, <1>4, <1>5, <1>6, <1>7, <1>8

(* The credential is dropped; ensure remembers which one. *)
LEMMA ForgetCredentialInv ==
  ASSUME Inv, NEW p \in Processes, ForgetCredential(p)
  PROVE  Inv'
<1> USE SessionsAreNumbers DEF Inv, ForgetCredential, Goto, Exit, ReleaseLeader, worker
<1>1. TypeOK'
  BY EnrollmentConstants DEF TypeOK
<1>2. LeaderInv'
  BY DEF TypeOK, LeaderInv, Leading
<1>3. SessionInv'
  BY DEF TypeOK, SessionInv
<1>4. OpenInv'
  BY DEF TypeOK, OpenInv, Pending
<1>5. NewInv'
  BY DEF TypeOK, NewInv
<1>6. HeldInv'
  BY DEF TypeOK, HeldInv
<1>7. StoreInv'
  BY DEF TypeOK, StoreInv, SessionInv, HeldInv
<1>8. RejectedInv'
  BY DEF TypeOK, RejectedInv
<1> QED BY <1>1, <1>2, <1>3, <1>4, <1>5, <1>6, <1>7, <1>8

(* The policy is refused for the first time. *)
LEMMA RefusedInv ==
  ASSUME Inv, NEW p \in Processes, pc[p] = "policy",
         Goto(p, "forget"), UNCHANGED <<worker, shared, leader, locals, opened, resets, faults>>
  PROVE  Inv'
<1> USE SessionsAreNumbers DEF Inv, Goto, worker, shared, locals
<1>1. TypeOK'
  BY EnrollmentConstants DEF TypeOK
<1>2. LeaderInv'
  BY DEF TypeOK, LeaderInv, Leading
<1>3. SessionInv'
  BY DEF TypeOK, SessionInv
<1>4. OpenInv'
  BY DEF TypeOK, OpenInv, Pending
<1>5. NewInv'
  BY DEF TypeOK, NewInv
<1>6. HeldInv'
  BY DEF TypeOK, HeldInv
<1>7. StoreInv'
  BY DEF TypeOK, StoreInv, SessionInv
<1>8. RejectedInv'
  BY DEF TypeOK, RejectedInv
<1> QED BY <1>1, <1>2, <1>3, <1>4, <1>5, <1>6, <1>7, <1>8

(* An answer to the policy request. *)
LEMMA GetPolicyInv ==
  ASSUME Inv, NEW p \in Processes, GetPolicy(p)
  PROVE  Inv'
<1> USE DEF GetPolicy
<1>1. CASE Goto(p, "forget") /\ UNCHANGED <<locals, leader>>
  BY <1>1, RefusedInv
<1>2. CASE Exit(p)
  BY <1>2, ExitInv DEF Inv, TypeOK
<1> QED BY <1>1, <1>2

(* A browser that fails, a request that fails, a process that dies. *)
LEMMA FaultInv ==
  ASSUME Inv, NEW p \in Processes, Fault(p)
  PROVE  Inv'
<1>1. faults' \in 0 .. MaxFaults
  BY EnrollmentConstants DEF Inv, TypeOK, Fault, NoApproval, RequestFails, Crash
<1>2. CASE NoApproval(p)
  BY <1>1, <1>2, ExitInv DEF NoApproval
<1>3. CASE Crash(p)
  BY <1>1, <1>3, ExitInv DEF Crash
<1>4. CASE RequestFails(p)
  <2>1. CASE UNCHANGED approval
    BY <1>1, <1>4, <2>1, ExitInv DEF RequestFails, worker
  <2>2. CASE /\ pc[p] = "poll" /\ approval[session[p]] = "approved"
             /\ approval' = [approval EXCEPT ![session[p]] = "consumed"]
    BY <1>1, <1>4, <2>2, LostResponseInv DEF RequestFails
  <2> QED BY <1>4, <2>1, <2>2 DEF RequestFails
<1> QED BY <1>2, <1>3, <1>4 DEF Fault

-----------------------------------------------------------------------------
(* Every step of Next preserves the invariant. *)
LEMMA NextInv == Inv /\ [Next]_vars => Inv'
<1> SUFFICES ASSUME Inv, [Next]_vars PROVE Inv'
  OBVIOUS
<1>1. ASSUME NEW s \in Sessions, UserApproves(s) \/ SessionExpires(s) \/ Revoke(s)
      PROVE  Inv'
  BY <1>1, UserApprovesInv, SessionExpiresInv, RevokeInv
<1>2. CASE ResetState
  BY <1>2, ResetStateInv
<1>3. ASSUME NEW p \in Processes, NEW what \in Commands, Start(p, what)
      PROVE  Inv'
  BY <1>3, StartInv
<1>4. ASSUME NEW p \in Processes, Running(p)
      PROVE  Inv'
  BY <1>4, ReadCachedInv, ReadPendingInv, TryLeaderInv, FollowInv, RecheckCachedInv,
     RecheckPendingInv, OpenBrowserInv, CallbackInv, PollInv, StoreCredentialInv,
     ForgetSessionInv, GetPolicyInv, ForgetCredentialInv DEF Running
<1>5. ASSUME NEW p \in Processes, Fault(p)
      PROVE  Inv'
  BY <1>5, FaultInv
<1>6. CASE UNCHANGED vars
  <2> USE <1>6 DEF vars, worker, shared, locals
  <2>1. TypeOK' /\ LeaderInv' /\ SessionInv' /\ OpenInv'
    BY DEF Inv, TypeOK, LeaderInv, SessionInv, OpenInv, Pending
  <2>2. NewInv' /\ HeldInv' /\ StoreInv' /\ RejectedInv'
    BY DEF Inv, NewInv, HeldInv, StoreInv, RejectedInv
  <2> QED BY <2>1, <2>2 DEF Inv
<1> QED BY <1>1, <1>2, <1>3, <1>4, <1>5, <1>6 DEF Next

(* The invariant holds throughout. *)
LEMMA Invariance == Spec => []Inv
BY InitInv, NextInv, PTL DEF Spec

(* Every variable has its type in every behaviour, and the leader lock is    *)
(* held only by a process that is enrolling: no way to end a command leaves  *)
(* it behind.                                                                *)
THEOREM TypeCorrect == Spec => []TypeOK
<1>1. Inv => TypeOK
  BY DEF Inv
<1> QED BY Invariance, <1>1, PTL

(* Two processes never have a browser approval open at the same time: only   *)
(* the holder of the enrollment-leader lock opens one.                       *)
THEOREM ApprovalsApart == Spec => []OneBrowser
<1>1. Inv => OneBrowser
  BY DEF Inv, LeaderInv, Leading, OneBrowser
<1> QED BY Invariance, <1>1, PTL

(* After a 401 ensure never asks for the policy with the same credential     *)
(* again, whichever of the three ways it obtained the next one.              *)
THEOREM RejectedStaysOut == Spec => []NeverTheRejected
<1>1. Inv => NeverTheRejected
  BY DEF Inv, RejectedInv, NeverTheRejected
<1> QED BY Invariance, <1>1, PTL

(* A browser approval is opened only when no session that could be polled is *)
(* in the state file at that moment.                                         *)
THEOREM NoneOpenedWhilePending == Spec => NoApprovalWhilePending
<1>1. Inv /\ [Next]_vars => [opened' # opened => Pending = None]_vars
  <2> SUFFICES ASSUME Inv, Next, opened' # opened PROVE Pending = None
    BY DEF vars
  <2>1. PICK p \in Processes : OpenBrowser(p)
    BY DEF Next, Running, Fault, UserApproves, SessionExpires, Revoke, ResetState, Start,
           ReadCached, ReadPending, TryLeader, Follow, RecheckCached, RecheckPending,
           Callback, Poll, StoreCredential, ForgetSession, GetPolicy, ForgetCredential,
           NoApproval, RequestFails, Crash
  <2> QED BY <2>1 DEF Inv, OpenInv, OpenBrowser
<1> QED BY Invariance, <1>1, PTL DEF Spec, NoApprovalWhilePending
=============================================================================
