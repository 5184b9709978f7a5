----------------------------- MODULE Enrollment -----------------------------
(***************************************************************************)
(* Host enrollment (host-runtime/internal/runtime/enrollment.go, ensure.go *)
(* and the first part of collect in traces.go): processes of one host      *)
(* obtain a credential of the worker through a browser approval, cache it  *)
(* in the shared state file, and drop it when the worker rejects it.       *)
(*                                                                         *)
(* Everything is about one cache key, that is, one worker deployment and   *)
(* agent host.  A browser approval, the session it creates and the         *)
(* credential that session yields are the same number.  editState is a     *)
(* transaction under the state lock and writes replace the file, so each   *)
(* edit and each unlocked read of the state is one step.                   *)
(***************************************************************************)
EXTENDS Integers, FiniteSets

CONSTANTS
  Processes,       \* runtime processes of the host
  Commands,        \* what they run: "ensure", "enroll", "collect"
  Free, None,      \* no lock holder; no session, credential or response
  MaxApprovals,    \* bound: browser approvals
  MaxExpiries,     \* bound: sessions that expire
  MaxRevocations,  \* bound: credentials the worker stops accepting
  MaxResets,       \* bound: "reset" commands
  MaxFaults        \* bound: crashes, failed requests, failed browsers

ASSUME EnrollmentConstants ==
  /\ Commands \subseteq {"ensure", "enroll", "collect"}
  /\ Free \notin Processes
  /\ None \notin Nat
  /\ {MaxApprovals, MaxExpiries, MaxRevocations, MaxResets, MaxFaults}
       \subseteq Nat

VARIABLES
  \* the worker and the user
  approval,    \* approval[s]: where the worker has session s
  expired,     \* sessions whose time is over
  revoked,     \* credentials it no longer accepts
  \* shared on disk
  credential,  \* cached credential
  pending,     \* pending session
  leader,      \* holder of the enrollment-leader lock
  \* one process
  pc, command,
  mine,        \* the credential it works with
  session,     \* the session it polls or waits for
  rejected,    \* ensure's first credential, after the worker rejected it
  \* what the bounds count
  opened,      \* browser approvals opened; the last one's number
  resets, faults

shared == <<credential, pending>>
worker == <<approval, expired, revoked>>
locals == <<command, mine, session, rejected>>
vars == <<worker, shared, leader, pc, locals, opened, resets, faults>>

Sessions == 1 .. MaxApprovals

(* Types; the holder of the leader lock is a process that enrolls. *)
TypeOK ==
  /\ approval \in [Sessions -> {"none", "pending", "approved", "consumed"}]
  /\ {expired, revoked} \subseteq SUBSET Sessions
  /\ {credential, pending} \subseteq Sessions \cup {None}
  /\ leader \in Processes \cup {Free}
  /\ pc \in [Processes -> {"idle", "cached", "enroll", "lock", "follow",
                            "recheck", "reopen", "open", "browser", "poll",
                            "store", "drop", "policy", "forget"}]
  /\ command \in [Processes -> {"ensure", "enroll", "collect"}]
  /\ {mine, session, rejected} \subseteq [Processes -> Sessions \cup {None}]
  /\ opened \in 0 .. MaxApprovals
  /\ resets \in 0 .. MaxResets
  /\ faults \in 0 .. MaxFaults
  /\ leader # Free =>
       pc[leader] \in {"recheck", "reopen", "open", "browser", "poll", "store",
                       "drop"}

Init ==
  /\ approval = [s \in Sessions |-> "none"]
  /\ expired = {} /\ revoked = {}
  /\ credential = None /\ pending = None
  /\ leader = Free
  /\ pc = [p \in Processes |-> "idle"]
  /\ command = [p \in Processes |-> "ensure"]
  /\ mine = [p \in Processes |-> None]
  /\ session = [p \in Processes |-> None]
  /\ rejected = [p \in Processes |-> None]
  /\ opened = 0 /\ resets = 0 /\ faults = 0

-----------------------------------------------------------------------------
(* The user and the worker (external), as the runtime uses them *)

(* The user approves a session on the dashboard. *)
UserApproves(s) ==
  /\ approval[s] = "pending" /\ s \notin expired
  /\ approval' = [approval EXCEPT ![s] = "approved"]
  /\ UNCHANGED <<expired, revoked, shared, leader, pc, locals, opened, resets,
                 faults>>

(* expires_at of a session passes. *)
SessionExpires(s) ==
  /\ approval[s] # "none" /\ s \notin expired
  /\ Cardinality(expired) < MaxExpiries
  /\ expired' = expired \cup {s}
  /\ UNCHANGED <<approval, revoked, shared, leader, pc, locals, opened, resets,
                 faults>>

(* The worker stops accepting a credential it handed out. *)
Revoke(s) ==
  /\ approval[s] = "consumed" /\ s \notin revoked
  /\ Cardinality(revoked) < MaxRevocations
  /\ revoked' = revoked \cup {s}
  /\ UNCHANGED <<approval, expired, shared, leader, pc, locals, opened, resets,
                 faults>>

-----------------------------------------------------------------------------
(* One process *)

ReleaseLeader(p) == leader' = IF leader = p THEN Free ELSE leader

(* The command ends: with setup_pending, skipped, enrolled, or an error. *)
Exit(p) ==
  /\ pc' = [pc EXCEPT ![p] = "idle"]
  /\ command' = [command EXCEPT ![p] = "ensure"]
  /\ mine' = [mine EXCEPT ![p] = None]
  /\ session' = [session EXCEPT ![p] = None]
  /\ rejected' = [rejected EXCEPT ![p] = None]
  /\ ReleaseLeader(p)

Goto(p, step) == pc' = [pc EXCEPT ![p] = step]

(* enrollCredential returns credential s: enroll is done with it, the       *)
(* others ask for the policy.                                               *)
Obtained(p, s) ==
  IF command[p] = "enroll"
  THEN Exit(p)
  ELSE /\ mine' = [mine EXCEPT ![p] = s]
       /\ session' = [session EXCEPT ![p] = None]
       /\ Goto(p, "policy")
       /\ ReleaseLeader(p)
       /\ UNCHANGED <<command, rejected>>

Start(p, what) ==
  /\ pc[p] = "idle"
  /\ Goto(p, "cached")
  /\ command' = [command EXCEPT ![p] = what]
  /\ UNCHANGED <<worker, shared, leader, mine, session, rejected, opened,
                 resets, faults>>

(* obtainCredential, or collect's own look at the cache. *)
ReadCached(p) ==
  /\ pc[p] = "cached"
  /\ \/ credential # None /\ Obtained(p, credential)
     \/ credential = None /\ command[p] = "collect" /\ Exit(p)
     \/ /\ credential = None /\ command[p] # "collect"
        /\ Goto(p, "enroll")
        /\ UNCHANGED <<locals, leader>>
  /\ UNCHANGED <<worker, shared, opened, resets, faults>>

(* sessionFromState: a session that expired counts as none. *)
Pending == IF pending \in expired THEN None ELSE pending

(* enrollCredential: a pending session is polled without the leader lock. *)
ReadPending(p) ==
  /\ pc[p] = "enroll"
  /\ session' = [session EXCEPT ![p] = Pending]
  /\ Goto(p, IF Pending = None THEN "lock" ELSE "poll")
  /\ UNCHANGED <<worker, shared, leader, command, mine, rejected, opened,
                 resets, faults>>

(* Wrong on purpose: a busy lock is not noticed. *)
TryLeaderUnguarded(p) ==
  /\ pc[p] = "lock"
  /\ leader' = p
  /\ Goto(p, "recheck")
  /\ UNCHANGED <<worker, shared, locals, opened, resets, faults>>

(* The leader lock is tried once. *)
TryLeader(p) ==
  /\ pc[p] = "lock"
  /\ IF leader = Free
     THEN leader' = p /\ Goto(p, "recheck")
     ELSE Goto(p, "follow") /\ UNCHANGED leader
  /\ UNCHANGED <<worker, shared, locals, opened, resets, faults>>

(* Another process leads: use what is cached by now, or report             *)
(* enrollment_in_progress.                                                 *)
Follow(p) ==
  /\ pc[p] = "follow"
  /\ IF credential # None THEN Obtained(p, credential) ELSE Exit(p)
  /\ UNCHANGED <<worker, shared, opened, resets, faults>>

(* The leader looks at the cache again, and then at the pending session. *)
RecheckCached(p) ==
  /\ pc[p] = "recheck"
  /\ IF credential # None
     THEN Obtained(p, credential)
     ELSE Goto(p, "reopen") /\ UNCHANGED <<locals, leader>>
  /\ UNCHANGED <<worker, shared, opened, resets, faults>>

(* Wrong on purpose: what was read before the lock still counts. *)
RecheckPendingStale(p) ==
  /\ pc[p] = "reopen"
  /\ Goto(p, IF session[p] = None THEN "open" ELSE "poll")
  /\ UNCHANGED <<worker, shared, leader, locals, opened, resets, faults>>

RecheckPending(p) ==
  /\ pc[p] = "reopen"
  /\ session' = [session EXCEPT ![p] = Pending]
  /\ Goto(p, IF Pending = None THEN "open" ELSE "poll")
  /\ UNCHANGED <<worker, shared, leader, command, mine, rejected, opened,
                 resets, faults>>

(* createEnrollment opens the approval in the browser. *)
OpenBrowser(p) ==
  /\ pc[p] = "open"
  /\ opened < MaxApprovals
  /\ opened' = opened + 1
  /\ session' = [session EXCEPT ![p] = opened + 1]
  /\ Goto(p, "browser")
  /\ UNCHANGED <<worker, shared, leader, command, mine, rejected, resets,
                 faults>>

(* The browser calls back with the session; storeSession keeps one that is  *)
(* already pending and goes on with it.                                     *)
Callback(p) ==
  /\ pc[p] = "browser"
  /\ LET kept == IF Pending # None THEN Pending ELSE session[p]
     IN /\ pending' = kept
        /\ session' = [session EXCEPT ![p] = kept]
  /\ approval' = [approval EXCEPT ![session[p]] = "pending"]
  /\ Goto(p, "poll")
  /\ UNCHANGED <<expired, revoked, credential, leader, command, mine, rejected,
                 opened, resets, faults>>

(* The browser did not start, or no usable callback came in time. *)
NoApproval(p) ==
  /\ pc[p] \in {"open", "browser"}
  /\ faults < MaxFaults
  /\ faults' = faults + 1
  /\ Exit(p)
  /\ UNCHANGED <<worker, shared, opened, resets>>

(* The worker answers a poll; an approved session yields its credential    *)
(* once.  After 35 seconds of "pending" the process gives up for now.      *)
Poll(p) ==
  /\ pc[p] = "poll"
  /\ LET s == session[p]
     IN \/ /\ approval[s] = "approved" /\ s \notin expired
           /\ approval' = [approval EXCEPT ![s] = "consumed"]
           /\ Goto(p, "store")
           /\ UNCHANGED <<locals, leader>>
        \/ /\ approval[s] = "consumed" \/ s \in expired
           /\ Goto(p, "drop")
           /\ UNCHANGED <<approval, locals, leader>>
        \/ /\ approval[s] = "pending" /\ s \notin expired
           /\ Exit(p)
           /\ UNCHANGED approval
  /\ UNCHANGED <<expired, revoked, shared, opened, resets, faults>>

(* storeCredential: cache the credential, clear the pending session. *)
StoreCredential(p) ==
  /\ pc[p] = "store"
  /\ credential' = session[p]
  /\ pending' = None
  /\ Obtained(p, session[p])
  /\ UNCHANGED <<worker, opened, resets, faults>>

(* Wrong on purpose: the spent session stays in the state. *)
ForgetSessionNot(p) ==
  /\ pc[p] = "drop"
  /\ Exit(p)
  /\ UNCHANGED <<worker, shared, opened, resets, faults>>

(* forgetSession, after "expired" or "consumed": approval_expired. *)
ForgetSession(p) ==
  /\ pc[p] = "drop"
  /\ pending' = None
  /\ Exit(p)
  /\ UNCHANGED <<worker, credential, opened, resets, faults>>

(* Ask the worker for the policy.  Only ensure's first 401 and collect's    *)
(* drop the credential; a second 401 is an error like any other.            *)
GetPolicy(p) ==
  /\ pc[p] = "policy"
  /\ \/ /\ mine[p] \in revoked /\ rejected[p] = None
        /\ Goto(p, "forget")
        /\ UNCHANGED <<locals, leader>>
     \/ /\ mine[p] \notin revoked \/ rejected[p] # None
        /\ Exit(p)
  /\ UNCHANGED <<worker, shared, opened, resets, faults>>

(* Wrong on purpose: the rejected credential stays cached. *)
ForgetCredentialNot(p) ==
  /\ pc[p] = "forget"
  /\ IF command[p] = "collect"
     THEN Exit(p)
     ELSE /\ rejected' = [rejected EXCEPT ![p] = mine[p]]
          /\ mine' = [mine EXCEPT ![p] = None]
          /\ Goto(p, "enroll")
          /\ UNCHANGED <<command, session, leader>>
  /\ UNCHANGED <<worker, shared, opened, resets, faults>>

(* forgetCredential deletes whatever is cached under the key; ensure then   *)
(* enrolls again.                                                           *)
ForgetCredential(p) ==
  /\ pc[p] = "forget"
  /\ credential' = None
  /\ IF command[p] = "collect"
     THEN Exit(p)
     ELSE /\ rejected' = [rejected EXCEPT ![p] = mine[p]]
          /\ mine' = [mine EXCEPT ![p] = None]
          /\ Goto(p, "enroll")
          /\ UNCHANGED <<command, session, leader>>
  /\ UNCHANGED <<worker, pending, opened, resets, faults>>

-----------------------------------------------------------------------------
(* What goes wrong *)

(* A request fails; a poll may have consumed the approval all the same. *)
RequestFails(p) ==
  /\ pc[p] \in {"poll", "policy"}
  /\ faults < MaxFaults
  /\ faults' = faults + 1
  /\ \/ UNCHANGED approval
     \/ /\ pc[p] = "poll"
        /\ approval[session[p]] = "approved" /\ session[p] \notin expired
        /\ approval' = [approval EXCEPT ![session[p]] = "consumed"]
  /\ Exit(p)
  /\ UNCHANGED <<expired, revoked, shared, opened, resets>>

(* The process dies; the operating system releases its lock. *)
Crash(p) ==
  /\ pc[p] # "idle"
  /\ faults < MaxFaults
  /\ faults' = faults + 1
  /\ Exit(p)
  /\ UNCHANGED <<worker, shared, opened, resets>>

(* The user runs "reset". *)
ResetState ==
  /\ resets < MaxResets
  /\ resets' = resets + 1
  /\ credential' = None
  /\ pending' = None
  /\ UNCHANGED <<worker, leader, pc, locals, opened, faults>>

-----------------------------------------------------------------------------
Running(p) ==
  \/ ReadCached(p) \/ ReadPending(p) \/ TryLeader(p) \/ Follow(p)
  \/ RecheckCached(p) \/ RecheckPending(p) \/ OpenBrowser(p) \/ Callback(p)
  \/ Poll(p) \/ StoreCredential(p) \/ ForgetSession(p)
  \/ GetPolicy(p) \/ ForgetCredential(p)

Fault(p) == NoApproval(p) \/ RequestFails(p) \/ Crash(p)

Next ==
  \/ \E s \in Sessions : UserApproves(s) \/ SessionExpires(s) \/ Revoke(s)
  \/ ResetState
  \/ \E p \in Processes :
       \/ \E what \in Commands : Start(p, what)
       \/ Running(p) \/ Fault(p)

Spec == Init /\ [][Next]_vars

(* Processes keep running, session starts keep launching ensure, and the    *)
(* user answers each approval in the end.                                   *)
Fairness ==
  /\ \A p \in Processes : WF_vars(Running(p)) /\ SF_vars(Start(p, "ensure"))
  /\ \A s \in Sessions : WF_vars(UserApproves(s))

FairSpec == Spec /\ Fairness

-----------------------------------------------------------------------------
(* Properties *)

(* The leader lock keeps approvals apart: no two processes wait for a        *)
(* browser at the same time.                                                 *)
OneBrowser ==
  \A p, q \in Processes :
    (pc[p] \in {"open", "browser"} /\ pc[q] \in {"open", "browser"}) => p = q

(* No approval is opened while a session is pending that the host could poll *)
(* instead: a session is stored only under the leader lock, and the leader   *)
(* looks again before it opens the browser.                                  *)
NoApprovalWhilePending == [][opened' # opened => Pending = None]_vars

(* After the worker rejected its credential, ensure never goes back to it,   *)
(* from the cache, from a leader or from a session polled again.             *)
NeverTheRejected ==
  \A p \in Processes :
    pc[p] = "policy" /\ rejected[p] # None => mine[p] # rejected[p]

(* "Overlapping host starts or plugin upgrades drive at most one browser     *)
(* approval while the others reuse the result": an approval is needed once,  *)
(* and once more for each credential the worker revokes.                     *)
OneApproval == opened <= 1 + Cardinality(revoked)

(* However processes interleave, die and lose responses, sessions expire and *)
(* credentials are revoked, the host comes back to a credential that works.  *)
EventuallyEnrolled == []<>(credential # None /\ credential \notin revoked)
=============================================================================
