-------------------------- MODULE TraceUploadHistory --------------------------
(***************************************************************************)
(* TraceUpload with a history variable: what each transcript held when a   *)
(* collection started, to say what a complete collection promises.         *)
(***************************************************************************)
EXTENDS TraceUpload

VARIABLE atStart    \* atStart[c][s]: records in s when c started for it

historyVars == <<vars, atStart>>

Nothing == [s \in Sources |-> 0]

HistoryInit ==
  /\ Init
  /\ atStart = [c \in Collectors |-> Nothing]

HistoryNext ==
  /\ Next
  /\ atStart' = [c \in Collectors |->
       CASE pc'[c] = "idle" -> Nothing
         [] pc[c] = "idle" /\ pc'[c] # "idle" ->
              [s \in Sources |->
                 IF s \in current'[c] \cup idle'[c] THEN Len(file[s]) ELSE 0]
         [] OTHER -> atStart[c]]

HistorySpec == HistoryInit /\ [][HistoryNext]_historyVars

(* collect reports trace_upload_complete: its last phase ended, nothing was *)
(* unreadable, and no deadline or error ended it earlier.                   *)
ReportsComplete(c) ==
  /\ phase[c] = "idle"
  /\ unreadable[c] = {}
  /\ SkipPhase(c) \/ NothingPending(c)

(* A collection that reports trace_upload_complete leaves nothing behind in  *)
(* the transcripts it is for: the records they held when it started are all  *)
(* acknowledged, whichever collector uploaded them.                          *)
CompleteMeansAcked ==
  [][\A c \in Collectors :
       ReportsComplete(c) =>
         \A s \in current[c] \cup idle[c] : Len(ledger'[s]) >= atStart[c][s]]_historyVars
=============================================================================
