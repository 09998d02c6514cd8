----------------------------- MODULE HumoWatcher -----------------------------
(***************************************************************************)
(* How the bank's pushes reach the API: the watcher                         *)
(* (services/humo-watcher/watcher.py) writes every deposit message into a   *)
(* SQLite spool, posts the oldest one, and deletes it when the API answered *)
(* with success.  A post that times out may still be at work in the API     *)
(* while the watcher posts the same message again; IngestHumoPush tells     *)
(* them apart by the message's fingerprint.                                 *)
(***************************************************************************)
EXTENDS Integers, Sequences, FiniteSets, SequencesExt

CONSTANTS
    Msgs,       \* deposit messages (a message id and its text)
    Calls,      \* HTTP requests that the API can have at work
    MaxFaults,  \* bound on crashes, time-outs and failed statements
    None

VARIABLES
    up,       \* the watcher process runs
    told,     \* messages Telegram has announced
    spool,    \* pending_ingest, ordered by created_at, msg_id
    drain,    \* drain_spool (one at a time: spool_lock)
    call,     \* the API's requests
    events,   \* manual_pay_event rows per message
    matches,  \* how often the matching of the message ran to its end
    acked,    \* messages deleted from the spool
    faults    \* faults so far

vars == <<up, told, spool, drain, call, events, matches, acked, faults>>

NoDrain == [at |-> "idle", msg |-> None, call |-> None]
NoCall == [at |-> "free", msg |-> None]

TypeOK ==
    /\ up \in BOOLEAN
    /\ told \subseteq Msgs
    /\ spool \in Seq(Msgs)
    /\ drain \in [at : {"idle", "wait", "ack"}, msg : Msgs \cup {None}, call : Calls \cup {None}]
    /\ call \in [Calls -> [at : {"free", "lookup", "insert", "match"}, msg : Msgs \cup {None}]]
    /\ events \in [Msgs -> Nat]
    /\ matches \in [Msgs -> Nat]
    /\ acked \subseteq Msgs
    /\ faults \in 0..MaxFaults

Init ==
    /\ up = TRUE
    /\ told = {}
    /\ spool = <<>>
    /\ drain = NoDrain
    /\ call = [k \in Calls |-> NoCall]
    /\ events = [m \in Msgs |-> 0]
    /\ matches = [m \in Msgs |-> 0]
    /\ acked = {}
    /\ faults = 0

api == <<call, events, matches>>

-----------------------------------------------------------------------------
(* The watcher.                                                            *)

\* The handler of run_client: spool.put (INSERT OR IGNORE).
Put(m) ==
    /\ up
    /\ m \notin told
    /\ told' = told \cup {m}
    /\ spool' = Append(spool, m)
    /\ UNCHANGED <<up, drain, api, acked, faults>>

\* Telegram announces the message while no client listens, or the put fails:
\* the message is not in the spool (SpoolWriteError ends the process).
Missed(m) ==
    /\ m \notin told
    /\ faults < MaxFaults
    /\ told' = told \cup {m}
    /\ up' = FALSE
    /\ drain' = NoDrain
    /\ faults' = faults + 1
    /\ UNCHANGED <<spool, api, acked>>

\* spool.first and the POST of ingest.
Post(k) ==
    /\ up /\ drain.at = "idle"
    /\ spool # <<>>
    /\ call[k].at = "free"
    /\ drain' = [at |-> "wait", msg |-> Head(spool), call |-> k]
    /\ call' = [call EXCEPT ![k] = [at |-> "lookup", msg |-> Head(spool)]]
    /\ UNCHANGED <<up, told, spool, events, matches, acked, faults>>

\* The 30 seconds of ClientTimeout pass, or the connection breaks: the retry
\* loop comes back to the message, the API may still be at work on it.
Timeout ==
    /\ up /\ drain.at = "wait"
    /\ faults < MaxFaults
    /\ faults' = faults + 1
    /\ drain' = NoDrain
    /\ UNCHANGED <<up, told, spool, api, acked>>

\* Mutant: the message stays in the spool.
AckNothing ==
    /\ up /\ drain.at = "ack"
    /\ drain' = NoDrain
    /\ acked' = acked \cup {drain.msg}
    /\ UNCHANGED <<up, told, spool, api, faults>>

\* spool.ack: DELETE by msg_id, the primary key.
Deleted(s, m) == IF Contains(s, m) THEN RemoveAt(s, CHOOSE i \in 1..Len(s) : s[i] = m) ELSE s

Ack ==
    /\ up /\ drain.at = "ack"
    /\ spool' = Deleted(spool, drain.msg)
    /\ acked' = acked \cup {drain.msg}
    /\ drain' = NoDrain
    /\ UNCHANGED <<up, told, api, faults>>

Crash ==
    /\ up
    /\ faults < MaxFaults
    /\ faults' = faults + 1
    /\ up' = FALSE
    /\ drain' = NoDrain
    /\ UNCHANGED <<told, spool, api, acked>>

\* Docker's restart policy; the spool is on disk.
Restart ==
    /\ ~up
    /\ up' = TRUE
    /\ UNCHANGED <<told, spool, drain, api, acked, faults>>

-----------------------------------------------------------------------------
(* IngestHumoPush, statement by statement.                                 *)

\* Mutant: any answer of the API is taken for success.
ReplyAny(k, ok) ==
    /\ call' = [call EXCEPT ![k] = NoCall]
    /\ drain' = IF drain.call = k /\ drain.at = "wait" THEN [drain EXCEPT !.at = "ack"] ELSE drain

\* The answer reaches the watcher if it still waits for this call.
Reply(k, ok) ==
    /\ call' = [call EXCEPT ![k] = NoCall]
    /\ drain' = IF drain.call = k /\ drain.at = "wait"
                   THEN IF ok THEN [drain EXCEPT !.at = "ack"] ELSE NoDrain
                   ELSE drain

\* GetManualPayEventByFingerprint: a known message is a duplicate.
ApiLookup(k) ==
    /\ call[k].at = "lookup"
    /\ IF events[call[k].msg] > 0 THEN Reply(k, TRUE)
       ELSE /\ call' = [call EXCEPT ![k].at = "insert"]
            /\ UNCHANGED drain
    /\ UNCHANGED <<up, told, spool, events, matches, acked, faults>>

\* InsertManualPayEvent: a unique violation is a duplicate, too.
ApiInsert(k) ==
    /\ call[k].at = "insert"
    /\ IF events[call[k].msg] > 0
          THEN Reply(k, TRUE) /\ UNCHANGED events
          ELSE /\ events' = [events EXCEPT ![call[k].msg] = @ + 1]
               /\ call' = [call EXCEPT ![k].at = "match"]
               /\ UNCHANGED drain
    /\ UNCHANGED <<up, told, spool, matches, acked, faults>>

\* The sweep, the search and the confirmation of module ManualPay.
ApiMatch(k) ==
    /\ call[k].at = "match"
    /\ matches' = [matches EXCEPT ![call[k].msg] = @ + 1]
    /\ Reply(k, TRUE)
    /\ UNCHANGED <<up, told, spool, events, acked, faults>>

\* A statement fails (500), or the API is restarted.
ApiFail(k) ==
    /\ call[k].at # "free"
    /\ faults < MaxFaults
    /\ faults' = faults + 1
    /\ Reply(k, FALSE)
    /\ UNCHANGED <<up, told, spool, events, matches, acked>>

Next ==
    \/ \E m \in Msgs : Put(m) \/ Missed(m)
    \/ \E k \in Calls : Post(k) \/ ApiLookup(k) \/ ApiInsert(k) \/ ApiMatch(k) \/ ApiFail(k)
    \/ Timeout \/ Ack \/ Crash \/ Restart

Spec == Init /\ [][Next]_vars

\* Docker restarts the watcher, retry_spool_loop comes back every few seconds
\* for as long as the spool is not empty, and the API ends its requests.
FairSpec ==
    /\ Spec
    /\ WF_vars(Restart) /\ WF_vars(Ack) /\ WF_vars(\E k \in Calls : Post(k))
    /\ \A k \in Calls : WF_vars(ApiLookup(k) \/ ApiInsert(k) \/ ApiMatch(k))

-----------------------------------------------------------------------------
\* A message leaves the spool only when the API has recorded it: no crash,
\* time-out or late answer loses it (drain_spool acks after ingest).
AckedIsRecorded == \A m \in acked : events[m] > 0

\* Retries and late requests do not multiply a message: one event, and its
\* matching, which grants days, runs at most once (the fingerprint).
IngestedOnce == \A m \in Msgs : events[m] <= 1 /\ matches[m] <= events[m]

HumoInv == TypeOK /\ AckedIsRecorded /\ IngestedOnce

\* What is in the spool reaches the API and leaves the spool, in whatever
\* order crashes, time-outs and failures come, as long as they end.
SpoolDrains == \A m \in Msgs : Contains(spool, m) ~> (events[m] = 1 /\ ~Contains(spool, m))
=============================================================================
