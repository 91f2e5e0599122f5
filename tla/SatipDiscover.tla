--------------------------- MODULE SatipDiscover ----------------------------
(***************************************************************************)
(* Discovery of SAT>IP servers (satip plug-in, discover.c, msearch.c and   *)
(* the list of server.c): the thread that probes the network, fetches the  *)
(* description behind each URL announced, and removes servers not seen for *)
(* a while; the poller's thread, which hands over the answers; and         *)
(* Deactivate(), which stops the thread while it holds mutexM.             *)
(*                                                                         *)
(* Time passes in ticks while every thread sleeps or waits, and at once to *)
(* the next probe when the thread has nothing to do until then; what the   *)
(* threads do in between takes no time.  The critical sections of mutexM   *)
(* are single steps, but for Deactivate(), which waits inside one.         *)
(*                                                                         *)
(* The buffers of a fetch are reset after a good answer only: what a bad   *)
(* one left stands before the next description, whose server then has no   *)
(* model and no name.  It is an entry of the list of its own.              *)
(*                                                                         *)
(* The names that SatipTuner has too begin with Discover, so that a module *)
(* can extend both.                                                        *)
(***************************************************************************)
EXTENDS Integers, FiniteSets, Sequences, SequencesExt

CONSTANTS
  Urls,             \* description URLs, one for each server of the network
  ProbeInterval,    \* eProbeIntervalMs, in ticks
  CleanupTimeout,   \* eCleanupTimeoutMs
  ProbeTime,        \* pause between the two queries of Probe()
  SleepTime,        \* eSleepTimeoutMs
  FetchTime,        \* eConnectTimeoutMs
  AnswerTime,       \* how long after the first query answers come
  CancelTime        \* seconds of Cancel(3)

ASSUME TimesAssumption ==
  /\ {ProbeInterval, CleanupTimeout, ProbeTime, SleepTime, FetchTime,
      AnswerTime, CancelTime} \subseteq Nat \ {0}
  /\ ProbeTime <= AnswerTime /\ AnswerTime < ProbeInterval

VARIABLES
  known,            \* serversM
  seen,             \* time since lastSeenM.Set() of each entry
  probeUrls,        \* probeUrlListM
  tmp,              \* the copy of it that Action() works on
  spoiled,          \* headerBufferM and dataBufferM hold a bad answer
  timer,            \* time since probeIntervalM.Set()
  due,              \* answers each server may still give to the last probe
  place,            \* where the thread is
  busy,             \* how long its sleep, or its fetch, still takes
  running,          \* cThread
  cancelled,        \* pthread_cancel() was called
  signaled,         \* sleepM
  stopping,         \* where Deactivate() is
  wait,             \* how long Cancel(3) still waits
  age               \* probes since the entry was last fetched

timeVars == <<seen, timer, wait>>
stopVars == <<running, cancelled, stopping, wait>>
listVars == <<known, seen, age>>
discoverVars == <<known, seen, probeUrls, tmp, spoiled, timer, due, place,
                  busy, running, cancelled, signaled, stopping, wait, age>>

(* A server is known by address, model and description (Compare).          *)
Entries == [url : Urls, whole : BOOLEAN]
Listed(e) == \E i \in 1..Len(known) : known[i] = e

DiscoverPlaces == {"first", "probe", "cleanup", "loop", "take", "fetch",
                   "sleep", "ended"}

(* Bound: longer than any round takes.                                     *)
MaxTimer == 2 * ProbeInterval

DiscoverTypeOK ==
  /\ known \in Seq(Entries) /\ IsInjective(known)
  /\ seen \in [Entries -> 0..CleanupTimeout + 1]
  /\ probeUrls \in Seq(Urls) /\ tmp \in Seq(Urls)
  /\ spoiled \in BOOLEAN
  /\ timer \in 0..MaxTimer
  /\ due \in [Urls -> 0..2]
  /\ place \in DiscoverPlaces
  /\ busy \in Nat /\ wait \in 0..CancelTime
  /\ {running, cancelled, signaled} \subseteq BOOLEAN
  /\ stopping \in {"no", "signalled", "waiting", "done"}
  /\ age \in [Entries -> Nat]

(* Deactivate() has mutexM from its first step to its last.                *)
Held == stopping \in {"signalled", "waiting"}

DiscoverInit ==
  /\ known = <<>>
  /\ seen = [e \in Entries |-> 0]
  /\ probeUrls = <<>> /\ tmp = <<>> /\ spoiled = FALSE
  /\ timer = 0
  /\ due = [u \in Urls |-> 1]
  /\ place = "first" /\ busy = ProbeTime
  /\ running = TRUE /\ cancelled = FALSE /\ signaled = FALSE
  /\ stopping = "no" /\ wait = 0
  /\ age = [e \in Entries |-> 0]

-----------------------------------------------------------------------------
(* cSatipDiscover::Action.  Probe() sends a query, sleeps for a second and *)
(* sends another: each may be answered once by each server.                *)

ProbeEnd ==
  /\ place \in {"first", "probe"} /\ busy = 0
  /\ due' = [u \in Urls |-> due[u] + 1]
  /\ place' = IF place = "first" THEN "loop" ELSE "cleanup"
  /\ UNCHANGED <<listVars, probeUrls, tmp, spoiled, timer, busy, signaled,
                 stopVars>>

Stale(e) == seen[e] > CleanupTimeout

(* cSatipServers::Cleanup.  Del() clears the links of the entry it deletes *)
(* and the loop goes on from there: it ends with the first that is stale.  *)
Cleanup ==
  /\ place = "cleanup" /\ ~Held
  /\ known' = LET S == {i \in 1..Len(known) : Stale(known[i])} IN
              IF S = {} THEN known
              ELSE RemoveAt(known, CHOOSE i \in S : \A j \in S : i <= j)
  /\ place' = "take"
  /\ UNCHANGED <<seen, age, probeUrls, tmp, spoiled, timer, due, busy,
                 signaled, stopVars>>

ProbeDue == timer >= ProbeInterval

Loop ==
  /\ place = "loop"
  /\ \/ /\ ~running
        /\ place' = "ended"
        /\ UNCHANGED <<timer, due, busy, age>>
     \/ /\ running /\ ProbeDue
        /\ place' = "probe"
        /\ timer' = 0 /\ busy' = ProbeTime
        /\ due' = [u \in Urls |-> 1]
        /\ age' = [e \in Entries |-> IF Listed(e) THEN age[e] + 1 ELSE 0]
     \/ /\ running /\ ~ProbeDue
        /\ place' = "take"
        /\ UNCHANGED <<timer, due, busy, age>>
  /\ UNCHANGED <<known, seen, probeUrls, tmp, spoiled, signaled, stopVars>>

(* The next URL to fetch, or the sleep at the end of the loop.  A fetch    *)
(* takes its timeout at most.                                              *)
FetchOrSleep(urls) ==
  IF urls = <<>>
  THEN place' = "sleep" /\ busy' = SleepTime
  ELSE place' = "fetch" /\ busy' \in 0..FetchTime

(* URLs are inserted in front of both lists.                               *)
Take ==
  /\ place = "take" /\ ~Held
  /\ tmp' = Reverse(probeUrls)
  /\ probeUrls' = <<>>
  /\ FetchOrSleep(tmp')
  /\ UNCHANGED <<listVars, spoiled, timer, due, signaled, stopVars>>

(* Mutant: a server that is known already is not marked as seen.           *)
AddOnly(e) == IF Listed(e) THEN UNCHANGED <<known, seen>>
              ELSE /\ known' = Append(known, e)
                   /\ seen' = [seen EXCEPT ![e] = 0]

(* Mutant: an answer refreshes all entries.                                *)
RefreshAll(e) == /\ known' = IF Listed(e) THEN known ELSE Append(known, e)
                 /\ seen' = [f \in Entries |-> 0]

(* AddServer: Update() of the entry, or a new one.                         *)
AddServer(e) == /\ known' = IF Listed(e) THEN known ELSE Append(known, e)
                /\ seen' = [seen EXCEPT ![e] = 0]

(* Fetch: a good answer; an answer with a bad status; or none.             *)
Fetch ==
  /\ place = "fetch" /\ busy = 0
  /\ \/ LET e == [url |-> Head(tmp), whole |-> ~spoiled] IN
        /\ ~Held
        /\ AddServer(e)
        /\ age' = [age EXCEPT ![e] = 0]
        /\ spoiled' = FALSE
     \/ spoiled' = TRUE /\ UNCHANGED listVars
     \/ UNCHANGED <<spoiled, listVars>>
  /\ tmp' = Tail(tmp)
  /\ FetchOrSleep(tmp')
  /\ UNCHANGED <<probeUrls, timer, due, signaled, stopVars>>

(* sleepM.Wait(eSleepTimeoutMs)                                            *)
Wake ==
  /\ place = "sleep"
  /\ signaled \/ busy = 0
  /\ signaled' = FALSE
  /\ busy' = 0
  /\ place' = "loop"
  /\ UNCHANGED <<listVars, probeUrls, tmp, spoiled, timer, due, stopVars>>

(* A cancelled thread ends where it sleeps or waits for the network, not   *)
(* where it waits for a mutex.                                             *)
Die ==
  /\ cancelled
  /\ place \in {"first", "probe", "fetch", "sleep"}
  /\ place' = "ended"
  /\ UNCHANGED <<listVars, probeUrls, tmp, spoiled, timer, due, busy, signaled,
                 stopVars>>

DiscoverThread ==
  ProbeEnd \/ Cleanup \/ Loop \/ Take \/ Fetch \/ Wake \/ Die

-----------------------------------------------------------------------------
(* cSatipMsearch::Process and SetUrl, in the poller's thread.              *)
SetUrl(u) ==
  /\ due[u] > 0 /\ timer <= AnswerTime
  /\ ~Held
  /\ due' = [due EXCEPT ![u] = @ - 1]
  /\ probeUrls' = <<u>> \o probeUrls
  /\ signaled' = TRUE
  /\ UNCHANGED <<listVars, tmp, spoiled, timer, place, busy, stopVars>>

-----------------------------------------------------------------------------
(* cSatipDiscover::Deactivate                                              *)

Deactivate ==
  /\ stopping = "no"
  /\ stopping' = "signalled"
  /\ signaled' = TRUE
  /\ UNCHANGED <<listVars, probeUrls, tmp, spoiled, timer, due, place, busy,
                 running, cancelled, wait>>

(* if (Running()) Cancel(3)                                                *)
Cancel ==
  /\ stopping = "signalled"
  /\ running' = FALSE
  /\ IF running THEN stopping' = "waiting" /\ wait' = CancelTime
                ELSE stopping' = "done" /\ UNCHANGED wait
  /\ UNCHANGED <<listVars, probeUrls, tmp, spoiled, timer, due, place, busy,
                 signaled, cancelled>>

(* Mutant: the caller waits for the end of the thread, however long.       *)
EndAwaited == place = "ended"

WaitOver == place = "ended" \/ wait = 0

Cancelled ==
  /\ stopping = "waiting" /\ WaitOver
  /\ stopping' = "done"
  /\ cancelled' = (place # "ended")
  /\ wait' = 0
  /\ UNCHANGED <<listVars, probeUrls, tmp, spoiled, timer, due, place, busy,
                 signaled, running>>

-----------------------------------------------------------------------------
Blocked == \/ place \in {"first", "probe", "fetch"} /\ busy > 0 /\ ~cancelled
           \/ place = "sleep" /\ busy > 0 /\ ~signaled /\ ~cancelled
           \/ place \in {"cleanup", "take"} /\ Held
           \/ place = "fetch" /\ Held
           \/ place = "ended"

Less(t, d) == IF t > d THEN t - d ELSE 0

(* Nothing is to be done, and nothing can come, before the next probe.     *)
NothingDue ==
  /\ place = "sleep" /\ ~signaled /\ probeUrls = <<>> /\ stopping = "no"
  /\ \A u \in Urls : due[u] = 0

Step(d) == IF NothingDue
           THEN timer + d \in ProbeInterval..ProbeInterval + SleepTime - 1
           ELSE d = 1

(* Time passes.  Answers nobody gave in time are lost.                     *)
Tick ==
  /\ Blocked
  /\ stopping # "signalled" /\ ~(stopping = "waiting" /\ WaitOver)
  /\ stopping # "done" \/ place # "ended"
  /\ \E d \in 1..ProbeInterval :
       /\ Step(d)
       /\ timer' = IF timer + d < MaxTimer THEN timer + d ELSE MaxTimer
       /\ seen' = [e \in Entries |->
                     IF ~Listed(e) THEN 0
                     ELSE IF seen[e] + d > CleanupTimeout
                     THEN CleanupTimeout + 1 ELSE seen[e] + d]
       /\ busy' = Less(busy, d)
       /\ wait' = Less(wait, d)
  /\ due' = IF timer' > AnswerTime THEN [u \in Urls |-> 0] ELSE due
  /\ UNCHANGED <<known, probeUrls, tmp, spoiled, place, signaled, running,
                 cancelled, stopping, age>>

Stop == Deactivate \/ Cancel \/ Cancelled

DiscoverNext ==
  DiscoverThread \/ (\E u \in Urls : SetUrl(u)) \/ Stop \/ Tick

DiscoverSpec == DiscoverInit /\ [][DiscoverNext]_discoverVars

FairDiscoverSpec ==
  /\ DiscoverSpec
  /\ WF_discoverVars(DiscoverThread) /\ WF_discoverVars(Tick)
  /\ WF_discoverVars(Cancel) /\ WF_discoverVars(Cancelled)

-----------------------------------------------------------------------------
(* One round without an answer does not cost a server its place: Cleanup() *)
(* runs before the answers to the probe just sent are fetched, and still   *)
(* spares what was fetched in either of the two rounds before.  When a     *)
(* Deactivate() has kept Cleanup() waiting for mutexM, it may remove what  *)
(* was fetched in the earlier one, but nothing of the round before.        *)
KeptTwoRounds ==
  [][\A e \in Entries : Listed(e) /\ ~Listed(e)' =>
       age[e] > 1 /\ (stopping = "no" => age[e] > 2)]_discoverVars

(* A server that is gone is removed, though each round removes one entry   *)
(* at most.  What was not fetched for three probes is stale at the next,   *)
(* and each Cleanup() after that removes it or an entry before it: with n  *)
(* entries it is listed for n - 1 rounds more at worst.                    *)
GoneIsRemoved ==
  place = "take" =>
    \A i \in 1..Len(known) : age[known[i]] + i <= 3 + Cardinality(Entries)

ListSound == DiscoverTypeOK /\ GoneIsRemoved

(* Deactivate() returns, though it holds the mutex the thread needs to end.*)
DeactivateReturns == Held ~> stopping = "done"
=============================================================================
