------------------------------ MODULE PumpWait ------------------------------
(***************************************************************************)
(* The waits of internal/pump: callers blocked in WaitCapture ("text"),    *)
(* WaitStableCapture ("stable") or WaitStableExceptCapture ("except"),     *)
(* their timer goroutines, and the output, resizes and close that wake     *)
(* them.  All share one mutex (mu) and one condition variable.             *)
(*                                                                         *)
(* A caller holds mu from the moment it looks at the screen until it is    *)
(* parked in cond.Wait, and a broadcast wakes every caller parked then; so *)
(* parking is a step of its own and the timer goroutine's broadcast is one *)
(* that needs mu.                                                          *)
(*                                                                         *)
(* The screen is the version of what lies outside the excluded rectangles; *)
(* a text wait looks for something that the odd versions show.  The clock  *)
(* is a counter; a tick stands for the time between any two instants the   *)
(* code can tell apart.                                                    *)
(***************************************************************************)
EXTENDS Integers, FiniteSets

CONSTANTS
  Waiters,     \* goroutines that wait; each waits once
  WithContext, \* those whose context may be cancelled (RPC handlers' cannot)
  Kinds,       \* per waiter: the kinds of wait it may ask for
  None,        \* owner of the free mutex
  Quiets,      \* quiet windows they ask for
  Timeouts,    \* timeouts they ask for
  Reverts,     \* TRUE: a change of the screen may undo the one before
  MaxChanges,  \* bound: output chunks and resizes
  MaxNow       \* bound: the clock stops here unless a wait needs it

ASSUME WaitAssumption ==
  /\ None \notin Waiters /\ WithContext \subseteq Waiters /\ Reverts \in BOOLEAN
  /\ Kinds \in [Waiters -> SUBSET {"text", "stable", "except"}]
  /\ Quiets \subseteq Nat /\ Timeouts \subseteq Nat
  /\ MaxChanges \in Nat /\ MaxNow \in Nat

VARIABLES
  now,         \* the clock
  mu,          \* owner of Pump.mu while it parks
  version,     \* what the screen shows outside the excluded rectangles
  lastFeed,    \* time of the last output (NoTime: gotAnyFeed is false)
  closed,      \* the reader has failed
  changes,     \* output chunks and resizes so far
  changed,     \* history: when output last changed screen
  stage,       \* per waiter: "idle", "parking", "parked", "woken", "done"
  ask,         \* per waiter: kind of wait, quiet window, timeout
  deadline,    \* per waiter
  previous,    \* per waiter: screen of its last look (NoScreen: none yet)
  lastChange,  \* per waiter: when it last saw the screen change
  cancelled,   \* waiters whose context is cancelled
  helper,      \* per waiter: its timer goroutine, "none" before it is started
  alarm,       \* per waiter: when its timer fires (NoTime: it does not)
  answer       \* per waiter: "none", "ok", "timeout", "closed", "cancelled"

outputVs == <<version, lastFeed, closed, changes, changed>>
callVs == <<ask, deadline, previous, lastChange, answer>>
timerVs == <<helper, alarm>>
waitVars == <<now, mu, outputVs, stage, callVs, cancelled, timerVs>>

-----------------------------------------------------------------------------
NoTime   == -1
NoScreen == -1
Asks(w)  == [kind : Kinds[w] \cap {"text"}, quiet : {0}, timeout : Timeouts]
              \cup [kind : Kinds[w] \ {"text"}, quiet : Quiets, timeout : Timeouts]

Shown == version % 2 = 1

QuietSince(t, a) == t # NoTime /\ now - t >= a.quiet

Broadcast == stage' = [w \in Waiters |-> IF stage[w] = "parked" THEN "woken" ELSE stage[w]]

WaitInit ==
  /\ now = 0 /\ mu = None
  /\ version = 0 /\ lastFeed = NoTime /\ closed = FALSE
  /\ changes = 0 /\ changed = NoTime
  /\ stage = [w \in Waiters |-> "idle"]
  /\ ask = [w \in Waiters |-> [kind |-> "text", quiet |-> 0, timeout |-> 0]]
  /\ deadline = [w \in Waiters |-> 0]
  /\ previous = [w \in Waiters |-> NoScreen]
  /\ lastChange = [w \in Waiters |-> NoTime]
  /\ cancelled = {}
  /\ helper = [w \in Waiters |-> "none"] /\ alarm = [w \in Waiters |-> NoTime]
  /\ answer = [w \in Waiters |-> "none"]

-----------------------------------------------------------------------------
(* The pump's side: output, a resize, the end of the output.                *)

NextScreen == IF Reverts THEN 1 - version ELSE version + 1

(* Pump.Run feeds a chunk; its output may stay inside the rectangles.       *)
Feed ==
  /\ mu = None /\ ~closed /\ changes < MaxChanges
  /\ changes' = changes + 1
  /\ lastFeed' = now
  /\ \/ version' = NextScreen /\ changed' = now
     \/ UNCHANGED <<version, changed>>
  /\ Broadcast
  /\ UNCHANGED <<now, mu, closed, callVs, cancelled, timerVs>>

(* CommitResize changes the model and leaves lastFeed alone.                *)
Resize ==
  /\ mu = None /\ changes < MaxChanges
  /\ changes' = changes + 1
  /\ version' = NextScreen
  /\ Broadcast
  /\ UNCHANGED <<now, mu, lastFeed, closed, changed, callVs, cancelled, timerVs>>

Close ==
  /\ mu = None /\ ~closed
  /\ closed' = TRUE
  /\ Broadcast
  /\ UNCHANGED <<now, mu, version, lastFeed, changes, changed, callVs, cancelled, timerVs>>

(* The clock stops at its bound once no parked caller waits for it.         *)
Tick ==
  /\ now < MaxNow \/ \E w \in Waiters : stage[w] = "parked" /\ now <= deadline[w]
  /\ now' = now + 1
  /\ UNCHANGED <<mu, outputVs, stage, callVs, cancelled, timerVs>>

-----------------------------------------------------------------------------
(* What a caller does once it has mu.                                       *)

(* Return: the deferred timer.Stop, close(stop) and Unlock; the call's      *)
(* locals are gone.                                                         *)
Answer(w, a) ==
  /\ answer' = [answer EXCEPT ![w] = a]
  /\ stage' = [stage EXCEPT ![w] = "done"]
  /\ mu' = None
  /\ alarm' = [alarm EXCEPT ![w] = NoTime]
  /\ deadline' = [deadline EXCEPT ![w] = 0]
  /\ previous' = [previous EXCEPT ![w] = NoScreen]
  /\ lastChange' = [lastChange EXCEPT ![w] = NoTime]

(* The caller keeps mu until cond.Wait has put it on the list.              *)
SleepUntil(w, t) ==
  /\ stage' = [stage EXCEPT ![w] = "parking"]
  /\ alarm' = [alarm EXCEPT ![w] = t]
  /\ mu' = w
  /\ UNCHANGED answer

Least(a, b) == IF a < b THEN a ELSE b

(* When a screen quiet since t is worth another look.                       *)
WakeTime(t, a, limit) == IF t = NoTime THEN limit ELSE Least(t + a.quiet, limit)

(* Variant: a change it sees does not restart the quiet window.             *)
QuietFromFirstLook(w, a) ==
  IF a.kind = "stable" \/ previous[w] = NoScreen THEN lastFeed ELSE lastChange[w]

(* WaitStableCapture goes by lastFeed.  WaitStableExceptCapture has no      *)
(* snapshot before the first output; then it compares the screen with the   *)
(* one of its last look.                                                    *)
QuietFrom(w, a) == IF a.kind = "stable" \/ previous[w] = NoScreen THEN lastFeed
                   ELSE IF previous[w] = version THEN lastChange[w] ELSE now

(* The head of both stable loops.                                           *)
StableLook(w, a, limit) ==
  LET since == QuietFrom(w, a)
      wake  == WakeTime(since, a, limit)
  IN IF QuietSince(since, a) \/ closed THEN Answer(w, "ok")
     ELSE IF wake <= now THEN Answer(w, "timeout")
     ELSE /\ SleepUntil(w, wake)
          /\ deadline' = [deadline EXCEPT ![w] = limit]
          /\ IF a.kind = "stable" \/ lastFeed = NoTime THEN UNCHANGED <<previous, lastChange>>
             ELSE /\ previous' = [previous EXCEPT ![w] = version]
                  /\ lastChange' = [lastChange EXCEPT ![w] = since]

(* Past its deadline a stable wait looks once more.                         *)
LastLook(w, a) ==
  LET settled == IF a.kind = "stable" THEN QuietSince(lastFeed, a)
                 ELSE previous[w] = version /\ QuietSince(lastChange[w], a)
  IN Answer(w, IF settled THEN "ok" ELSE "timeout")

(* Variant: the timeout is looked at before the end of the output.          *)
TextVerdictLate(w) ==
  IF Shown THEN "ok" ELSE IF w \in cancelled THEN "cancelled"
  ELSE IF now > deadline[w] THEN "timeout" ELSE IF closed THEN "closed" ELSE "none"

(* WaitCapture's loop.                                                      *)
TextVerdict(w) ==
  IF Shown THEN "ok" ELSE IF closed THEN "closed"
  ELSE IF w \in cancelled THEN "cancelled"
  ELSE IF now > deadline[w] THEN "timeout" ELSE "none"

-----------------------------------------------------------------------------
(* A text wait first looks, then starts its goroutine, whose timer is set   *)
(* later than the deadline was computed.                                    *)
CallText(w, a) ==
  /\ stage[w] = "idle" /\ mu = None /\ a.kind = "text"
  /\ ask' = [ask EXCEPT ![w] = a]
  /\ IF Shown \/ closed
     THEN Answer(w, IF Shown THEN "ok" ELSE "closed") /\ UNCHANGED helper
     ELSE /\ SleepUntil(w, now + a.timeout + 1)
          /\ deadline' = [deadline EXCEPT ![w] = now + a.timeout]
          /\ helper' = [helper EXCEPT ![w] = "waits"]
          /\ UNCHANGED <<previous, lastChange>>
  /\ UNCHANGED <<now, outputVs, cancelled>>

CallStable(w, a) ==
  /\ stage[w] = "idle" /\ mu = None /\ a.kind # "text"
  /\ ask' = [ask EXCEPT ![w] = a]
  /\ helper' = [helper EXCEPT ![w] = "waits"]
  /\ StableLook(w, a, now + a.timeout)
  /\ UNCHANGED <<now, outputVs, cancelled>>

(* cond.Wait: onto the list, then Unlock.                                   *)
Park(w) ==
  /\ stage[w] = "parking"
  /\ stage' = [stage EXCEPT ![w] = "parked"]
  /\ mu' = None
  /\ UNCHANGED <<now, outputVs, callVs, cancelled, timerVs>>

(* cond.Wait returns with mu held.                                          *)
WakeText(w) ==
  /\ stage[w] = "woken" /\ mu = None /\ ask[w].kind = "text"
  /\ IF TextVerdict(w) # "none" THEN Answer(w, TextVerdict(w))
     ELSE SleepUntil(w, alarm[w]) /\ UNCHANGED <<deadline, previous, lastChange>>
  /\ UNCHANGED <<now, outputVs, ask, cancelled, helper>>

WakeStable(w) ==
  /\ stage[w] = "woken" /\ mu = None /\ ask[w].kind # "text"
  /\ IF w \in cancelled THEN Answer(w, "cancelled")
     ELSE IF now > deadline[w] THEN LastLook(w, ask[w])
     ELSE StableLook(w, ask[w], deadline[w])
  /\ UNCHANGED <<now, outputVs, ask, cancelled, helper>>

Cancel(w) ==
  /\ w \in WithContext \ cancelled /\ stage[w] \notin {"idle", "done"}
  /\ cancelled' = cancelled \cup {w}
  /\ UNCHANGED <<now, mu, outputVs, stage, callVs, timerVs>>

-----------------------------------------------------------------------------
(* The timer goroutine.  A text wait's ends with its first broadcast, which *)
(* may come after the return when its timer and stop are ready together.    *)

TimerFires(w) ==
  /\ helper[w] = "waits"
  /\ \/ alarm[w] # NoTime /\ alarm[w] <= now
     \/ ask[w].kind = "text" /\ stage[w] = "done"
  /\ alarm' = [alarm EXCEPT ![w] = NoTime]
  /\ helper' = [helper EXCEPT ![w] = IF ask[w].kind = "text" THEN "wakesLast" ELSE "wakes"]
  /\ UNCHANGED <<now, mu, outputVs, stage, callVs, cancelled>>

ContextDone(w) ==
  /\ helper[w] = "waits" /\ w \in cancelled
  /\ helper' = [helper EXCEPT ![w] = "wakesLast"]
  /\ UNCHANGED <<now, mu, outputVs, stage, callVs, cancelled, alarm>>

(* Variant: broadcasts without mu.                                          *)
HelperBroadcastUnlocked(w) ==
  /\ helper[w] \in {"wakes", "wakesLast"}
  /\ helper' = [helper EXCEPT ![w] = IF @ = "wakes" THEN "waits" ELSE "gone"]
  /\ Broadcast
  /\ UNCHANGED <<now, mu, outputVs, callVs, cancelled, alarm>>

HelperBroadcast(w) ==
  /\ helper[w] \in {"wakes", "wakesLast"} /\ mu = None
  /\ helper' = [helper EXCEPT ![w] = IF @ = "wakes" THEN "waits" ELSE "gone"]
  /\ Broadcast
  /\ UNCHANGED <<now, mu, outputVs, callVs, cancelled, alarm>>

(* <-stop                                                                   *)
HelperStops(w) ==
  /\ helper[w] = "waits" /\ stage[w] = "done"
  /\ helper' = [helper EXCEPT ![w] = "gone"]
  /\ UNCHANGED <<now, mu, outputVs, stage, callVs, cancelled, alarm>>

-----------------------------------------------------------------------------
CallSome(w) == \E a \in Asks(w) : CallText(w, a) \/ CallStable(w, a)
Proceed(w)  == Park(w) \/ WakeText(w) \/ WakeStable(w)
Help(w)    == TimerFires(w) \/ ContextDone(w) \/ HelperBroadcast(w) \/ HelperStops(w)

(* Every wait is over and nothing is left to happen to the pump.            *)
WaitsOver ==
  /\ \A w \in Waiters : stage[w] = "done" /\ helper[w] \in {"none", "gone"}
  /\ UNCHANGED waitVars

WaitNext ==
  \/ Feed \/ Resize \/ Close \/ Tick
  \/ \E w \in Waiters : CallSome(w) \/ Proceed(w) \/ Cancel(w) \/ Help(w)
  \/ WaitsOver

(* Time passes, goroutines that can run do, and sync.Mutex serves a starving*)
(* waiter; nobody owes any output, close or cancellation.                   *)
WaitFairness ==
  WF_waitVars(Tick) /\ \A w \in Waiters : WF_waitVars(Proceed(w)) /\ WF_waitVars(Help(w))

WaitSpec == WaitInit /\ [][WaitNext]_waitVars
FairWaitSpec == WaitSpec /\ WaitFairness

-----------------------------------------------------------------------------
(* An alarm is never later than the deadline (one tick for a text wait).    *)
WaitTypeOK ==
  /\ now \in Nat /\ mu \in Waiters \cup {None} /\ version \in Nat
  /\ lastFeed \in Nat \cup {NoTime} /\ closed \in BOOLEAN /\ changes \in 0..MaxChanges
  /\ changed \in Nat \cup {NoTime} /\ cancelled \subseteq Waiters
  /\ DOMAIN ask = Waiters /\ deadline \in [Waiters -> Nat]
  /\ stage \in [Waiters -> {"idle", "parking", "parked", "woken", "done"}]
  /\ previous \in [Waiters -> 0..version \cup {NoScreen} \cup (IF Reverts THEN 0..1 ELSE {})]
  /\ lastChange \in [Waiters -> 0..now \cup {NoTime}]
  /\ helper \in [Waiters -> {"none", "waits", "wakes", "wakesLast", "gone"}]
  /\ answer \in [Waiters -> {"none", "ok", "timeout", "closed", "cancelled"}]
  /\ \A w \in Waiters :
       alarm[w] \in NoTime..(IF ask[w].kind = "text" THEN deadline[w] + 1 ELSE deadline[w])
  /\ \A w \in Waiters : stage[w] = "parking" <=> mu = w

(* w returns with a in this step.                                           *)
Answers(w, a) == answer[w] # a /\ answer'[w] = a
Asked(w) == ask'[w]

(* A stable wait that succeeds while the pump is open has seen output, and  *)
(* no output has changed what it watches for the quiet window.  (pump.go:   *)
(* 449, 523-537: the window is measured from the last output, or from       *)
(* the last look that saw a change.)                                        *)
StableMeansQuiet ==
  [][\A w \in Waiters : Answers(w, "ok") /\ Asked(w).kind # "text" /\ ~closed
       => lastFeed # NoTime /\ changed + Asked(w).quiet <= now]_waitVars

(* An answer other than success is never given while the success it asked   *)
(* for stands on the screen: the last output counts, also when the deadline *)
(* and the end of the output arrive together (pump.go:388-402, 473-479).    *)
NoSuccessMissed ==
  [][\A w \in Waiters :
       /\ Answers(w, "closed") => closed /\ ~Shown
       /\ Answers(w, "timeout") =>
            /\ now >= deadline[w]
            /\ CASE Asked(w).kind = "text"   -> ~Shown /\ ~closed
                 [] Asked(w).kind = "stable" -> ~QuietSince(lastFeed, Asked(w))
                 [] OTHER                  -> TRUE]_waitVars

(* Every wait returns, since no broadcast of its timer falls between its    *)
(* look and its sleep, and it leaves no goroutine behind.                   *)
WaitReturns ==
  \A w \in Waiters : stage[w] # "idle" ~> stage[w] = "done" /\ helper[w] \in {"none", "gone"}

(* Waits are served: no alarm is later than its deadline, nobody looks      *)
(* without the mutex, and every wait returns.                               *)
WaitsAreServed == []WaitTypeOK /\ WaitReturns

-----------------------------------------------------------------------------
(* What a comment of the repository says and the code does not.             *)

(* pump.go:483-484: WaitStableExcept waits for the screen outside the       *)
(* excluded rectangles "to remain unchanged for quietFor".                  *)
ExceptSeesChanges ==
  [][\A w \in Waiters : Answers(w, "ok") /\ Asked(w).kind = "except" /\ ~closed
       => changed + Asked(w).quiet <= now]_waitVars
=============================================================================
