--------------------------- MODULE CommandChannel ---------------------------
(* substrate/runtime/cross-process/command-channel and cli/wirings/up-ipc.ts: *)
(* publishers append commands to one file and tail another for the reply;     *)
(* each `devstack up` tails the commands, runs them one by one and appends    *)
(* replies and engine events.  It does so before its roster claim tells it    *)
(* whether another `up` supervises the stack.  Appends are serialized by a    *)
(* lock; a writer may die, or its append fail, with half a record written.    *)
EXTENDS Naturals, Sequences, FiniteSets

CONSTANTS
  Publishers,  \* one command each
  Captures,    \* those that send snapshot.capture
  Mortal,      \* those that may be killed in the middle of their append
  Hasty,       \* those that may time out
  Ups,         \* BOUND: the processes of `devstack up`, over time
  None,
  MaxTroubles  \* BOUND on failing appends and ends of an `up` not refused

(* The two fibers of an `up` that append: consumeCommands and the tee of the  *)
(* engine events into publishEvent.                                           *)
Consumer(u) == <<"consumer", u>>
Router(u) == <<"router", u>>
Fibers == {"consumer", "router"} \X Ups
Writers == Publishers \cup Fibers

ASSUME ChannelAssumption ==
  /\ Captures \subseteq Publishers
  /\ Mortal \subseteq Publishers /\ Hasty \subseteq Publishers
  /\ Publishers \cap Fibers = {} /\ None \notin Writers
  /\ MaxTroubles \in Nat

VARIABLES
  commands, events,  \* the two files: sequences of half records
  writer,            \* who is in the middle of an append, under the lock
  stage,             \* where each publisher is
  from,              \* fromOffset of each publisher, 0 when it is no longer used
  answer,            \* what awaitCompletion returned
  up,                \* each `up`: a record of the fields of NewUp
  addressed,         \* history: who tailed the commands when each was appended
  ran, worked,       \* history: where each command ran, where it succeeded
  faults, deaths     \* append failures and ends of an `up` so far

files == <<commands, events, writer>>
publisherVars == <<stage, from, answer>>
history == <<addressed, ran, worked>>
bounds == <<faults, deaths>>
vars == <<files, publisherVars, up, history, bounds>>

(* An `up` before it has installed the bridge.                                *)
NewUp ==
  [mode |-> "new",      \* then tailing, or pausing after a failure, then down
   claim |-> "none",    \* then held, or gone: refused, or released in an exit
   pos |-> 0,           \* TailState of its command tail: the offset,
   partial |-> <<>>,    \* and the line it has not seen the end of
   batch |-> <<>>,      \* decoded commands not yet handled
   doing |-> "idle",    \* what consumeCommands does with the first of them
   pending |-> {},      \* pendingCaptures
   hub |-> <<>>,        \* engine events of captures not yet teed
   routing |-> "event"] \* what publishEvent appends for the first of them

(* A record is two halves, the second of which ends with the newline.         *)
Half == {"head", "tail"}
IsEnd(h) == h[2] = "tail"

Init ==
  /\ commands = <<>> /\ events = <<>> /\ writer = None
  /\ stage = [p \in Publishers |-> "new"]
  /\ from = [p \in Publishers |-> 0]
  /\ answer = [p \in Publishers |-> "nothing"]
  /\ up = [u \in Ups |-> NewUp]
  /\ addressed = [p \in Publishers |-> {}]
  /\ ran = [p \in Publishers |-> {}]
  /\ worked = [p \in Publishers |-> {}]
  /\ faults = 0 /\ deaths = 0

-----------------------------------------------------------------------------
(* Lines of a sequence of halves: a line decodes iff it is one whole record.  *)
Ends(s) == {i \in DOMAIN s : IsEnd(s[i])}
IsRecord(s, i) ==
  /\ i > 1 /\ s[i - 1] = <<s[i][1], "head">>
  /\ i > 2 => IsEnd(s[i - 2])
Records(s) == {s[i][1] : i \in {j \in Ends(s) : IsRecord(s, j)}}
After(s, offset) == SubSeq(s, offset + 1, Len(s))

(* The lists of the ends of the lines of s in their order: there is just one. *)
LineEnds(s) ==
  {lines \in [1 .. Cardinality(Ends(s)) -> Ends(s)] :
     \A j, k \in DOMAIN lines : j < k => lines[j] < lines[k]}

-----------------------------------------------------------------------------
Running(u) == up[u].mode \in {"tail", "pause"}
Tailing == {u \in Ups : Running(u)}
Current(u) == Head(up[u].batch)

(* What each writer has to append: publishers their command, the consumer its *)
(* reply, publishEvent the engine event and then the deferred reply.  Only an *)
(* `up` that holds the claim tees its events; until then they are queued.     *)
Wants(w) ==
  \/ w \in Publishers /\ stage[w] = "ready"
  \/ /\ w \in Fibers /\ w[1] = "consumer"
     /\ up[w[2]].doing \in {"ack", "error"}
  \/ /\ w \in Fibers /\ w[1] = "router"
     /\ up[w[2]].claim = "held" /\ up[w[2]].hub # <<>>

(* The reply deferred to an engine event of the capture of p.                 *)
Deferred(event) == <<IF event[1] = "captured" THEN "ack" ELSE "error", event[2]>>
Reply(w) ==
  LET b == up[w[2]]
  IN IF w[1] = "consumer" THEN <<b.doing, Head(b.batch)>>
     ELSE IF b.routing = "event" THEN Head(b.hub) ELSE Deferred(Head(b.hub))

Put(w, half) ==
  IF w \in Publishers
  THEN commands' = Append(commands, <<w, half>>) /\ UNCHANGED events
  ELSE events' = Append(events, <<Reply(w), half>>) /\ UNCHANGED commands

(* publishEvent drains the pending capture once its event is out, or lost.    *)
RouteOn(u) ==
  LET p == Head(up[u].hub)[2]
  IN IF up[u].routing = "event" /\ p \in up[u].pending
     THEN up' = [up EXCEPT ![u].routing = "reply", ![u].pending = @ \ {p}]
     ELSE up' = [up EXCEPT ![u].routing = "event", ![u].hub = Tail(@)]

Handled(u) == up' = [up EXCEPT ![u].doing = "idle", ![u].batch = Tail(@)]

Appended(w) ==
  \/ /\ w \in Publishers
     /\ stage' = [stage EXCEPT ![w] = "waiting"]
     /\ UNCHANGED <<from, answer, up>>
  \/ w \in Fibers /\ w[1] = "consumer" /\ Handled(w[2]) /\ UNCHANGED publisherVars
  \/ w \in Fibers /\ w[1] = "router" /\ RouteOn(w[2]) /\ UNCHANGED publisherVars

(* An ack that cannot be appended is caught like a failing command.           *)
NotAppended(w) ==
  \/ /\ w \in Publishers
     /\ stage' = [stage EXCEPT ![w] = "over"]
     /\ answer' = [answer EXCEPT ![w] = "unsent"]
     /\ from' = [from EXCEPT ![w] = 0]
     /\ UNCHANGED up
  \/ /\ w \in Fibers /\ w[1] = "consumer" /\ UNCHANGED publisherVars
     /\ IF up[w[2]].doing = "ack" THEN up' = [up EXCEPT ![w[2]].doing = "error"]
        ELSE Handled(w[2])
  \/ w \in Fibers /\ w[1] = "router" /\ RouteOn(w[2]) /\ UNCHANGED publisherVars

BeginAppend(w) ==
  /\ Wants(w) /\ writer = None
  /\ writer' = w
  /\ Put(w, "head")
  /\ IF w \in Publishers
     THEN /\ stage' = [stage EXCEPT ![w] = "writing"]
          /\ addressed' = [addressed EXCEPT ![w] = Tailing]
     ELSE UNCHANGED <<stage, addressed>>
  /\ UNCHANGED <<from, answer, up, ran, worked, bounds>>

EndAppend(w) ==
  /\ writer = w
  /\ writer' = None
  /\ Put(w, "tail")
  /\ Appended(w)
  /\ UNCHANGED <<history, bounds>>

(* The lock times out, or the write fails with nothing or half of it done.    *)
FailAppend(w) ==
  /\ (Wants(w) /\ writer = None) \/ writer = w
  /\ faults + deaths < MaxTroubles /\ faults' = faults + 1
  /\ writer' = None
  /\ NotAppended(w)
  /\ UNCHANGED <<commands, events, history, deaths>>

-----------------------------------------------------------------------------
(* publish takes the size of the events file before it appends.               *)
TakeOffset(p) ==
  /\ stage[p] = "new"
  /\ stage' = [stage EXCEPT ![p] = "ready"]
  /\ from' = [from EXCEPT ![p] = Len(events)]
  /\ UNCHANGED <<files, answer, up, history, bounds>>

Finish(p, a) ==
  /\ stage[p] = "waiting"
  /\ stage' = [stage EXCEPT ![p] = "over"]
  /\ answer' = [answer EXCEPT ![p] = a]
  /\ from' = [from EXCEPT ![p] = 0]
  /\ UNCHANGED <<files, up, history, bounds>>

(* Mutant: the reader discards everything up to the first newline.            *)
VisibleAligned(p) ==
  LET rest == After(events, from[p])
  IN IF Ends(rest) = {} THEN {}
     ELSE Records(After(rest, CHOOSE i \in Ends(rest) : \A j \in Ends(rest) : i <= j))

(* findReply skips what does not decode.                                      *)
Visible(p) == Records(After(events, from[p]))
SeeReply(p) ==
  \/ <<"ack", p>> \in Visible(p) /\ Finish(p, "done")
  \/ <<"error", p>> \in Visible(p) /\ Finish(p, "failed")
TimeOut(p) == p \in Hasty /\ Finish(p, "unknown")

-----------------------------------------------------------------------------
(* An `up` installs the bridge and tails the commands from the current end.   *)
(* Mutant: the default of tailRecords, "start".                               *)
AnchorAtStart(u) ==
  up' = [up EXCEPT ![u].mode = "tail", ![u].pos = 0, ![u].partial = <<>>]

Anchor(u) ==
  up' = [up EXCEPT ![u].mode = "tail", ![u].pos = Len(commands), ![u].partial = <<>>]

Boot(u) ==
  /\ up[u].mode = "new"
  /\ Anchor(u)
  /\ UNCHANGED <<files, publisherVars, history, bounds>>

(* The bridge runs before the claim is made.  An `up` that is not the sole    *)
(* holder fails, and so closes its scope; until then its tail goes on.        *)
Claim(u) ==
  /\ Running(u) /\ up[u].claim = "none"
  /\ \/ /\ \A v \in Ups : up[v].claim # "held"
        /\ up' = [up EXCEPT ![u].claim = "held"]
     \/ /\ \E v \in Ups : up[v].claim # "none"
        /\ up' = [up EXCEPT ![u].claim = "gone"]
  /\ UNCHANGED <<files, publisherVars, history, bounds>>

(* drainNewLines may read short.  One line that does not decode fails the     *)
(* tail, and the lines read with it are dropped.                              *)
Poll(u) ==
  /\ up[u].mode = "tail" /\ up[u].batch = <<>>
  /\ \E end \in up[u].pos + 1 .. Len(commands) :
       LET chunk == up[u].partial \o SubSeq(commands, up[u].pos + 1, end)
           clean == \A i \in Ends(chunk) : IsRecord(chunk, i)
       IN \E last \in {0} \cup Ends(chunk), lines \in LineEnds(chunk) :
            /\ \A i \in Ends(chunk) : i <= last
            /\ up' = [up EXCEPT
                 ![u].pos = end,
                 ![u].partial = After(chunk, last),
                 ![u].mode = IF clean THEN "tail" ELSE "pause",
                 ![u].batch = IF clean THEN [k \in DOMAIN lines |-> chunk[lines[k]][1]]
                              ELSE <<>>]
  /\ UNCHANGED <<files, publisherVars, history, bounds>>

(* consumeCommands subscribes again 200 ms after the failure.                 *)
Resume(u) ==
  /\ up[u].mode = "pause"
  /\ Anchor(u)
  /\ UNCHANGED <<files, publisherVars, history, bounds>>

(* runCommand submits the command and awaits its end, a capture registered    *)
(* first.                                                                     *)
Submit(u) ==
  /\ ran' = [ran EXCEPT ![Current(u)] = @ \cup {u}]
  /\ up' = [up EXCEPT ![u].doing = "run", ![u].pending = @ \cup ({Current(u)} \cap Captures)]

(* A payload that is no EngineCommand is refused.                             *)
Take(u) ==
  /\ up[u].mode = "tail" /\ up[u].batch # <<>> /\ up[u].doing = "idle"
  /\ \/ Submit(u)
     \/ /\ Current(u) \notin Captures
        /\ up' = [up EXCEPT ![u].doing = "error"] /\ UNCHANGED ran
  /\ UNCHANGED <<files, publisherVars, addressed, worked, bounds>>

Works(u) == worked' = [worked EXCEPT ![Current(u)] = @ \cup {u}]

CommandEnds(u) ==
  /\ up[u].doing = "run" /\ Current(u) \notin Captures
  /\ \/ Works(u) /\ up' = [up EXCEPT ![u].doing = "ack"]
     \/ up' = [up EXCEPT ![u].doing = "error"] /\ UNCHANGED worked
  /\ UNCHANGED <<files, publisherVars, addressed, ran, bounds>>

(* The capture itself ends, with an engine event; the stack is started again. *)
CaptureEnds(u) ==
  /\ up[u].doing = "run" /\ Current(u) \in Captures
  /\ \E event \in {"captured", "captureFailed"} :
       /\ up' = [up EXCEPT ![u].doing = "converge",
                           ![u].hub = Append(@, <<event, Current(u)>>)]
       /\ IF event = "captured" THEN Works(u) ELSE UNCHANGED worked
  /\ UNCHANGED <<files, publisherVars, addressed, ran, bounds>>

(* Mutant: the failure is left to publishEvent, though no longer pending.     *)
DrainOnly(u) ==
  up' = [up EXCEPT ![u].doing = "idle", ![u].batch = Tail(@),
                   ![u].pending = @ \ {Current(u)}]

(* The catchCause of a capture.                                               *)
Drain(u) == up' = [up EXCEPT ![u].doing = "error", ![u].pending = @ \ {Current(u)}]

(* Then its runCommand returns, or fails: after a failed capture in any case. *)
CaptureReturns(u) ==
  /\ up[u].doing = "converge"
  /\ (u \in worked[Current(u)] /\ Handled(u)) \/ Drain(u)
  /\ UNCHANGED <<files, publisherVars, history, bounds>>

-----------------------------------------------------------------------------
(* Elsewhere a killed publisher is one that never goes on, or gives up.       *)
KillPublisher(p) ==
  /\ writer = p /\ p \in Mortal
  /\ writer' = None
  /\ stage' = [stage EXCEPT ![p] = "over"]
  /\ from' = [from EXCEPT ![p] = 0]
  /\ UNCHANGED <<commands, events, answer, up, history, bounds>>

(* An orderly exit ends the tee and releases the claim before the tail ends.  *)
Leave(u) ==
  /\ up[u].claim = "held" /\ writer # Router(u)
  /\ faults + deaths < MaxTroubles /\ deaths' = deaths + 1
  /\ up' = [up EXCEPT ![u].claim = "gone"]
  /\ UNCHANGED <<files, publisherVars, history, faults>>

(* Killed, or the end of an orderly exit or of one that was refused.          *)
End(u) ==
  /\ Running(u)
  /\ \/ up[u].claim = "gone" /\ UNCHANGED deaths
     \/ faults + deaths < MaxTroubles /\ deaths' = deaths + 1
  /\ writer' = IF writer \in {Consumer(u), Router(u)} THEN None ELSE writer
  /\ up' = [up EXCEPT ![u] = [NewUp EXCEPT !.mode = "down"]]
  /\ UNCHANGED <<commands, events, publisherVars, history, faults>>

Consume(u) ==
  Poll(u) \/ Resume(u) \/ Take(u) \/ CommandEnds(u) \/ CaptureEnds(u) \/ CaptureReturns(u)
Next ==
  \/ \E w \in Writers : BeginAppend(w) \/ EndAppend(w) \/ FailAppend(w)
  \/ \E p \in Publishers : TakeOffset(p) \/ SeeReply(p) \/ TimeOut(p) \/ KillPublisher(p)
  \/ \E u \in Ups : Boot(u) \/ Claim(u) \/ Consume(u) \/ Leave(u) \/ End(u)

Spec == Init /\ [][Next]_vars

(* The fibers of an `up` run, commands and captures end, and whoever is in    *)
(* the middle of an append ends it or dies; nobody is forced to publish, to   *)
(* look for a reply before the time-out, to boot or to claim.                 *)
FinishAppend == \/ \E w \in Writers : EndAppend(w)
                \/ \E p \in Publishers : KillPublisher(p)
Fairness ==
  /\ \A u \in Ups : WF_vars(Consume(u))
  /\ WF_vars(\E w \in Fibers : BeginAppend(w))
  /\ WF_vars(FinishAppend)
FairSpec == Spec /\ Fairness

-----------------------------------------------------------------------------
(* The channel implements RequestReply: over restarts, re-subscriptions and   *)
(* torn records a command runs at most once in each `up`, and only in those   *)
(* that tailed the commands when it was appended - so at most once, unless a  *)
(* second `up` had come that far; never after its publish failed; and "done"  *)
(* is told of commands that succeeded only, a capture when it was captured.   *)
Promise == INSTANCE RequestReply WITH
             listening <- Tailing,
             sent <- {p \in Publishers : stage[p] \notin {"new", "ready"}},
             told <- answer
ImplementsRequestReply == Promise!Spec

(* "a tail from this offset cannot miss the reply" (channel.ts:129): a reply  *)
(* that a reader of the whole file finds, its waiting publisher finds too.    *)
Replies(p) == {<<"ack", p>>, <<"error", p>>}
ReplyIsNotMissed ==
  \A p \in Publishers :
    stage[p] = "waiting" => Replies(p) \cap Records(events) \subseteq Visible(p)

(* "We defer ack/fail until the matching snapshot.captured /                   *)
(* snapshot.captureFailed [...] event flows through publishEvent"             *)
(* (up-ipc.ts:157): where nothing fails to be appended, a capture that ran is *)
(* answered after its engine event by an `up` that holds its claim.  No run   *)
(* checks it: it does not hold, as the catchCause may answer first.           *)
CaptureEvents(p) == {<<"captured", p>>, <<"captureFailed", p>>}
Supervised(p) == ran[p] # {} /\ \A u \in ran[p] : up[u].claim = "held"
RepliesAreDeferred ==
  \A p \in Captures, i \in DOMAIN events :
    Supervised(p) /\ faults = 0 /\ events[i][1] \in Replies(p) =>
      \E x \in CaptureEvents(p), j \in 1 .. i : events[j] = <<x, "tail">>

(* A command that lies before the tail of an `up` is run there or refused,    *)
(* unless the tail fails first; and what the `up` that holds the claim has in *)
(* hand is answered, a capture that fails or whose stack does not start again *)
(* too, unless the `up` goes away or appends fail.                            *)
Ahead(u, p) == up[u].mode = "tail" /\ p \in Records(up[u].partial \o After(commands, up[u].pos))
InHand(u, p) == p \in up[u].pending \/ (up[u].doing # "idle" /\ p = Current(u))
Answered(p) == \E x \in Replies(p), i \in DOMAIN events : events[i] = <<x, "tail">>
EveryCommandIsAnswered ==
  \A u \in Ups, p \in Publishers :
    /\ Ahead(u, p) ~> (u \in ran[p] \/ Answered(p) \/ up[u].mode # "tail" \/ faults # 0)
    /\ (InHand(u, p) /\ up[u].claim = "held")
         ~> (Answered(p) \/ up[u].claim # "held" \/ faults # 0)
=============================================================================
