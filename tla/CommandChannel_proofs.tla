----------------------- MODULE CommandChannel_proofs -----------------------
(* Proofs about CommandChannel, for any publishers, captures, `up`s and       *)
(* bounds.  The invariant follows one command through the file and through    *)
(* each `up`: the last half of its record stands in the file at most once;    *)
(* what an `up` ran lies behind its tail, what it has in its batch it did not *)
(* run yet; what lies beyond the tail was addressed to it; and a reply comes  *)
(* after the offset its publisher took.                                       *)
EXTENDS CommandChannel, FiniteSetTheorems, SequenceTheorems, TLAPS

(* A half of a command, and a half of what goes to the events.                *)
CommandHalf == Publishers \X Half
EngineEvent == {"captured", "captureFailed"} \X Publishers
EventHalf == (({"ack", "error"} \X Publishers) \cup EngineEvent) \X Half

Bridge ==
  [mode : {"new", "tail", "pause", "down"}, claim : {"none", "held", "gone"},
   pos : Nat, partial : Seq(CommandHalf), batch : Seq(Publishers),
   doing : {"idle", "run", "converge", "ack", "error"}, pending : SUBSET Captures,
   hub : Seq(EngineEvent), routing : {"event", "reply"}]

TypeOK ==
  /\ commands \in Seq(CommandHalf)
  /\ events \in Seq(EventHalf)
  /\ writer \in Writers \cup {None}
  /\ stage \in [Publishers -> {"new", "ready", "writing", "waiting", "over"}]
  /\ from \in [Publishers -> Nat]
  /\ answer \in [Publishers -> {"nothing", "done", "failed", "unknown", "unsent"}]
  /\ up \in [Ups -> Bridge]
  /\ addressed \in [Publishers -> SUBSET Ups]
  /\ ran \in [Publishers -> SUBSET Ups]
  /\ worked \in [Publishers -> SUBSET Ups]
  /\ faults \in Nat /\ deaths \in Nat

(* A command whose last half is in the file was sent, once, and its publisher *)
(* is not told otherwise.                                                     *)
Begun(p, i) == i \in DOMAIN commands /\ commands[i] = <<p, "head">>
Sent(p, i) == i \in DOMAIN commands /\ commands[i] = <<p, "tail">>
SentInv ==
  /\ \A p \in Publishers, i, j \in Nat : Sent(p, i) /\ Sent(p, j) => i = j
  /\ \A p \in Publishers, i \in Nat :
       Sent(p, i) => stage[p] \in {"waiting", "over"} /\ answer[p] # "unsent"
  /\ \A p \in Publishers : stage[p] # "over" => answer[p] = "nothing"
  /\ \A p \in Publishers : writer = p => stage[p] = "writing"

(* What was run, or is about to be, lies behind the tail.                     *)
Behind(u, p) == \E i \in Nat : Sent(p, i) /\ (Running(u) => i <= up[u].pos)
TailInv(u) ==
  /\ Running(u) => up[u].pos <= Len(commands)
  /\ \A i \in DOMAIN up[u].partial : ~IsEnd(up[u].partial[i])
  /\ \A p \in Publishers : u \in ran[p] => Behind(u, p)

(* What an `up` has not read yet, or has read half of, was begun while its    *)
(* tail stood before it.                                                      *)
AddressedInv(u) ==
  Running(u) =>
    /\ \A p \in Publishers, i \in Nat : i > up[u].pos /\ Begun(p, i) => u \in addressed[p]
    /\ \A i \in DOMAIN up[u].partial :
         up[u].partial[i][2] = "head" => u \in addressed[up[u].partial[i][1]]

(* Only the command in hand may have been run already.                        *)
BatchInv(u) ==
  /\ up[u].batch # <<>> => up[u].mode = "tail"
  /\ \A k \in DOMAIN up[u].batch :
       Behind(u, up[u].batch[k]) /\ u \in addressed[up[u].batch[k]]
  /\ \A j, k \in DOMAIN up[u].batch : up[u].batch[j] = up[u].batch[k] => j = k
  /\ \A k \in DOMAIN up[u].batch : k > 1 \/ up[u].doing = "idle" => u \notin ran[up[u].batch[k]]

LoopInv(u) ==
  /\ up[u].doing # "idle" => up[u].batch # <<>>
  /\ up[u].doing \in {"run", "converge"} => u \in ran[up[u].batch[1]]
  /\ up[u].doing = "run" => u \notin worked[up[u].batch[1]]
  /\ up[u].doing = "ack" => u \in worked[up[u].batch[1]]
  /\ writer = Consumer(u) => up[u].doing \in {"ack", "error"}

RouteInv(u) ==
  /\ \A k \in DOMAIN up[u].hub :
       /\ u \in ran[up[u].hub[k][2]]
       /\ up[u].hub[k][1] = "captured" => u \in worked[up[u].hub[k][2]]
  /\ writer = Router(u) => up[u].hub # <<>> /\ up[u].claim = "held"
  /\ \A p \in Publishers : u \in worked[p] => u \in ran[p]

UpInv(u) == TailInv(u) /\ AddressedInv(u) /\ BatchInv(u) /\ LoopInv(u) /\ RouteInv(u)

(* Replies are honest and come after the offset their publisher took.         *)
ReplyInv ==
  /\ \A p \in Publishers : from[p] <= Len(events)
  /\ \A p \in Publishers, i \in DOMAIN events :
       /\ events[i][1] = <<"ack", p>> => worked[p] # {}
       /\ events[i][1] \in Replies(p) => /\ stage[p] \in {"waiting", "over"}
                                         /\ stage[p] = "waiting" => i > from[p]

ChannelInv == TypeOK /\ SentInv /\ (\A u \in Ups : UpInv(u)) /\ ReplyInv

-----------------------------------------------------------------------------
(* What two half records are, and who writes.                                 *)
LEMMA HalvesDiffer == "head" \in Half /\ "tail" \in Half /\ "head" # "tail"
BY DEF Half

LEMMA FibersAre ==
  /\ \A w \in Fibers : /\ w[2] \in Ups /\ w \notin Publishers /\ w # None /\ w \in Writers
                       /\ \/ w[1] = "consumer" /\ w = Consumer(w[2])
                          \/ w[1] = "router" /\ w = Router(w[2])
  /\ \A u \in Ups : Consumer(u) \in Fibers /\ Router(u) \in Fibers
  /\ \A u, v : Consumer(u) = Consumer(v) \/ Router(u) = Router(v) => u = v
  /\ \A u, v : Consumer(u) # Router(v)
  /\ \A u : /\ Consumer(u)[1] = "consumer" /\ Consumer(u)[2] = u
            /\ Router(u)[1] = "router" /\ Router(u)[2] = u
  /\ \A p \in Publishers : p # None /\ p \in Writers /\ p \notin Fibers
BY ChannelAssumption DEF Fibers, Writers, Consumer, Router

(* Half a command is added to the commands.                                   *)
LEMMA PutCommand ==
  ASSUME commands \in Seq(CommandHalf), NEW w \in Publishers, NEW half \in Half,
         commands' = Append(commands, <<w, half>>)
  PROVE  /\ commands' \in Seq(CommandHalf) /\ Len(commands') = Len(commands) + 1
         /\ \A p, i : Sent(p, i) => Sent(p, i)'
         /\ \A p, i : Sent(p, i)' =>
               Sent(p, i) \/ (half = "tail" /\ p = w /\ i = Len(commands) + 1)
         /\ \A p, i : Begun(p, i)' => Begun(p, i) \/ (half = "head" /\ p = w)
<1>1. <<w, half>> \in CommandHalf
  BY DEF CommandHalf
<1>2. /\ commands' \in Seq(CommandHalf) /\ Len(commands') = Len(commands) + 1
      /\ DOMAIN commands' = 1 .. Len(commands) + 1 /\ DOMAIN commands = 1 .. Len(commands)
      /\ Len(commands) \in Nat
      /\ \A i \in 1 .. Len(commands) : commands'[i] = commands[i]
      /\ commands'[Len(commands) + 1] = <<w, half>>
  BY <1>1
<1>3. ASSUME NEW p, NEW i, Sent(p, i)
      PROVE  Sent(p, i)'
  BY <1>2, <1>3 DEF Sent
<1>4. ASSUME NEW p, NEW i, Sent(p, i)'
      PROVE  Sent(p, i) \/ (half = "tail" /\ p = w /\ i = Len(commands) + 1)
  <2>1. CASE i \in 1 .. Len(commands)
    BY <1>2, <1>4, <2>1 DEF Sent
  <2>2. CASE i = Len(commands) + 1
    BY <1>2, <1>4, <2>2 DEF Sent
  <2>. QED
    BY <1>2, <1>4, <2>1, <2>2 DEF Sent
<1>5. ASSUME NEW p, NEW i, Begun(p, i)'
      PROVE  Begun(p, i) \/ (half = "head" /\ p = w)
  <2>1. CASE i \in 1 .. Len(commands)
    BY <1>2, <1>5, <2>1 DEF Begun
  <2>2. CASE i = Len(commands) + 1
    BY <1>2, <1>5, <2>2 DEF Begun
  <2>. QED
    BY <1>2, <1>5, <2>1, <2>2 DEF Begun
<1>. QED
  BY <1>2, <1>3, <1>4, <1>5

(* Half a reply or engine event is added to the events.                       *)
LEMMA PutEvent ==
  ASSUME events \in Seq(EventHalf), NEW x,
         x \in ({"ack", "error"} \X Publishers) \cup EngineEvent,
         NEW half \in Half, events' = Append(events, <<x, half>>)
  PROVE  /\ events' \in Seq(EventHalf) /\ Len(events') = Len(events) + 1
         /\ \A i \in DOMAIN events' : \/ (i \in DOMAIN events /\ events'[i] = events[i])
                                      \/ (i = Len(events) + 1 /\ events'[i] = <<x, half>>)
<1>1. <<x, half>> \in EventHalf
  BY DEF EventHalf
<1>. QED
  BY <1>1

(* The command in hand is one publisher's.                                    *)
LEMMA InHandIsFirst ==
  ASSUME ChannelInv, NEW u \in Ups, up[u].batch # <<>>
  PROVE  /\ Current(u) \in Publishers /\ Current(u) = up[u].batch[1] /\ 1 \in DOMAIN up[u].batch
         /\ up[u].mode = "tail" /\ Running(u) /\ Behind(u, Current(u))
         /\ u \in addressed[Current(u)]
         /\ stage[Current(u)] \in {"waiting", "over"} /\ answer[Current(u)] # "unsent"
         /\ up[u].doing = "idle" => u \notin ran[Current(u)]
<1>1. up[u].batch \in Seq(Publishers)
  BY DEF ChannelInv, TypeOK, Bridge
<1>2. Current(u) \in Publishers /\ Current(u) = up[u].batch[1] /\ 1 \in DOMAIN up[u].batch
  BY <1>1 DEF Current
<1>3. UpInv(u) /\ SentInv
  BY DEF ChannelInv
<1>4. /\ up[u].mode = "tail" /\ Running(u) /\ Behind(u, Current(u))
      /\ u \in addressed[Current(u)] /\ (up[u].doing = "idle" => u \notin ran[Current(u)])
  BY <1>2, <1>3 DEF UpInv, BatchInv, Running
<1>. QED
  BY <1>2, <1>3, <1>4 DEF SentInv, Behind

(* The first event of the hub is about a command that ran.                    *)
LEMMA FirstOfHub ==
  ASSUME ChannelInv, NEW u \in Ups, up[u].hub # <<>>
  PROVE  /\ Head(up[u].hub) \in EngineEvent /\ Head(up[u].hub)[2] \in Publishers
         /\ Head(up[u].hub)[1] \in {"captured", "captureFailed"}
         /\ Head(up[u].hub)[1] = "captured" => u \in worked[Head(up[u].hub)[2]]
         /\ stage[Head(up[u].hub)[2]] \in {"waiting", "over"}
<1>1. up[u].hub \in Seq(EngineEvent)
  BY DEF ChannelInv, TypeOK, Bridge
<1>2. Head(up[u].hub) \in EngineEvent /\ Head(up[u].hub) = up[u].hub[1] /\ 1 \in DOMAIN up[u].hub
  BY <1>1
<1>3. /\ Head(up[u].hub)[2] \in Publishers
      /\ Head(up[u].hub)[1] \in {"captured", "captureFailed"}
  BY <1>2 DEF EngineEvent
<1>4. UpInv(u) /\ SentInv
  BY DEF ChannelInv
<1>5. /\ u \in ran[Head(up[u].hub)[2]]
      /\ Head(up[u].hub)[1] = "captured" => u \in worked[Head(up[u].hub)[2]]
  BY <1>2, <1>4 DEF UpInv, RouteInv
<1>6. Behind(u, Head(up[u].hub)[2])
  BY <1>3, <1>4, <1>5 DEF UpInv, TailInv
<1>. QED
  BY <1>2, <1>3, <1>4, <1>5, <1>6 DEF SentInv, Behind

(* What the consumer and the router append is a reply they may give.          *)
LEMMA ReplyFits ==
  ASSUME ChannelInv, NEW w \in Fibers, Wants(w)
  PROVE  /\ Reply(w) \in ({"ack", "error"} \X Publishers) \cup EngineEvent
         /\ \A p \in Publishers :
              /\ Reply(w) = <<"ack", p>> => worked[p] # {}
              /\ Reply(w) \in Replies(p) => stage[p] \in {"waiting", "over"}
<1>. DEFINE u == w[2]
<1>1. u \in Ups /\ w \notin Publishers /\ (w[1] = "consumer" \/ w[1] = "router")
  BY FibersAre
<1>2. UpInv(u)
  BY <1>1 DEF ChannelInv
<1>3. CASE w[1] = "consumer"
  <2>1. up[u].doing \in {"ack", "error"} /\ Reply(w) = <<up[u].doing, Current(u)>>
    BY <1>1, <1>3 DEF Wants, Reply, Current
  <2>2. up[u].batch # <<>>
    BY <1>2, <2>1 DEF UpInv, LoopInv
  <2>. HIDE DEF u
  <2>3. /\ Current(u) \in Publishers /\ stage[Current(u)] \in {"waiting", "over"}
        /\ Current(u) = up[u].batch[1]
    BY <1>1, <2>2, InHandIsFirst
  <2>4. up[u].doing = "ack" => u \in worked[Current(u)]
    BY <1>2, <2>3 DEF UpInv, LoopInv
  <2>. QED
    BY <2>1, <2>3, <2>4 DEF Replies
<1>4. CASE w[1] = "router"
  <2>1. up[u].hub # <<>>
    BY <1>1, <1>4 DEF Wants
  <2>2. Reply(w) = IF up[u].routing = "event" THEN Head(up[u].hub) ELSE Deferred(Head(up[u].hub))
    BY <1>4 DEF Reply
  <2>. HIDE DEF u
  <2>3. /\ Head(up[u].hub) \in EngineEvent /\ Head(up[u].hub)[2] \in Publishers
        /\ Head(up[u].hub)[1] \in {"captured", "captureFailed"}
        /\ Head(up[u].hub)[1] = "captured" => u \in worked[Head(up[u].hub)[2]]
        /\ stage[Head(up[u].hub)[2]] \in {"waiting", "over"}
    BY <1>1, <2>1, FirstOfHub
  <2>4. CASE up[u].routing = "event"
    <3>1. Reply(w) \in EngineEvent /\ Reply(w)[1] \in {"captured", "captureFailed"}
      BY <2>2, <2>3, <2>4
    <3>2. \A p : Reply(w) \notin Replies(p)
      BY <3>1 DEF Replies
    <3>3. \A p : Reply(w) # <<"ack", p>>
      BY <3>2 DEF Replies
    <3>. QED
      BY <3>1, <3>2, <3>3
  <2>5. CASE up[u].routing # "event"
    <3>1. Reply(w) = <<IF Head(up[u].hub)[1] = "captured" THEN "ack" ELSE "error", Head(up[u].hub)[2]>>
      BY <2>2, <2>5 DEF Deferred
    <3>. QED
      BY <2>3, <3>1 DEF Replies
  <2>. QED
    BY <2>4, <2>5
<1>. QED
  BY <1>1, <1>3, <1>4

LEMMA PutReply ==
  ASSUME ChannelInv, NEW w \in Fibers, Wants(w), NEW half \in Half, Put(w, half),
         UNCHANGED <<stage, from, worked>>
  PROVE  commands' = commands /\ events' \in Seq(EventHalf) /\ ReplyInv'
<1>. DEFINE x == Reply(w)
<1>1. /\ x \in ({"ack", "error"} \X Publishers) \cup EngineEvent
      /\ \A p \in Publishers : /\ x = <<"ack", p>> => worked[p] # {}
                               /\ x \in Replies(p) => stage[p] \in {"waiting", "over"}
  BY ReplyFits
<1>2. commands' = commands /\ events' = Append(events, <<x, half>>)
  BY FibersAre DEF Put
<1>. HIDE DEF x
<1>3. /\ events' \in Seq(EventHalf) /\ Len(events') = Len(events) + 1
      /\ \A i \in DOMAIN events' : \/ (i \in DOMAIN events /\ events'[i] = events[i])
                                   \/ (i = Len(events) + 1 /\ events'[i] = <<x, half>>)
  <2>1. events \in Seq(EventHalf)
    BY DEF ChannelInv, TypeOK
  <2>2. half \in Half
    OBVIOUS
  <2>. QED
    BY ONLY <1>1, <1>2, <2>1, <2>2, PutEvent
<1>4. Len(events) \in Nat
  BY DEF ChannelInv, TypeOK
<1>5. ASSUME NEW p \in Publishers
      PROVE  from'[p] <= Len(events')
  BY <1>3, <1>4 DEF ChannelInv, TypeOK, ReplyInv
<1>6. ASSUME NEW p \in Publishers, NEW i \in DOMAIN events'
      PROVE  /\ events'[i][1] = <<"ack", p>> => worked[p] # {}
             /\ events'[i][1] \in Replies(p) => /\ stage[p] \in {"waiting", "over"}
                                                /\ stage[p] = "waiting" => i > from[p]
  <2>1. CASE i \in DOMAIN events /\ events'[i] = events[i]
    BY <2>1 DEF ChannelInv, ReplyInv
  <2>2. CASE i = Len(events) + 1 /\ events'[i] = <<x, half>>
    <3>1. i > from[p]
      BY <1>4, <2>2 DEF ChannelInv, TypeOK, ReplyInv
    <3>2. events'[i][1] = x
      BY <2>2
    <3>3. ASSUME events'[i][1] = <<"ack", p>>
          PROVE  worked[p] # {}
      BY <1>1, <3>2, <3>3
    <3>4. ASSUME events'[i][1] \in Replies(p)
          PROVE  stage[p] \in {"waiting", "over"}
      <4>1. x \in Replies(p)
        BY <3>2, <3>4
      <4>. QED
        BY <1>1, <4>1
    <3>. QED
      BY <3>1, <3>3, <3>4
  <2>. QED
    BY <1>3, <2>1, <2>2
<1>7. stage' = stage /\ from' = from /\ worked' = worked
  OBVIOUS
<1>8. ReplyInv'
  BY <1>5, <1>6, <1>7 DEF ReplyInv, Replies
<1>. QED
  BY <1>2, <1>3, <1>8

(* The handled command is dropped, the others move up.                        *)
LEMMA DropFirst ==
  ASSUME NEW S, NEW s \in Seq(S), s # <<>>
  PROVE  /\ Tail(s) \in Seq(S) /\ Head(s) \in S /\ Head(s) = s[1] /\ 1 \in DOMAIN s
         /\ \A k \in DOMAIN Tail(s) : /\ k \in Nat /\ k >= 1
                                      /\ k + 1 \in DOMAIN s /\ Tail(s)[k] = s[k + 1]
  OBVIOUS

(* A step that leaves the commands alone.                                     *)
LEMMA FileSame ==
  ASSUME commands' = commands
  PROVE  /\ \A p, i : Sent(p, i)' <=> Sent(p, i)
         /\ \A p, i : Begun(p, i)' <=> Begun(p, i)
BY DEF Sent, Begun

(* Nothing is known less of an `up` that does not move because something is   *)
(* added to the commands, or another one ran a command.                       *)
LEMMA UpStays ==
  ASSUME NEW u \in Ups, UpInv(u), up'[u] = up[u],
         \A p, i : Sent(p, i) => Sent(p, i)', Len(commands) <= Len(commands'),
         Len(commands) \in Nat, Len(commands') \in Nat, up[u].pos \in Nat,
         up[u].batch \in Seq(Publishers), up[u].partial \in Seq(CommandHalf),
         up[u].hub \in Seq(EngineEvent),
         \A p \in Publishers : /\ u \in ran'[p] <=> u \in ran[p]
                               /\ u \in worked'[p] <=> u \in worked[p]
                               /\ u \in addressed[p] /\ Running(u) => u \in addressed'[p],
         \A p \in Publishers, i \in Nat :
            Begun(p, i)' => Begun(p, i) \/ (Running(u) => u \in addressed'[p]),
         writer' \in Publishers \cup {writer, None} \/ (Wants(writer') /\ writer' \in Fibers)
  PROVE  UpInv(u)'
<1>. USE DEF UpInv
<1>1. Running(u)' <=> Running(u)
  BY DEF Running
<1>2. \A p : Behind(u, p) => Behind(u, p)'
  BY <1>1 DEF Behind
<1>3. TailInv(u)'
  BY <1>1, <1>2 DEF TailInv
<1>4. AddressedInv(u)'
  <2>1. \A i \in DOMAIN up[u].partial : up[u].partial[i][1] \in Publishers
    BY DEF CommandHalf
  <2>. QED
    BY <1>1, <2>1 DEF AddressedInv
<1>5. \A k \in DOMAIN up[u].batch : up[u].batch[k] \in Publishers
  OBVIOUS
<1>6. BatchInv(u)'
  <2>1. up[u].batch # <<>> => Running(u)
    BY DEF BatchInv, Running
  <2>2. \A k \in DOMAIN up[u].batch : up[u].batch # <<>>
    OBVIOUS
  <2>. QED
    BY <1>2, <1>5, <2>1, <2>2 DEF BatchInv
<1>7. writer' = Consumer(u) => writer = Consumer(u) \/ up[u].doing \in {"ack", "error"}
  BY FibersAre DEF Wants
<1>8. writer' = Router(u) => writer = Router(u) \/ (up[u].hub # <<>> /\ up[u].claim = "held")
  BY FibersAre DEF Wants
<1>9. LoopInv(u)'
  <2>1. up[u].batch # <<>> => up[u].batch[1] \in Publishers
    OBVIOUS
  <2>. QED
    BY <1>7, <2>1 DEF LoopInv
<1>10. RouteInv(u)'
  <2>1. \A k \in DOMAIN up[u].hub : up[u].hub[k][2] \in Publishers
    BY DEF EngineEvent
  <2>. QED
    BY <1>8, <2>1 DEF RouteInv
<1>. QED
  BY <1>3, <1>4, <1>6, <1>9, <1>10

-----------------------------------------------------------------------------
(* The invariant holds initially, and every action keeps it.                  *)
LEMMA InitHolds == Init => ChannelInv
<1>. SUFFICES ASSUME Init PROVE ChannelInv
  OBVIOUS
<1>. USE DEF Init
<1>1. NewUp \in Bridge
  BY DEF NewUp, Bridge
<1>2. TypeOK
  BY <1>1, ChannelAssumption DEF TypeOK
<1>3. (\A p, i : ~Sent(p, i)) /\ (\A p, i : ~Begun(p, i))
  BY DEF Sent, Begun
<1>4. SentInv
  BY <1>3, FibersAre DEF SentInv
<1>5. ASSUME NEW u \in Ups
      PROVE  UpInv(u)
  <2>1. /\ up[u].batch = <<>> /\ up[u].partial = <<>> /\ up[u].hub = <<>>
        /\ up[u].doing = "idle" /\ ~Running(u)
        /\ writer # Consumer(u) /\ writer # Router(u)
    BY FibersAre DEF NewUp, Running
  <2>2. TailInv(u) /\ AddressedInv(u) /\ BatchInv(u) /\ LoopInv(u) /\ RouteInv(u)
    BY <2>1 DEF TailInv, AddressedInv, BatchInv, LoopInv, RouteInv
  <2>. QED
    BY <2>2 DEF UpInv
<1>6. ReplyInv
  BY DEF ReplyInv
<1>. QED
  BY <1>2, <1>4, <1>5, <1>6 DEF ChannelInv

(* The fields of an `up` have their types.                                    *)
LEMMA FieldTypes ==
  ASSUME TypeOK, NEW u \in Ups
  PROVE  /\ up[u] \in Bridge
         /\ up[u].mode \in {"new", "tail", "pause", "down"}
         /\ up[u].claim \in {"none", "held", "gone"}
         /\ up[u].pos \in Nat /\ up[u].partial \in Seq(CommandHalf)
         /\ up[u].batch \in Seq(Publishers)
         /\ up[u].doing \in {"idle", "run", "converge", "ack", "error"}
         /\ up[u].pending \in SUBSET Captures
         /\ up[u].hub \in Seq(EngineEvent) /\ up[u].routing \in {"event", "reply"}
         /\ Len(commands) \in Nat
BY DEF TypeOK, Bridge

(* A step of an `up` that only changes its own state and history.             *)
LEMMA StepOf ==
  ASSUME ChannelInv, NEW u \in Ups, up'[u] \in Bridge, up' \in [Ups -> Bridge],
         \A v \in Ups \ {u} : up'[v] = up[v],
         UNCHANGED <<commands, stage, from, answer, addressed>>,
         events' \in Seq(EventHalf), ReplyInv',
         ran' \in [Publishers -> SUBSET Ups], worked' \in [Publishers -> SUBSET Ups],
         \A v \in Ups \ {u}, p \in Publishers : /\ v \in ran'[p] <=> v \in ran[p]
                                                /\ v \in worked'[p] <=> v \in worked[p],
         faults' \in Nat, deaths' \in Nat, writer' \in {writer, None}, UpInv(u)'
  PROVE  ChannelInv'
<1>1. TypeOK'
  BY DEF ChannelInv, TypeOK
<1>2. SentInv'
  BY FileSame, FibersAre DEF ChannelInv, SentInv
<1>3. ASSUME NEW v \in Ups, v # u
      PROVE  UpInv(v)'
  <2>1. UpInv(v) /\ up'[v] = up[v] /\ v \in Ups \ {u}
    BY <1>3 DEF ChannelInv
  <2>2. /\ up[v].pos \in Nat /\ up[v].partial \in Seq(CommandHalf)
        /\ up[v].batch \in Seq(Publishers) /\ up[v].hub \in Seq(EngineEvent)
        /\ Len(commands) \in Nat
    BY <1>3, FieldTypes DEF ChannelInv
  <2>3. /\ \A p, i : Sent(p, i) => Sent(p, i)'
        /\ \A p \in Publishers, i \in Nat : Begun(p, i)' => Begun(p, i)
        /\ Len(commands) <= Len(commands') /\ Len(commands') \in Nat
    BY <2>2, FileSame
  <2>4. \A p \in Publishers : /\ v \in ran'[p] <=> v \in ran[p]
                              /\ v \in worked'[p] <=> v \in worked[p]
                              /\ v \in addressed[p] => v \in addressed'[p]
    BY <2>1
  <2>. QED
    BY <1>3, <2>1, <2>2, <2>3, <2>4, UpStays
<1>. QED
  BY <1>1, <1>2, <1>3 DEF ChannelInv

(* Nothing happens to any `up`, nor to what was run.                          *)
LEMMA UpsStay ==
  ASSUME ChannelInv, UNCHANGED <<up, ran, worked>>,
         \A p, i : Sent(p, i) => Sent(p, i)', Len(commands) <= Len(commands'),
         Len(commands') \in Nat,
         \A u \in Ups, p \in Publishers :
            u \in addressed[p] /\ Running(u) => u \in addressed'[p],
         \A u \in Ups, p \in Publishers, i \in Nat :
            Begun(p, i)' => Begun(p, i) \/ (Running(u) => u \in addressed'[p]),
         writer' \in Publishers \cup {writer, None} \/ (Wants(writer') /\ writer' \in Fibers)
  PROVE  \A u \in Ups : UpInv(u)'
<1>. SUFFICES ASSUME NEW u \in Ups PROVE UpInv(u)'
  OBVIOUS
<1>1. UpInv(u) /\ up'[u] = up[u]
  BY DEF ChannelInv
<1>2. /\ up[u].pos \in Nat /\ up[u].partial \in Seq(CommandHalf)
      /\ up[u].batch \in Seq(Publishers) /\ up[u].hub \in Seq(EngineEvent)
      /\ Len(commands) \in Nat
  BY FieldTypes DEF ChannelInv
<1>. QED
  BY <1>1, <1>2, UpStays

LEMMA BeginAppendKeeps ==
  ASSUME ChannelInv, NEW w \in Writers, BeginAppend(w)
  PROVE  ChannelInv'
<1>1. /\ writer' = w /\ Wants(w) /\ Put(w, "head")
      /\ UNCHANGED <<from, answer, up, ran, worked, faults, deaths>>
  BY DEF BeginAppend, bounds
<1>2. CASE w \in Publishers
  <2>1. /\ commands' = Append(commands, <<w, "head">>) /\ events' = events /\ stage[w] = "ready"
        /\ stage' = [stage EXCEPT ![w] = "writing"]
        /\ addressed' = [addressed EXCEPT ![w] = Tailing]
    BY <1>1, <1>2, FibersAre DEF Put, Wants, BeginAppend
  <2>2. /\ commands' \in Seq(CommandHalf) /\ Len(commands') = Len(commands) + 1
        /\ \A p, i : Sent(p, i)' <=> Sent(p, i)
        /\ \A p, i : Begun(p, i)' => Begun(p, i) \/ p = w
        /\ Len(commands) \in Nat
    <3>1. commands \in Seq(CommandHalf) /\ Len(commands) \in Nat
      BY DEF ChannelInv, TypeOK
    <3>. QED
      BY ONLY <1>2, <2>1, <3>1, PutCommand, HalvesDiffer
  <2>3. Tailing \in SUBSET Ups /\ \A u \in Ups : Running(u) <=> u \in Tailing
    BY DEF Tailing
  <2>4. TypeOK'
    BY <1>1, <1>2, <2>1, <2>2, <2>3, FibersAre DEF ChannelInv, TypeOK
  <2>5. \A p \in Publishers :
          /\ stage'[p] = IF p = w THEN "writing" ELSE stage[p]
          /\ addressed'[p] = IF p = w THEN Tailing ELSE addressed[p]
    BY <2>1 DEF ChannelInv, TypeOK
  <2>6. SentInv'
    <3>1. \A i \in Nat : ~Sent(w, i)
      BY <1>2, <2>1 DEF ChannelInv, SentInv
    <3>. QED
      BY <1>1, <1>2, <2>1, <2>2, <2>5, <3>1 DEF ChannelInv, SentInv
  <2>7. \A u \in Ups : UpInv(u)'
    <3>1. \A u \in Ups, p \in Publishers :
            u \in addressed[p] /\ Running(u) => u \in addressed'[p]
      BY <2>3, <2>5
    <3>2. \A u \in Ups, p \in Publishers, i \in Nat :
            Begun(p, i)' => Begun(p, i) \/ (Running(u) => u \in addressed'[p])
      BY <2>2, <2>3, <2>5
    <3>3. Len(commands) <= Len(commands') /\ Len(commands') \in Nat
      BY <2>2
    <3>. QED
      BY <1>1, <1>2, <2>2, <3>1, <3>2, <3>3, UpsStay
  <2>8. ReplyInv'
    <3>1. \A i \in DOMAIN events : events[i][1] \notin Replies(w)
      BY <1>2, <2>1 DEF ChannelInv, ReplyInv
    <3>. QED
      BY <1>1, <2>1, <2>5, <3>1 DEF ChannelInv, ReplyInv, Replies
  <2>. QED
    BY <2>4, <2>6, <2>7, <2>8 DEF ChannelInv
<1>3. CASE w \in Fibers
  <2>1. UNCHANGED <<stage, addressed>>
    BY <1>3, FibersAre DEF BeginAppend
  <2>2. commands' = commands /\ events' \in Seq(EventHalf) /\ ReplyInv'
    BY <1>1, <1>3, <2>1, PutReply, HalvesDiffer
  <2>3. TypeOK'
    BY <1>1, <2>1, <2>2 DEF ChannelInv, TypeOK
  <2>4. SentInv'
    BY <1>1, <1>3, <2>1, <2>2, FileSame, FibersAre DEF ChannelInv, SentInv
  <2>5. \A u \in Ups : UpInv(u)'
    <3>1. Len(commands) \in Nat
      BY DEF ChannelInv, TypeOK
    <3>. QED
      BY <1>1, <1>3, <2>1, <2>2, <3>1, FileSame, UpsStay
  <2>. QED
    BY <2>2, <2>3, <2>4, <2>5 DEF ChannelInv
<1>. QED
  BY <1>2, <1>3 DEF Writers

(* What the router does once its event is out or lost.                        *)
LEMMA RouteOnKeeps ==
  ASSUME ChannelInv, NEW u \in Ups, up[u].hub # <<>>, RouteOn(u),
         UNCHANGED <<commands, addressed, ran, worked>>, writer' = None
  PROVE  /\ up' \in [Ups -> Bridge] /\ up'[u] \in Bridge
         /\ \A v \in Ups \ {u} : up'[v] = up[v]
         /\ UpInv(u)'
<1>1. up \in [Ups -> Bridge] /\ UpInv(u) /\ up[u].hub \in Seq(EngineEvent)
  BY FieldTypes DEF ChannelInv, TypeOK
<1>2. /\ Tail(up[u].hub) \in Seq(EngineEvent)
      /\ \A k \in DOMAIN Tail(up[u].hub) :
            k + 1 \in DOMAIN up[u].hub /\ Tail(up[u].hub)[k] = up[u].hub[k + 1]
  BY <1>1, DropFirst
<1>3. /\ up' \in [Ups -> Bridge] /\ up'[u] \in Bridge /\ \A v \in Ups \ {u} : up'[v] = up[v]
      /\ up'[u].mode = up[u].mode /\ up'[u].pos = up[u].pos
      /\ up'[u].partial = up[u].partial /\ up'[u].batch = up[u].batch
      /\ up'[u].doing = up[u].doing
      /\ up'[u].hub = up[u].hub \/ up'[u].hub = Tail(up[u].hub)
  <2>. DEFINE p == Head(up[u].hub)[2]
  <2>1. CASE up[u].routing = "event" /\ p \in up[u].pending
    <3>1. up' = [up EXCEPT ![u].routing = "reply", ![u].pending = @ \ {p}]
      BY <2>1 DEF RouteOn
    <3>2. up[u].pending \ {p} \in SUBSET Captures
      BY <1>1 DEF Bridge
    <3>. HIDE DEF p
    <3>3. /\ up[u] \in Bridge /\ \A v \in Ups \ {u} : up'[v] = up[v]
          /\ up'[u] = [up[u] EXCEPT !.routing = "reply", !.pending = @ \ {p}]
      BY <1>1, <3>1
    <3>4. [up[u] EXCEPT !.routing = "reply", !.pending = @ \ {p}] \in Bridge
      BY ONLY <3>2, <3>3 DEF Bridge
    <3>5. up' \in [Ups -> Bridge]
      BY <1>1, <3>1, <3>3, <3>4
    <3>6. /\ up'[u].mode = up[u].mode /\ up'[u].pos = up[u].pos
          /\ up'[u].partial = up[u].partial /\ up'[u].batch = up[u].batch
          /\ up'[u].doing = up[u].doing /\ up'[u].hub = up[u].hub
      BY ONLY <3>3 DEF Bridge
    <3>. QED
      BY <3>3, <3>4, <3>5, <3>6
  <2>2. CASE ~(up[u].routing = "event" /\ p \in up[u].pending)
    <3>1. up' = [up EXCEPT ![u].routing = "event", ![u].hub = Tail(@)]
      BY <2>2 DEF RouteOn
    <3>. QED
      BY <1>1, <1>2, <3>1 DEF Bridge
  <2>. QED
    BY <2>1, <2>2
<1>4. (Running(u)' <=> Running(u)) /\ \A p : Behind(u, p)' <=> Behind(u, p)
  BY <1>3, FileSame DEF Running, Behind
<1>5. TailInv(u)' /\ AddressedInv(u)' /\ BatchInv(u)' /\ LoopInv(u)'
  BY <1>1, <1>3, <1>4, FileSame, FibersAre
     DEF UpInv, TailInv, AddressedInv, BatchInv, LoopInv
<1>6. RouteInv(u)'
  <2>1. ASSUME NEW k \in DOMAIN up'[u].hub
        PROVE  /\ u \in ran[up'[u].hub[k][2]]
               /\ up'[u].hub[k][1] = "captured" => u \in worked[up'[u].hub[k][2]]
    <3>1. PICK i \in DOMAIN up[u].hub : up'[u].hub[k] = up[u].hub[i]
      BY <1>2, <1>3
    <3>2. /\ u \in ran[up[u].hub[i][2]]
          /\ up[u].hub[i][1] = "captured" => u \in worked[up[u].hub[i][2]]
      BY <1>1 DEF UpInv, RouteInv
    <3>. QED
      BY <3>1, <3>2
  <2>2. writer' # Router(u)
    BY FibersAre
  <2>3. \A p \in Publishers : u \in worked[p] => u \in ran[p]
    BY <1>1 DEF UpInv, RouteInv
  <2>. QED
    BY <2>1, <2>2, <2>3 DEF RouteInv
<1>. QED
  BY <1>3, <1>5, <1>6 DEF UpInv

(* What the consumer does with a command that is answered, or needs no answer.*)
LEMMA HandledKeeps ==
  ASSUME ChannelInv, NEW u \in Ups, up[u].batch # <<>>, Handled(u),
         UNCHANGED <<commands, addressed, ran, worked>>, writer' \in {writer, None},
         writer' # Consumer(u)
  PROVE  /\ up' \in [Ups -> Bridge] /\ up'[u] \in Bridge
         /\ \A v \in Ups \ {u} : up'[v] = up[v]
         /\ UpInv(u)'
<1>1. up \in [Ups -> Bridge] /\ UpInv(u) /\ up[u].batch \in Seq(Publishers)
  BY FieldTypes DEF ChannelInv, TypeOK
<1>2. /\ Tail(up[u].batch) \in Seq(Publishers)
      /\ \A k \in DOMAIN Tail(up[u].batch) :
            /\ k \in Nat /\ k >= 1
            /\ k + 1 \in DOMAIN up[u].batch /\ Tail(up[u].batch)[k] = up[u].batch[k + 1]
  BY <1>1, DropFirst
<1>3. /\ up' \in [Ups -> Bridge] /\ up'[u] \in Bridge /\ \A v \in Ups \ {u} : up'[v] = up[v]
      /\ up'[u].mode = up[u].mode /\ up'[u].pos = up[u].pos
      /\ up'[u].partial = up[u].partial /\ up'[u].hub = up[u].hub
      /\ up'[u].claim = up[u].claim
      /\ up'[u].doing = "idle" /\ up'[u].batch = Tail(up[u].batch)
  <2>1. /\ up[u] \in Bridge /\ \A v \in Ups \ {u} : up'[v] = up[v]
        /\ up'[u] = [up[u] EXCEPT !.doing = "idle", !.batch = Tail(@)]
    BY <1>1 DEF Handled
  <2>2. [up[u] EXCEPT !.doing = "idle", !.batch = Tail(@)] \in Bridge
    BY ONLY <1>2, <2>1 DEF Bridge
  <2>3. up' \in [Ups -> Bridge]
    BY <1>1, <2>1, <2>2 DEF Handled
  <2>4. /\ up'[u].mode = up[u].mode /\ up'[u].pos = up[u].pos
        /\ up'[u].partial = up[u].partial /\ up'[u].hub = up[u].hub
        /\ up'[u].claim = up[u].claim
        /\ up'[u].doing = "idle" /\ up'[u].batch = Tail(up[u].batch)
    BY ONLY <2>1 DEF Bridge
  <2>. QED
    BY <2>1, <2>2, <2>3, <2>4
<1>4. (Running(u)' <=> Running(u)) /\ \A p : Behind(u, p)' <=> Behind(u, p)
  BY <1>3, FileSame DEF Running, Behind
<1>5. TailInv(u)' /\ AddressedInv(u)'
  BY <1>1, <1>3, <1>4, FileSame DEF UpInv, TailInv, AddressedInv
<1>6. BatchInv(u)'
  <2>1. up'[u].batch # <<>> => up'[u].mode = "tail"
    BY <1>1, <1>3 DEF UpInv, BatchInv
  <2>2. \A k \in DOMAIN up'[u].batch :
          /\ k \in Nat /\ k >= 1 /\ k + 1 \in DOMAIN up[u].batch
          /\ up'[u].batch[k] = up[u].batch[k + 1]
    BY <1>2, <1>3
  <2>3. ASSUME NEW k \in DOMAIN up'[u].batch, NEW p, p = up'[u].batch[k]
        PROVE  Behind(u, p)' /\ u \in addressed'[p] /\ u \notin ran'[p]
    <3>1. k + 1 > 1 /\ k + 1 \in DOMAIN up[u].batch /\ p = up[u].batch[k + 1]
      BY <2>2, <2>3
    <3>2. Behind(u, p) /\ u \in addressed[p] /\ u \notin ran[p]
      BY <1>1, <3>1 DEF UpInv, BatchInv
    <3>. QED
      BY <1>4, <3>2
  <2>4. ASSUME NEW j \in DOMAIN up'[u].batch, NEW k \in DOMAIN up'[u].batch,
               up'[u].batch[j] = up'[u].batch[k]
        PROVE  j = k
    <3>1. j + 1 = k + 1
      BY <1>1, <2>2, <2>4 DEF UpInv, BatchInv
    <3>. QED
      BY <2>2, <3>1
  <2>. QED
    BY <2>1, <2>3, <2>4 DEF BatchInv
<1>7. LoopInv(u)'
  BY <1>3 DEF LoopInv
<1>8. RouteInv(u)'
  BY <1>1, <1>3, FibersAre DEF UpInv, RouteInv
<1>. QED
  BY <1>3, <1>5, <1>6, <1>7, <1>8 DEF UpInv

LEMMA EndAppendKeeps ==
  ASSUME ChannelInv, NEW w \in Writers, EndAppend(w)
  PROVE  ChannelInv'
<1>1. /\ writer = w /\ writer' = None /\ Put(w, "tail") /\ Appended(w)
      /\ UNCHANGED <<addressed, ran, worked, faults, deaths>>
  BY DEF EndAppend, history, bounds
<1>2. CASE w \in Publishers
  <2>1. /\ commands' = Append(commands, <<w, "tail">>) /\ events' = events
        /\ stage' = [stage EXCEPT ![w] = "waiting"] /\ UNCHANGED <<from, answer, up>>
    BY <1>1, <1>2, FibersAre DEF Put, Appended
  <2>2. /\ commands' \in Seq(CommandHalf) /\ Len(commands') = Len(commands) + 1
        /\ \A p, i : Sent(p, i) => Sent(p, i)'
        /\ \A p, i : Sent(p, i)' => Sent(p, i) \/ (p = w /\ i = Len(commands) + 1)
        /\ \A p, i : Begun(p, i)' => Begun(p, i)
        /\ Len(commands) \in Nat
    <3>1. commands \in Seq(CommandHalf) /\ Len(commands) \in Nat
      BY DEF ChannelInv, TypeOK
    <3>. QED
      BY ONLY <1>2, <2>1, <3>1, PutCommand, HalvesDiffer
  <2>3. TypeOK'
    BY <1>1, <1>2, <2>1, <2>2 DEF ChannelInv, TypeOK
  <2>4. stage[w] = "writing" /\ answer[w] = "nothing"
    BY <1>1, <1>2 DEF ChannelInv, SentInv
  <2>5. \A i \in Nat : ~Sent(w, i)
    BY <1>2, <2>4 DEF ChannelInv, SentInv
  <2>6. SentInv'
    <3>1. \A p \in Publishers, i, j \in Nat : Sent(p, i)' /\ Sent(p, j)' => i = j
      BY <2>2, <2>5 DEF ChannelInv, SentInv
    <3>2. \A p \in Publishers : stage'[p] = IF p = w THEN "waiting" ELSE stage[p]
      BY <2>1 DEF ChannelInv, TypeOK
    <3>3. \A p \in Publishers, i \in Nat :
            Sent(p, i)' => stage'[p] \in {"waiting", "over"} /\ answer'[p] # "unsent"
      BY <2>1, <2>2, <2>4, <3>2 DEF ChannelInv, SentInv
    <3>4. \A p \in Publishers : stage'[p] # "over" => answer'[p] = "nothing"
      BY <2>1, <2>4, <3>2 DEF ChannelInv, SentInv
    <3>. QED
      BY <1>1, <3>1, <3>3, <3>4, FibersAre DEF SentInv
  <2>7. \A u \in Ups : UpInv(u)'
    <3>1. Len(commands) <= Len(commands') /\ Len(commands') \in Nat
      BY <2>2
    <3>. QED
      BY <1>1, <2>1, <2>2, <3>1, UpsStay
  <2>8. ReplyInv'
    <3>1. \A i \in DOMAIN events : events[i][1] \notin Replies(w)
      BY <1>2, <2>4 DEF ChannelInv, ReplyInv
    <3>. QED
      BY <1>1, <2>1, <3>1 DEF ChannelInv, ReplyInv, TypeOK, Replies
  <2>. QED
    BY <2>3, <2>6, <2>7, <2>8 DEF ChannelInv
<1>3. CASE w \in Fibers
  <2>. DEFINE u == w[2]
  <2>1. u \in Ups /\ UpInv(u) /\ w \notin Publishers
        /\ \/ w[1] = "consumer" /\ w = Consumer(u)
           \/ w[1] = "router" /\ w = Router(u)
    BY <1>3, FibersAre DEF ChannelInv
  <2>2. UNCHANGED <<stage, from, answer>>
    BY <1>1, <2>1 DEF Appended, publisherVars
  <2>3. Wants(w) /\ (w[1] = "consumer" => up[u].batch # <<>>)
        /\ (w[1] = "router" => up[u].hub # <<>>)
    BY <1>1, <1>3, <2>1 DEF UpInv, LoopInv, RouteInv, Wants
  <2>4. commands' = commands /\ events' \in Seq(EventHalf) /\ ReplyInv'
    BY <1>1, <1>3, <2>2, <2>3, PutReply, HalvesDiffer
  <2>5. (w[1] = "consumer" /\ Handled(u)) \/ (w[1] = "router" /\ RouteOn(u))
    BY <1>1, <2>1 DEF Appended
  <2>. HIDE DEF u
  <2>6. /\ up' \in [Ups -> Bridge] /\ up'[u] \in Bridge
        /\ \A v \in Ups \ {u} : up'[v] = up[v]
        /\ UpInv(u)'
    BY <1>1, <2>1, <2>3, <2>4, <2>5, HandledKeeps, RouteOnKeeps, FibersAre
  <2>7. ran' \in [Publishers -> SUBSET Ups] /\ worked' \in [Publishers -> SUBSET Ups]
        /\ faults' \in Nat /\ deaths' \in Nat
    BY <1>1 DEF ChannelInv, TypeOK
  <2>. QED
    BY <1>1, <2>1, <2>2, <2>4, <2>6, <2>7, StepOf
<1>. QED
  BY <1>2, <1>3 DEF Writers

LEMMA FailAppendKeeps ==
  ASSUME ChannelInv, NEW w \in Writers, FailAppend(w)
  PROVE  ChannelInv'
<1>1. /\ commands' = commands /\ events' = events /\ writer' = None
      /\ (Wants(w) /\ writer = None) \/ writer = w
      /\ faults' \in Nat /\ NotAppended(w) /\ UNCHANGED <<addressed, ran, worked, deaths>>
  BY DEF FailAppend, history, ChannelInv, TypeOK
<1>2. CASE w \in Publishers
  <2>1. /\ stage' = [stage EXCEPT ![w] = "over"] /\ answer' = [answer EXCEPT ![w] = "unsent"]
        /\ from' = [from EXCEPT ![w] = 0] /\ up' = up
    BY <1>1, <1>2, FibersAre DEF NotAppended
  <2>2. stage[w] \in {"ready", "writing"}
    BY <1>1, <1>2, FibersAre DEF Wants, ChannelInv, SentInv
  <2>3. TypeOK'
    BY <1>1, <1>2, <2>1 DEF ChannelInv, TypeOK
  <2>4. SentInv'
    <3>1. \A i \in Nat : ~Sent(w, i)
      BY <1>2, <2>2 DEF ChannelInv, SentInv
    <3>. QED
      BY <1>1, <1>2, <2>1, <3>1, FileSame, FibersAre DEF ChannelInv, SentInv, TypeOK
  <2>5. \A u \in Ups : UpInv(u)'
    <3>1. Len(commands) \in Nat
      BY DEF ChannelInv, TypeOK
    <3>. QED
      BY <1>1, <2>1, <3>1, FileSame, UpsStay
  <2>6. ReplyInv'
    <3>1. \A i \in DOMAIN events : events[i][1] \notin Replies(w)
      BY <1>2, <2>2 DEF ChannelInv, ReplyInv
    <3>2. /\ from'[w] = 0 /\ stage'[w] = "over"
          /\ \A p \in Publishers \ {w} : from'[p] = from[p] /\ stage'[p] = stage[p]
      BY <2>1, <1>2 DEF ChannelInv, TypeOK
    <3>3. Len(events) \in Nat
      BY DEF ChannelInv, TypeOK
    <3>4. ASSUME NEW p \in Publishers
          PROVE  from'[p] <= Len(events')
      BY <1>1, <3>2, <3>3 DEF ChannelInv, ReplyInv
    <3>5. ASSUME NEW p \in Publishers, NEW i \in DOMAIN events
          PROVE  /\ events[i][1] = <<"ack", p>> => worked[p] # {}
                 /\ events[i][1] \in Replies(p) => /\ stage'[p] \in {"waiting", "over"}
                                                   /\ stage'[p] = "waiting" => i > from'[p]
      <4>1. CASE p = w
        BY <3>1, <3>2, <4>1 DEF ChannelInv, ReplyInv
      <4>2. CASE p # w
        BY <3>2, <4>2 DEF ChannelInv, ReplyInv
      <4>. QED
        BY <4>1, <4>2
    <3>. QED
      BY <1>1, <3>4, <3>5 DEF ReplyInv, Replies
  <2>. QED
    BY <2>3, <2>4, <2>5, <2>6 DEF ChannelInv
<1>3. CASE w \in Fibers
  <2>. DEFINE u == w[2]
  <2>1. u \in Ups /\ UpInv(u) /\ w \notin Publishers
        /\ \/ w[1] = "consumer" /\ w = Consumer(u)
           \/ w[1] = "router" /\ w = Router(u)
    BY <1>3, FibersAre DEF ChannelInv
  <2>2. UNCHANGED <<stage, from, answer>>
    BY <1>1, <2>1 DEF NotAppended, publisherVars
  <2>3. (w[1] = "consumer" => up[u].batch # <<>> /\ up[u].doing \in {"ack", "error"})
        /\ (w[1] = "router" => up[u].hub # <<>>)
    BY <1>1, <1>3, <2>1 DEF UpInv, LoopInv, RouteInv, Wants
  <2>4. ReplyInv'
    BY <1>1, <2>2 DEF ChannelInv, ReplyInv, Replies
  <2>5. \/ w[1] = "consumer" /\ Handled(u)
        \/ w[1] = "consumer" /\ up' = [up EXCEPT ![u].doing = "error"]
        \/ w[1] = "router" /\ RouteOn(u)
    BY <1>1, <2>1 DEF NotAppended
  <2>. HIDE DEF u
  <2>6. /\ up' \in [Ups -> Bridge] /\ up'[u] \in Bridge
        /\ \A v \in Ups \ {u} : up'[v] = up[v]
        /\ UpInv(u)'
    <3>1. CASE w[1] = "consumer" /\ up' = [up EXCEPT ![u].doing = "error"]
      <4>1. up \in [Ups -> Bridge]
        BY DEF ChannelInv, TypeOK
      <4>2. /\ up' \in [Ups -> Bridge] /\ up'[u] \in Bridge /\ \A v \in Ups \ {u} : up'[v] = up[v]
            /\ up'[u] = [up[u] EXCEPT !.doing = "error"] /\ up[u] \in Bridge
        BY <2>1, <3>1, <4>1 DEF Bridge
      <4>3. /\ up'[u].mode = up[u].mode /\ up'[u].pos = up[u].pos
            /\ up'[u].partial = up[u].partial /\ up'[u].hub = up[u].hub
            /\ up'[u].batch = up[u].batch /\ up'[u].doing = "error"
        BY <4>2 DEF Bridge
      <4>4. (Running(u)' <=> Running(u)) /\ \A p : Behind(u, p)' <=> Behind(u, p)
        BY <1>1, <4>3, FileSame DEF Running, Behind
      <4>5. TailInv(u)' /\ AddressedInv(u)' /\ BatchInv(u)' /\ LoopInv(u)' /\ RouteInv(u)'
        BY <1>1, <2>1, <2>3, <3>1, <4>3, <4>4, FileSame, FibersAre
           DEF UpInv, TailInv, AddressedInv, BatchInv, LoopInv, RouteInv
      <4>. QED
        BY <4>2, <4>5 DEF UpInv
    <3>. QED
      BY <1>1, <2>1, <2>3, <2>5, <3>1, HandledKeeps, RouteOnKeeps, FibersAre
  <2>7. ran' \in [Publishers -> SUBSET Ups] /\ worked' \in [Publishers -> SUBSET Ups]
        /\ deaths' \in Nat /\ events' \in Seq(EventHalf)
    BY <1>1 DEF ChannelInv, TypeOK
  <2>. QED
    BY <1>1, <2>1, <2>2, <2>4, <2>6, <2>7, StepOf
<1>. QED
  BY <1>2, <1>3 DEF Writers


LEMMA TakeOffsetKeeps ==
  ASSUME ChannelInv, NEW p \in Publishers, TakeOffset(p)
  PROVE  ChannelInv'
<1>1. /\ stage[p] = "new" /\ stage' = [stage EXCEPT ![p] = "ready"]
      /\ from' = [from EXCEPT ![p] = Len(events)]
      /\ UNCHANGED <<commands, events, writer, answer, up, addressed, ran, worked, faults, deaths>>
  BY DEF TakeOffset, files, history, bounds
<1>2. TypeOK'
  BY <1>1 DEF ChannelInv, TypeOK
<1>3. /\ from'[p] = Len(events) /\ stage'[p] = "ready"
      /\ \A q \in Publishers \ {p} : from'[q] = from[q] /\ stage'[q] = stage[q]
  BY <1>1 DEF ChannelInv, TypeOK
<1>4. SentInv'
  BY <1>1, <1>3, FileSame DEF ChannelInv, SentInv
<1>5. \A u \in Ups : UpInv(u)'
  <2>1. Len(commands) \in Nat
    BY DEF ChannelInv, TypeOK
  <2>. QED
    BY <1>1, <2>1, FileSame, UpsStay
<1>6. ReplyInv'
  <2>1. ASSUME NEW q \in Publishers
        PROVE  from'[q] <= Len(events')
    BY <1>1, <1>3 DEF ChannelInv, ReplyInv, TypeOK
  <2>2. ASSUME NEW q \in Publishers, NEW i \in DOMAIN events
        PROVE  /\ events[i][1] = <<"ack", q>> => worked[q] # {}
               /\ events[i][1] \in Replies(q) => /\ stage'[q] \in {"waiting", "over"}
                                                 /\ stage'[q] = "waiting" => i > from'[q]
    <3>1. CASE q = p
      BY <1>1, <1>3, <3>1 DEF ChannelInv, ReplyInv
    <3>2. CASE q # p
      BY <1>3, <3>2 DEF ChannelInv, ReplyInv
    <3>. QED
      BY <3>1, <3>2
  <2>. QED
    BY <1>1, <2>1, <2>2 DEF ReplyInv, Replies
<1>. QED
  BY <1>2, <1>4, <1>5, <1>6 DEF ChannelInv

(* A publisher is through, whatever it was told.                              *)
LEMMA OverKeeps ==
  ASSUME ChannelInv, NEW p \in Publishers, stage' = [stage EXCEPT ![p] = "over"],
         stage[p] \in {"writing", "waiting"},
         from' = [from EXCEPT ![p] = 0], NEW a \in {"nothing", "done", "failed", "unknown"},
         answer' = [answer EXCEPT ![p] = a], writer' \in {writer, None}, writer' # p,
         UNCHANGED <<commands, events, up, addressed, ran, worked, faults, deaths>>
  PROVE  ChannelInv'
<1>1. TypeOK'
  BY DEF ChannelInv, TypeOK
<1>2. /\ from'[p] = 0 /\ stage'[p] = "over" /\ answer'[p] = a
      /\ \A q \in Publishers \ {p} : /\ from'[q] = from[q] /\ stage'[q] = stage[q]
                                     /\ answer'[q] = answer[q]
  BY DEF ChannelInv, TypeOK
<1>3. SentInv'
  BY <1>2, FileSame, FibersAre DEF ChannelInv, SentInv
<1>4. \A u \in Ups : UpInv(u)'
  <2>1. Len(commands) \in Nat
    BY DEF ChannelInv, TypeOK
  <2>. QED
    BY <2>1, FileSame, UpsStay
<1>5. ReplyInv'
  <2>1. ASSUME NEW q \in Publishers
        PROVE  from'[q] <= Len(events')
    <3>1. Len(events) \in Nat
      BY DEF ChannelInv, TypeOK
    <3>. QED
      BY <1>2, <3>1 DEF ChannelInv, ReplyInv
  <2>2. ASSUME NEW q \in Publishers, NEW i \in DOMAIN events
        PROVE  /\ events[i][1] = <<"ack", q>> => worked[q] # {}
               /\ events[i][1] \in Replies(q) => /\ stage'[q] \in {"waiting", "over"}
                                                 /\ stage'[q] = "waiting" => i > from'[q]
    <3>1. CASE q = p
      BY <1>2, <3>1 DEF ChannelInv, ReplyInv
    <3>2. CASE q # p
      BY <1>2, <3>2 DEF ChannelInv, ReplyInv
    <3>. QED
      BY <3>1, <3>2
  <2>. QED
    BY <2>1, <2>2 DEF ReplyInv, Replies
<1>. QED
  BY <1>1, <1>3, <1>4, <1>5 DEF ChannelInv

LEMMA FinishKeeps ==
  ASSUME ChannelInv, NEW p \in Publishers, NEW a \in {"done", "failed", "unknown"}, Finish(p, a)
  PROVE  ChannelInv'
<1>1. writer # p
  BY DEF Finish, ChannelInv, SentInv
<1>2. /\ stage[p] = "waiting" /\ stage' = [stage EXCEPT ![p] = "over"]
      /\ from' = [from EXCEPT ![p] = 0] /\ answer' = [answer EXCEPT ![p] = a]
      /\ UNCHANGED <<commands, events, writer, up, addressed, ran, worked, faults, deaths>>
  BY DEF Finish, files, history, bounds
<1>. QED
  BY <1>1, <1>2, OverKeeps

LEMMA KillPublisherKeeps ==
  ASSUME ChannelInv, NEW p \in Publishers, KillPublisher(p)
  PROVE  ChannelInv'
<1>1. /\ stage' = [stage EXCEPT ![p] = "over"] /\ from' = [from EXCEPT ![p] = 0]
      /\ writer' = None /\ answer' = answer /\ stage[p] = "writing" /\ answer[p] = "nothing"
      /\ UNCHANGED <<commands, events, up, addressed, ran, worked, faults, deaths>>
  BY DEF KillPublisher, history, bounds, ChannelInv, SentInv
<1>2. answer' = [answer EXCEPT ![p] = "nothing"]
  BY <1>1 DEF ChannelInv, TypeOK
<1>. QED
  BY <1>1, <1>2, FibersAre, OverKeeps

-----------------------------------------------------------------------------
(* The tail is put at the end of the commands.                                *)
LEMMA AnchorKeeps ==
  ASSUME ChannelInv, NEW u \in Ups, up[u].mode \in {"new", "pause"}, Anchor(u),
         UNCHANGED <<files, publisherVars, history, bounds>>
  PROVE  ChannelInv'
<1>1. UNCHANGED <<commands, events, writer, stage, from, answer, addressed, ran, worked,
                  faults, deaths>>
  BY DEF files, publisherVars, history, bounds
<1>2. up[u] \in Bridge /\ UpInv(u) /\ Len(commands) \in Nat /\ up \in [Ups -> Bridge]
  BY FieldTypes DEF ChannelInv, TypeOK
<1>3. /\ \A v \in Ups \ {u} : up'[v] = up[v]
      /\ up'[u] = [up[u] EXCEPT !.mode = "tail", !.pos = Len(commands), !.partial = <<>>]
  BY <1>2 DEF Anchor
<1>4. [up[u] EXCEPT !.mode = "tail", !.pos = Len(commands), !.partial = <<>>] \in Bridge
  <2>1. ASSUME NEW b \in Bridge, NEW n \in Nat, NEW s \in Seq(CommandHalf)
        PROVE  [b EXCEPT !.mode = "tail", !.pos = n, !.partial = s] \in Bridge
    BY ONLY <2>1 DEF Bridge
  <2>2. <<>> \in Seq(CommandHalf)
    OBVIOUS
  <2>. QED
    BY ONLY <1>2, <2>1, <2>2
<1>5. up' \in [Ups -> Bridge]
  BY <1>2, <1>3, <1>4 DEF Anchor
<1>6. /\ up'[u].mode = "tail" /\ up'[u].pos = Len(commands) /\ up'[u].partial = <<>>
      /\ up'[u].batch = up[u].batch /\ up'[u].doing = up[u].doing
      /\ up'[u].hub = up[u].hub /\ up'[u].claim = up[u].claim
  BY ONLY <1>2, <1>3 DEF Bridge
<1>7. up[u].batch = <<>> /\ up[u].doing = "idle" /\ Running(u)'
  BY <1>2, <1>6 DEF UpInv, BatchInv, LoopInv, Running
<1>8. \A p, i : Sent(p, i) => i <= Len(commands)
  BY <1>2 DEF Sent, ChannelInv, TypeOK
<1>9. \A p : Behind(u, p) => Behind(u, p)'
  BY <1>1, <1>6, <1>8, FileSame DEF Behind
<1>10. TailInv(u)'
  BY <1>1, <1>2, <1>6, <1>9 DEF UpInv, TailInv
<1>11. AddressedInv(u)'
  <2>1. \A p, i : Begun(p, i) => i <= Len(commands)
    BY <1>2 DEF Begun, ChannelInv, TypeOK
  <2>2. \A p \in Publishers, i \in Nat : ~(i > up'[u].pos /\ Begun(p, i)')
    BY <1>1, <1>2, <1>6, <2>1, FileSame
  <2>. QED
    BY <1>6, <2>2 DEF AddressedInv
<1>12. BatchInv(u)' /\ LoopInv(u)' /\ RouteInv(u)'
  BY <1>1, <1>2, <1>6, <1>7 DEF UpInv, BatchInv, LoopInv, RouteInv
<1>13. UpInv(u)'
  BY <1>10, <1>11, <1>12 DEF UpInv
<1>. QED
  <2>1. /\ events' \in Seq(EventHalf) /\ ReplyInv'
        /\ ran' \in [Publishers -> SUBSET Ups] /\ worked' \in [Publishers -> SUBSET Ups]
        /\ faults' \in Nat /\ deaths' \in Nat
    BY <1>1 DEF ChannelInv, TypeOK, ReplyInv, Replies
  <2>. QED
    BY <1>1, <1>3, <1>4, <1>5, <1>13, <2>1, StepOf

(* A step of the command loop of an `up`: its tail and its batch stay.        *)
LEMMA LoopStep ==
  ASSUME ChannelInv, NEW u \in Ups, up' \in [Ups -> Bridge],
         \A v \in Ups \ {u} : up'[v] = up[v],
         up'[u].mode = up[u].mode, up'[u].pos = up[u].pos,
         up'[u].partial = up[u].partial, up'[u].batch = up[u].batch,
         UNCHANGED <<files, publisherVars, addressed, faults>>, deaths' \in Nat,
         ran' \in [Publishers -> SUBSET Ups], worked' \in [Publishers -> SUBSET Ups],
         \A v \in Ups \ {u}, p \in Publishers : /\ v \in ran'[p] <=> v \in ran[p]
                                                /\ v \in worked'[p] <=> v \in worked[p],
         \A p \in Publishers : worked[p] \subseteq worked'[p],
         \A p \in Publishers : u \in ran'[p] => u \in ran[p] \/ Behind(u, p),
         \A k \in DOMAIN up[u].batch :
            k > 1 \/ up'[u].doing = "idle" => u \notin ran'[up[u].batch[k]],
         LoopInv(u)', RouteInv(u)'
  PROVE  ChannelInv'
<1>1. UNCHANGED <<commands, events, writer, stage, from, answer, addressed, faults>>
  BY DEF files, publisherVars
<1>2. UpInv(u)
  BY DEF ChannelInv
<1>3. (Running(u)' <=> Running(u)) /\ \A p : Behind(u, p)' <=> Behind(u, p)
  BY <1>1, FileSame DEF Running, Behind
<1>4. TailInv(u)'
  BY <1>1, <1>2, <1>3 DEF UpInv, TailInv
<1>5. AddressedInv(u)'
  BY <1>1, <1>2, <1>3, FileSame DEF UpInv, AddressedInv
<1>6. BatchInv(u)'
  BY <1>1, <1>2, <1>3 DEF UpInv, BatchInv
<1>7. ReplyInv'
  BY <1>1 DEF ChannelInv, ReplyInv, Replies
<1>8. events' \in Seq(EventHalf) /\ faults' \in Nat
  BY <1>1 DEF ChannelInv, TypeOK
<1>9. UpInv(u)'
  BY <1>4, <1>5, <1>6 DEF UpInv
<1>. QED
  BY <1>1, <1>7, <1>8, <1>9, StepOf

(* The claim is made, refused or released.                                    *)
LEMMA ClaimStep ==
  ASSUME ChannelInv, NEW u \in Ups, NEW c \in {"held", "gone"},
         up' = [up EXCEPT ![u].claim = c], writer # Router(u),
         UNCHANGED <<files, publisherVars, history, faults>>, deaths' \in Nat
  PROVE  ChannelInv'
<1>1. up \in [Ups -> Bridge] /\ up[u] \in Bridge /\ UpInv(u)
  BY DEF ChannelInv, TypeOK
<1>2. /\ \A v \in Ups \ {u} : up'[v] = up[v]
      /\ up'[u] = [up[u] EXCEPT !.claim = c]
  BY <1>1
<1>3. up' \in [Ups -> Bridge]
  <2>1. [up[u] EXCEPT !.claim = c] \in Bridge
    BY ONLY <1>1, c \in {"held", "gone"} DEF Bridge
  <2>. QED
    BY <1>1, <1>2, <2>1
<1>4. /\ up'[u].mode = up[u].mode /\ up'[u].pos = up[u].pos
      /\ up'[u].partial = up[u].partial /\ up'[u].batch = up[u].batch
      /\ up'[u].doing = up[u].doing /\ up'[u].hub = up[u].hub
  BY ONLY <1>1, <1>2 DEF Bridge
<1>5. UNCHANGED <<writer, addressed, ran, worked>>
  BY DEF files, history
<1>6. LoopInv(u)' /\ RouteInv(u)'
  BY <1>1, <1>4, <1>5 DEF UpInv, LoopInv, RouteInv
<1>7. ran' \in [Publishers -> SUBSET Ups] /\ worked' \in [Publishers -> SUBSET Ups]
  BY <1>5 DEF ChannelInv, TypeOK
<1>8. \A k \in DOMAIN up[u].batch :
        k > 1 \/ up'[u].doing = "idle" => u \notin ran'[up[u].batch[k]]
  BY <1>1, <1>4, <1>5 DEF UpInv, BatchInv
<1>. QED
  BY <1>2, <1>3, <1>4, <1>5, <1>6, <1>7, <1>8, LoopStep

LEMMA ClaimKeeps ==
  ASSUME ChannelInv, NEW u \in Ups, Claim(u)
  PROVE  ChannelInv'
<1>1. writer # Router(u)
  BY DEF Claim, ChannelInv, UpInv, RouteInv
<1>2. deaths' \in Nat /\ UNCHANGED <<files, publisherVars, history, faults>>
  BY DEF Claim, bounds, ChannelInv, TypeOK
<1>. QED
  BY <1>1, <1>2, ClaimStep DEF Claim

LEMMA LeaveKeeps ==
  ASSUME ChannelInv, NEW u \in Ups, Leave(u)
  PROVE  ChannelInv'
<1>1. deaths' \in Nat
  BY DEF Leave, ChannelInv, TypeOK
<1>. QED
  BY <1>1, ClaimStep DEF Leave

(* An `up` that goes away leaves what it ran behind.                          *)
LEMMA EndKeeps ==
  ASSUME ChannelInv, NEW u \in Ups, End(u)
  PROVE  ChannelInv'
<1>1. /\ writer' = IF writer \in {Consumer(u), Router(u)} THEN None ELSE writer
      /\ up' = [up EXCEPT ![u] = [NewUp EXCEPT !.mode = "down"]]
      /\ UNCHANGED <<commands, events, stage, from, answer, addressed, ran, worked, faults>>
  BY DEF End, publisherVars, history
<1>2. up \in [Ups -> Bridge] /\ UpInv(u)
  BY DEF ChannelInv, TypeOK
<1>3. [NewUp EXCEPT !.mode = "down"] \in Bridge
  <2>1. NewUp \in Bridge
    BY DEF NewUp, Bridge
  <2>. QED
    BY ONLY <2>1 DEF Bridge
<1>4. /\ up' \in [Ups -> Bridge] /\ up'[u] = [NewUp EXCEPT !.mode = "down"]
      /\ \A v \in Ups \ {u} : up'[v] = up[v]
  BY <1>1, <1>2, <1>3
<1>5. /\ up'[u].mode = "down" /\ up'[u].batch = <<>> /\ up'[u].partial = <<>>
      /\ up'[u].hub = <<>> /\ up'[u].doing = "idle"
  BY ONLY <1>4 DEF NewUp
<1>6. ~Running(u)' /\ \A p : Behind(u, p) => Behind(u, p)'
  BY <1>1, <1>5, FileSame DEF Running, Behind
<1>7. writer' # Consumer(u) /\ writer' # Router(u)
  BY <1>1, FibersAre
<1>8. TailInv(u)' /\ AddressedInv(u)'
  BY <1>1, <1>2, <1>5, <1>6 DEF UpInv, TailInv, AddressedInv
<1>9. BatchInv(u)' /\ LoopInv(u)' /\ RouteInv(u)'
  BY <1>1, <1>2, <1>5, <1>7 DEF UpInv, BatchInv, LoopInv, RouteInv
<1>10. UpInv(u)'
  BY <1>8, <1>9 DEF UpInv
<1>11. /\ ReplyInv' /\ events' \in Seq(EventHalf) /\ faults' \in Nat
       /\ ran' \in [Publishers -> SUBSET Ups] /\ worked' \in [Publishers -> SUBSET Ups]
  BY <1>1 DEF ChannelInv, TypeOK, ReplyInv, Replies
<1>12. deaths' \in Nat
  BY DEF End, ChannelInv, TypeOK
<1>13. writer' \in {writer, None} /\ up'[u] \in Bridge
  BY <1>1, <1>3, <1>4
<1>. QED
  BY <1>1, <1>4, <1>10, <1>11, <1>12, <1>13, StepOf

-----------------------------------------------------------------------------
(* The piece of a sequence behind its first m elements.                       *)
LEMMA PieceOf ==
  ASSUME NEW S, NEW s \in Seq(S), NEW m \in Nat, NEW e \in m + 1 .. Len(s)
  PROVE  /\ SubSeq(s, m + 1, e) \in Seq(S) /\ Len(SubSeq(s, m + 1, e)) = e - m
         /\ \A k \in 1 .. e - m : SubSeq(s, m + 1, e)[k] = s[m + k]
OBVIOUS

(* What a poll reads is the unfinished line and what lies beyond the tail;    *)
(* the commands in it, all from beyond the tail, were sent.                   *)
LEMMA ChunkIs ==
  ASSUME commands \in Seq(CommandHalf), NEW pos \in Nat, NEW partial \in Seq(CommandHalf),
         \A i \in DOMAIN partial : ~IsEnd(partial[i]),
         NEW end \in pos + 1 .. Len(commands),
         NEW chunk, chunk = partial \o SubSeq(commands, pos + 1, end)
  PROVE  /\ chunk \in Seq(CommandHalf) /\ Ends(chunk) \subseteq 1 .. Len(chunk)
         /\ Cardinality(Ends(chunk)) \in Nat
         /\ \A i \in DOMAIN chunk :
              \/ i \in DOMAIN partial /\ chunk[i] = partial[i]
              \/ /\ pos + (i - Len(partial)) \in pos + 1 .. end
                 /\ pos + (i - Len(partial)) \in DOMAIN commands
                 /\ chunk[i] = commands[pos + (i - Len(partial))]
         /\ \A i \in Ends(chunk) :
              /\ chunk[i][1] \in Publishers
              /\ pos + (i - Len(partial)) \in pos + 1 .. end
              /\ Sent(chunk[i][1], pos + (i - Len(partial)))
<1>. DEFINE new == SubSeq(commands, pos + 1, end)
<1>1. end \in Nat /\ Len(partial) \in Nat
  OBVIOUS
<1>2. /\ new \in Seq(CommandHalf) /\ Len(new) = end - pos
      /\ \A k \in 1 .. end - pos : new[k] = commands[pos + k]
  BY <1>1, PieceOf
<1>3. chunk = partial \o new
  OBVIOUS
<1>. HIDE DEF new
<1>4. /\ chunk \in Seq(CommandHalf) /\ Len(chunk) = Len(partial) + (end - pos)
      /\ DOMAIN chunk = 1 .. Len(chunk)
      /\ \A i \in 1 .. Len(partial) : chunk[i] = partial[i]
      /\ \A i \in Len(partial) + 1 .. Len(chunk) : chunk[i] = new[i - Len(partial)]
  <2>1. /\ partial \o new \in Seq(CommandHalf) /\ Len(partial \o new) = Len(partial) + Len(new)
        /\ \A i \in 1 .. Len(partial) + Len(new) :
             (partial \o new)[i] = IF i <= Len(partial) THEN partial[i] ELSE new[i - Len(partial)]
    BY <1>1, <1>2, ConcatProperties
  <2>2. /\ chunk \in Seq(CommandHalf) /\ Len(chunk) = Len(partial) + (end - pos)
        /\ \A i \in 1 .. Len(chunk) :
             chunk[i] = IF i <= Len(partial) THEN partial[i] ELSE new[i - Len(partial)]
    BY ONLY <1>1, <1>2, <1>3, <2>1
  <2>3. Len(chunk) \in Nat /\ DOMAIN chunk = 1 .. Len(chunk)
    BY ONLY <2>2
  <2>4. ASSUME NEW i \in 1 .. Len(partial)
        PROVE  chunk[i] = partial[i]
    <3>1. i \in 1 .. Len(chunk) /\ i <= Len(partial)
      BY <1>1, <2>2
    <3>. QED
      BY ONLY <2>2, <3>1
  <2>5. ASSUME NEW i \in Len(partial) + 1 .. Len(chunk)
        PROVE  chunk[i] = new[i - Len(partial)]
    <3>1. i \in 1 .. Len(chunk) /\ ~(i <= Len(partial))
      BY <1>1, <2>2
    <3>. QED
      BY ONLY <2>2, <3>1
  <2>. QED
    BY ONLY <2>2, <2>3, <2>4, <2>5
<1>5. ASSUME NEW i \in DOMAIN chunk
      PROVE  \/ i \in DOMAIN partial /\ chunk[i] = partial[i]
             \/ /\ pos + (i - Len(partial)) \in pos + 1 .. end
                /\ pos + (i - Len(partial)) \in DOMAIN commands
                /\ chunk[i] = commands[pos + (i - Len(partial))]
  <2>1. CASE i \in 1 .. Len(partial)
    BY <1>4, <2>1
  <2>2. CASE i \in Len(partial) + 1 .. Len(chunk)
    <3>1. i - Len(partial) \in 1 .. end - pos
      BY <1>1, <1>4, <2>2
    <3>2. /\ pos + (i - Len(partial)) \in pos + 1 .. end
          /\ pos + (i - Len(partial)) \in DOMAIN commands
      BY <1>1, <3>1
    <3>3. chunk[i] = commands[pos + (i - Len(partial))]
      BY ONLY <1>2, <1>4, <2>2, <3>1
    <3>. QED
      BY <3>2, <3>3
  <2>. QED
    BY <1>1, <1>4, <2>1, <2>2
<1>6. Ends(chunk) \subseteq 1 .. Len(chunk)
  BY <1>4 DEF Ends
<1>7. Cardinality(Ends(chunk)) \in Nat
  <2>1. Len(chunk) \in Int /\ 1 \in Int
    BY <1>4
  <2>2. IsFiniteSet(1 .. Len(chunk))
    BY ONLY <2>1, FS_Interval
  <2>. QED
    BY ONLY <1>6, <2>2, FS_Subset, FS_CardinalityType
<1>8. ASSUME NEW i \in Ends(chunk)
      PROVE  /\ chunk[i][1] \in Publishers
             /\ pos + (i - Len(partial)) \in pos + 1 .. end
             /\ Sent(chunk[i][1], pos + (i - Len(partial)))
  <2>1. i \in DOMAIN chunk /\ chunk[i][2] = "tail" /\ chunk[i] \in CommandHalf
    <3>1. i \in DOMAIN chunk /\ chunk[i][2] = "tail"
      BY DEF Ends, IsEnd
    <3>. QED
      BY ONLY <1>4, <3>1
  <2>2. /\ pos + (i - Len(partial)) \in pos + 1 .. end
        /\ pos + (i - Len(partial)) \in DOMAIN commands
        /\ chunk[i] = commands[pos + (i - Len(partial))]
    BY <1>5, <2>1 DEF IsEnd
  <2>3. chunk[i] = <<chunk[i][1], "tail">> /\ chunk[i][1] \in Publishers
    BY ONLY <2>1 DEF CommandHalf
  <2>. QED
    BY <2>2, <2>3 DEF Sent
<1>. QED
  BY <1>4, <1>5, <1>6, <1>7, <1>8

LEMMA PollKeeps ==
  ASSUME ChannelInv, NEW u \in Ups, Poll(u)
  PROVE  ChannelInv'
<1>. DEFINE pos == up[u].pos
            partial == up[u].partial
            chunkTo(e) == up[u].partial \o SubSeq(commands, up[u].pos + 1, e)
<1>1. PICK end \in up[u].pos + 1 .. Len(commands) :
        LET chunk == chunkTo(end)
            clean == \A i \in Ends(chunk) : IsRecord(chunk, i)
        IN \E last \in {0} \cup Ends(chunk), lines \in LineEnds(chunk) :
             /\ \A i \in Ends(chunk) : i <= last
             /\ up' = [up EXCEPT
                  ![u].pos = end,
                  ![u].partial = After(chunk, last),
                  ![u].mode = IF clean THEN "tail" ELSE "pause",
                  ![u].batch = IF clean THEN [k \in DOMAIN lines |-> chunk[lines[k]][1]]
                               ELSE <<>>]
  BY DEF Poll
<1>. DEFINE chunk == chunkTo(end)
            clean == \A i \in Ends(chunk) : IsRecord(chunk, i)
<1>2. PICK last \in {0} \cup Ends(chunk), lines \in LineEnds(chunk) :
        /\ \A i \in Ends(chunk) : i <= last
        /\ up' = [up EXCEPT
             ![u].pos = end,
             ![u].partial = After(chunk, last),
             ![u].mode = IF clean THEN "tail" ELSE "pause",
             ![u].batch = IF clean THEN [k \in DOMAIN lines |-> chunk[lines[k]][1]]
                          ELSE <<>>]
  BY <1>1
<1>3. /\ up[u].mode = "tail" /\ up[u].batch = <<>> /\ Running(u)
      /\ UNCHANGED <<commands, events, writer, stage, from, answer, addressed, ran, worked,
                     faults, deaths>>
  BY DEF Poll, Running, files, publisherVars, history, bounds
<1>4. /\ up \in [Ups -> Bridge] /\ up[u] \in Bridge /\ UpInv(u)
      /\ commands \in Seq(CommandHalf) /\ Len(commands) \in Nat
      /\ pos \in Nat /\ partial \in Seq(CommandHalf)
      /\ \A i \in DOMAIN partial : ~IsEnd(partial[i])
  BY FieldTypes DEF ChannelInv, TypeOK, UpInv, TailInv
<1>5. /\ chunk \in Seq(CommandHalf) /\ Ends(chunk) \subseteq 1 .. Len(chunk)
      /\ Cardinality(Ends(chunk)) \in Nat
      /\ \A i \in DOMAIN chunk :
           \/ i \in DOMAIN partial /\ chunk[i] = partial[i]
           \/ /\ pos + (i - Len(partial)) \in pos + 1 .. end
              /\ pos + (i - Len(partial)) \in DOMAIN commands
              /\ chunk[i] = commands[pos + (i - Len(partial))]
      /\ \A i \in Ends(chunk) : /\ chunk[i][1] \in Publishers
                                /\ pos + (i - Len(partial)) \in pos + 1 .. end
                                /\ Sent(chunk[i][1], pos + (i - Len(partial)))
  BY ONLY <1>4, ChunkIs
<1>6. end \in Nat /\ end > pos /\ end <= Len(commands) /\ Len(partial) \in Nat
  BY <1>4
<1>. DEFINE rest == After(chunk, last)
            taken == IF clean THEN [k \in DOMAIN lines |-> chunk[lines[k]][1]] ELSE <<>>
            newMode == IF clean THEN "tail" ELSE "pause"
<1>7. /\ up' = [up EXCEPT ![u].pos = end, ![u].partial = rest,
                          ![u].mode = newMode, ![u].batch = taken]
      /\ \A i \in Ends(chunk) : i <= last
  BY <1>2
<1>. HIDE DEF chunkTo, chunk, clean, pos, partial, newMode, taken, rest
<1>8. /\ rest \in Seq(CommandHalf) /\ \A i \in DOMAIN rest : ~IsEnd(rest[i])
      /\ \A i \in DOMAIN rest : last + i \in DOMAIN chunk /\ rest[i] = chunk[last + i]
  <2>1. last \in 0 .. Len(chunk) /\ DOMAIN chunk = 1 .. Len(chunk) /\ Len(chunk) \in Nat
    BY <1>5
  <2>2. /\ rest \in Seq(CommandHalf) /\ DOMAIN rest = 1 .. Len(chunk) - last
        /\ \A i \in 1 .. Len(chunk) - last : rest[i] = chunk[last + i]
    BY <1>5, <2>1 DEF After, rest
  <2>3. ASSUME NEW i \in 1 .. Len(chunk) - last
        PROVE  last + i \in DOMAIN chunk /\ ~IsEnd(chunk[last + i])
    BY <1>7, <2>1 DEF Ends
  <2>. QED
    BY <2>2, <2>3
<1>9. /\ taken \in Seq(Publishers) /\ (taken # <<>> => newMode = "tail" /\ clean)
      /\ \E at \in [DOMAIN taken -> Ends(chunk)] :
           /\ \A k \in DOMAIN taken : taken[k] = chunk[at[k]][1]
           /\ \A j, k \in DOMAIN taken : j < k => at[j] < at[k]
  <2>1. /\ lines \in [1 .. Cardinality(Ends(chunk)) -> Ends(chunk)]
        /\ \A j, k \in DOMAIN lines : j < k => lines[j] < lines[k]
    BY DEF LineEnds
  <2>2. CASE clean
    <3>1. taken = [k \in 1 .. Cardinality(Ends(chunk)) |-> chunk[lines[k]][1]]
      BY <2>1, <2>2 DEF taken
    <3>2. DOMAIN taken = 1 .. Cardinality(Ends(chunk)) /\ DOMAIN lines = DOMAIN taken
      BY <2>1, <3>1
    <3>3. \A k \in DOMAIN taken : lines[k] \in Ends(chunk) /\ taken[k] = chunk[lines[k]][1]
      BY <2>1, <3>1, <3>2
    <3>4. taken \in Seq(Publishers)
      <4>1. \A k \in 1 .. Cardinality(Ends(chunk)) : chunk[lines[k]][1] \in Publishers
        BY <1>5, <3>2, <3>3
      <4>. QED
        BY ONLY <1>5, <3>1, <4>1
    <3>5. newMode = "tail"
      BY <2>2 DEF newMode
    <3>. QED
      BY <2>1, <2>2, <3>2, <3>3, <3>4, <3>5
  <2>3. CASE ~clean
    <3>1. taken = <<>>
      BY <2>3 DEF taken
    <3>2. DOMAIN taken = {} /\ taken \in Seq(Publishers)
      BY <3>1
    <3>3. [i \in {} |-> i] \in [DOMAIN taken -> Ends(chunk)]
      BY <3>2
    <3>. QED
      BY <3>1, <3>2, <3>3
  <2>. QED
    BY <2>2, <2>3
<1>10. newMode \in {"tail", "pause"}
  BY DEF newMode
<1>11. /\ up' \in [Ups -> Bridge] /\ up'[u] \in Bridge /\ \A v \in Ups \ {u} : up'[v] = up[v]
       /\ up'[u].pos = end /\ up'[u].partial = rest /\ up'[u].mode = newMode
       /\ up'[u].batch = taken /\ up'[u].doing = up[u].doing
       /\ up'[u].hub = up[u].hub /\ up'[u].claim = up[u].claim
  <2>1. /\ up'[u] = [up[u] EXCEPT !.pos = end, !.partial = rest, !.mode = newMode, !.batch = taken]
        /\ \A v \in Ups \ {u} : up'[v] = up[v]
    BY <1>4, <1>7
  <2>2. [up[u] EXCEPT !.pos = end, !.partial = rest, !.mode = newMode, !.batch = taken] \in Bridge
    BY ONLY <1>4, <1>6, <1>8, <1>9, <1>10 DEF Bridge
  <2>3. /\ up'[u].pos = end /\ up'[u].partial = rest /\ up'[u].mode = newMode
        /\ up'[u].batch = taken /\ up'[u].doing = up[u].doing
        /\ up'[u].hub = up[u].hub /\ up'[u].claim = up[u].claim
    BY ONLY <1>4, <2>1 DEF Bridge
  <2>4. up' \in [Ups -> Bridge]
    BY <1>4, <1>7, <2>1, <2>2
  <2>. QED
    BY <2>1, <2>2, <2>3, <2>4
<1>12. Running(u)' /\ \A p : Behind(u, p) => Behind(u, p)'
  <2>1. Running(u)'
    BY <1>10, <1>11 DEF Running
  <2>. QED
    BY <1>3, <1>4, <1>6, <1>11, <2>1, FileSame DEF Behind, pos
<1>13. TailInv(u)'
  BY <1>3, <1>4, <1>6, <1>8, <1>11, <1>12 DEF UpInv, TailInv
<1>14. ASSUME NEW i \in DOMAIN chunk, chunk[i][2] = "head"
       PROVE  u \in addressed[chunk[i][1]]
  <2>1. CASE i \in DOMAIN partial /\ chunk[i] = partial[i]
    BY <1>3, <1>4, <1>14, <2>1 DEF UpInv, AddressedInv, partial
  <2>2. CASE /\ pos + (i - Len(partial)) \in pos + 1 .. end
             /\ pos + (i - Len(partial)) \in DOMAIN commands
             /\ chunk[i] = commands[pos + (i - Len(partial))]
    <3>. DEFINE at == pos + (i - Len(partial))
    <3>1. at \in Nat /\ at > pos /\ at \in DOMAIN commands /\ chunk[i] = commands[at]
      BY <1>4, <1>6, <2>2
    <3>. HIDE DEF at
    <3>2. chunk[i] \in CommandHalf
      BY <1>5
    <3>3. chunk[i] = <<chunk[i][1], "head">> /\ chunk[i][1] \in Publishers
      BY ONLY <1>14, <3>2 DEF CommandHalf
    <3>4. Begun(chunk[i][1], at)
      BY <3>1, <3>3 DEF Begun
    <3>. QED
      BY <1>3, <1>4, <3>1, <3>3, <3>4 DEF UpInv, AddressedInv, pos
  <2>. QED
    BY <1>5, <2>1, <2>2
<1>15. AddressedInv(u)'
  <2>1. \A p \in Publishers, i \in Nat : i > end /\ Begun(p, i) => u \in addressed[p]
    BY <1>3, <1>4, <1>6 DEF UpInv, AddressedInv, pos
  <2>2. \A i \in DOMAIN rest : rest[i][2] = "head" => u \in addressed[rest[i][1]]
    BY <1>8, <1>14
  <2>. QED
    BY <1>3, <1>11, <2>1, <2>2, FileSame DEF AddressedInv
<1>16. ASSUME NEW k \in DOMAIN taken, NEW p, p = taken[k]
       PROVE  Behind(u, p)' /\ u \in addressed[p] /\ u \notin ran[p]
  <2>1. PICK i \in Ends(chunk) : p = chunk[i][1]
    BY <1>9, <1>16
  <2>. DEFINE at == pos + (i - Len(partial))
  <2>2. p \in Publishers /\ at \in pos + 1 .. end /\ Sent(p, at)
    BY <1>5, <2>1
  <2>3. at \in Nat /\ at > pos /\ at <= end
    BY <1>4, <1>6, <2>2
  <2>. HIDE DEF at
  <2>4. ~Behind(u, p)
    BY <1>3, <1>4, <2>2, <2>3 DEF Behind, ChannelInv, SentInv, pos
  <2>5. u \notin ran[p]
    BY <1>4, <2>2, <2>4 DEF UpInv, TailInv
  <2>6. Behind(u, p)'
    BY <1>3, <1>11, <2>2, <2>3, FileSame DEF Behind
  <2>7. u \in addressed[p]
    <3>1. IsRecord(chunk, i)
      BY <1>9, <1>16 DEF clean
    <3>2. i > 1 /\ chunk[i - 1] = <<p, "head">>
      BY <2>1, <3>1 DEF IsRecord
    <3>3. i - 1 \in DOMAIN chunk
      <4>1. i \in 1 .. Len(chunk) /\ DOMAIN chunk = 1 .. Len(chunk) /\ Len(chunk) \in Nat
        BY <1>5
      <4>. QED
        BY <3>2, <4>1
    <3>. QED
      BY <1>14, <3>2, <3>3
  <2>. QED
    BY <2>5, <2>6, <2>7
<1>17. ASSUME NEW j \in DOMAIN taken, NEW k \in DOMAIN taken, taken[j] = taken[k]
       PROVE  j = k
  <2>1. PICK at \in [DOMAIN taken -> Ends(chunk)] :
               /\ \A m \in DOMAIN taken : taken[m] = chunk[at[m]][1]
               /\ \A l, m \in DOMAIN taken : l < m => at[l] < at[m]
    BY <1>9
  <2>2. at[j] \in Ends(chunk) /\ at[k] \in Ends(chunk) /\ at[j] \in Nat /\ at[k] \in Nat
    BY <1>5
  <2>3. chunk[at[j]][1] = chunk[at[k]][1]
    BY <1>17, <2>1
  <2>4. pos + (at[j] - Len(partial)) = pos + (at[k] - Len(partial))
    <3>1. /\ pos + (at[j] - Len(partial)) \in pos + 1 .. end
          /\ pos + (at[k] - Len(partial)) \in pos + 1 .. end
          /\ Sent(chunk[at[j]][1], pos + (at[j] - Len(partial)))
          /\ Sent(chunk[at[k]][1], pos + (at[k] - Len(partial)))
          /\ chunk[at[j]][1] \in Publishers
      BY <1>5, <2>2, Zenon
    <3>2. pos + 1 .. end \subseteq Nat
      BY <1>4, <1>6
    <3>. QED
      BY <2>3, <3>1, <3>2, Zenon DEF ChannelInv, SentInv
  <2>5. at[j] = at[k]
    BY <1>4, <1>6, <2>2, <2>4
  <2>6. j \in Nat /\ k \in Nat
    BY <1>9
  <2>. QED
    BY <2>1, <2>2, <2>5, <2>6
<1>18. BatchInv(u)'
  <2>1. \A k \in DOMAIN up'[u].batch :
          Behind(u, up[u].batch[k])' /\ u \in addressed'[up'[u].batch[k]]
            /\ u \notin ran'[up'[u].batch[k]]
    BY <1>3, <1>11, <1>16
  <2>. QED
    BY <1>9, <1>11, <1>17, <2>1 DEF BatchInv
<1>19. LoopInv(u)' /\ RouteInv(u)'
  BY <1>3, <1>4, <1>11 DEF UpInv, LoopInv, RouteInv
<1>20. UpInv(u)'
  BY <1>13, <1>15, <1>18, <1>19 DEF UpInv
<1>21. /\ ReplyInv' /\ events' \in Seq(EventHalf) /\ faults' \in Nat /\ deaths' \in Nat
       /\ ran' \in [Publishers -> SUBSET Ups] /\ worked' \in [Publishers -> SUBSET Ups]
  BY <1>3 DEF ChannelInv, TypeOK, ReplyInv, Replies
<1>. QED
  BY <1>3, <1>11, <1>20, <1>21, StepOf

-----------------------------------------------------------------------------
(* The command loop of an `up` sets what it does, and may fill the hub.       *)
LEMMA NewDoing ==
  ASSUME TypeOK, NEW u \in Ups, NEW d \in {"run", "converge", "ack", "error"},
         NEW h \in Seq(EngineEvent),
         \/ up' = [up EXCEPT ![u].doing = d] /\ h = up[u].hub
         \/ up' = [up EXCEPT ![u].doing = d, ![u].hub = h]
  PROVE  /\ up' \in [Ups -> Bridge] /\ \A v \in Ups \ {u} : up'[v] = up[v]
         /\ up'[u].mode = up[u].mode /\ up'[u].pos = up[u].pos
         /\ up'[u].partial = up[u].partial /\ up'[u].batch = up[u].batch
         /\ up'[u].claim = up[u].claim /\ up'[u].doing = d /\ up'[u].hub = h
<1>1. up \in [Ups -> Bridge] /\ up[u] \in Bridge
  BY DEF TypeOK
<1>2. /\ \A v \in Ups \ {u} : up'[v] = up[v]
      /\ \/ up'[u] = [up[u] EXCEPT !.doing = d] /\ h = up[u].hub
         \/ up'[u] = [up[u] EXCEPT !.doing = d, !.hub = h]
  BY <1>1
<1>3. up'[u] \in Bridge
  <2>1. /\ [up[u] EXCEPT !.doing = d] \in Bridge
        /\ [up[u] EXCEPT !.doing = d, !.hub = h] \in Bridge
    BY <1>1 DEF Bridge
  <2>. QED
    BY ONLY <1>2, <2>1
<1>4. up' \in [Ups -> Bridge]
  <2>1. up' = [v \in Ups |-> up'[v]]
    BY <1>1
  <2>. QED
    BY <1>1, <1>2, <1>3, <2>1
<1>5. /\ up'[u].mode = up[u].mode /\ up'[u].pos = up[u].pos
      /\ up'[u].partial = up[u].partial /\ up'[u].batch = up[u].batch
      /\ up'[u].claim = up[u].claim /\ up'[u].doing = d /\ up'[u].hub = h
  BY ONLY <1>1, <1>2 DEF Bridge
<1>. QED
  BY <1>2, <1>4, <1>5

(* A command in hand goes on: it may have succeeded, with an engine event.    *)
LEMMA DoingStep ==
  ASSUME ChannelInv, NEW u \in Ups, up[u].batch # <<>>,
         up' \in [Ups -> Bridge], \A v \in Ups \ {u} : up'[v] = up[v],
         up'[u].mode = up[u].mode, up'[u].pos = up[u].pos,
         up'[u].partial = up[u].partial, up'[u].batch = up[u].batch,
         up'[u].claim = up[u].claim,
         up'[u].doing \in {"converge", "ack", "error"}, writer # Consumer(u),
         UNCHANGED <<files, publisherVars, addressed, ran, faults, deaths>>,
         \/ worked' = worked
         \/ Works(u) /\ u \in ran[Current(u)],
         up'[u].doing = "converge" => u \in ran[Current(u)],
         up'[u].doing = "ack" => u \in worked'[Current(u)],
         \/ up'[u].hub = up[u].hub
         \/ \E e \in EngineEvent : /\ up'[u].hub = Append(up[u].hub, e)
                                   /\ e[2] = Current(u) /\ u \in ran[Current(u)]
                                   /\ e[1] = "captured" => u \in worked'[Current(u)]
  PROVE  ChannelInv'
<1>. DEFINE p == Current(u)
<1>1. p \in Publishers /\ p = up[u].batch[1] /\ UpInv(u)
  BY InHandIsFirst DEF ChannelInv
<1>2. /\ worked' \in [Publishers -> SUBSET Ups] /\ ran' = ran /\ writer' = writer
      /\ ran' \in [Publishers -> SUBSET Ups] /\ deaths' \in Nat
      /\ \A v \in Ups \ {u}, q \in Publishers : v \in worked'[q] <=> v \in worked[q]
      /\ \A q \in Publishers : worked[q] \subseteq worked'[q]
      /\ \A q \in Publishers : u \in worked'[q] => u \in ran[q]
  <2>1. worked' = worked \/ (worked' = [worked EXCEPT ![p] = @ \cup {u}] /\ u \in ran[p])
    BY DEF Works
  <2>2. \A q \in Publishers : u \in worked[q] => u \in ran[q]
    BY <1>1 DEF UpInv, RouteInv
  <2>. HIDE DEF p
  <2>3. ran' = ran /\ writer' = writer /\ deaths' = deaths
    BY DEF files
  <2>4. /\ worked \in [Publishers -> SUBSET Ups] /\ ran \in [Publishers -> SUBSET Ups]
        /\ deaths \in Nat
    BY DEF ChannelInv, TypeOK
  <2>5. CASE worked' = worked
    BY <2>2, <2>3, <2>4, <2>5
  <2>6. CASE worked' = [worked EXCEPT ![p] = @ \cup {u}] /\ u \in ran[p]
    <3>1. \A q \in Publishers : worked'[q] = IF q = p THEN worked[q] \cup {u} ELSE worked[q]
      BY <2>4, <2>6
    <3>2. worked' \in [Publishers -> SUBSET Ups]
      BY <1>1, <2>4, <2>6
    <3>. QED
      BY <2>2, <2>3, <2>4, <2>6, <3>1, <3>2
  <2>. QED
    BY <2>1, <2>5, <2>6
<1>3. LoopInv(u)'
  BY <1>1, <1>2 DEF LoopInv
<1>4. ASSUME NEW k \in DOMAIN up'[u].hub
      PROVE  /\ u \in ran[up'[u].hub[k][2]]
             /\ up'[u].hub[k][1] = "captured" => u \in worked'[up'[u].hub[k][2]]
  <2>1. up[u].hub \in Seq(EngineEvent)
    BY FieldTypes DEF ChannelInv
  <2>2. ASSUME NEW j \in DOMAIN up[u].hub
        PROVE  /\ u \in ran[up[u].hub[j][2]]
               /\ up[u].hub[j][1] = "captured" => u \in worked'[up[u].hub[j][2]]
    <3>1. up[u].hub[j][2] \in Publishers
      BY <2>1 DEF EngineEvent
    <3>. QED
      BY <1>1, <1>2, <3>1 DEF UpInv, RouteInv
  <2>3. \/ k \in DOMAIN up[u].hub /\ up'[u].hub[k] = up[u].hub[k]
        \/ /\ up'[u].hub[k][2] = p /\ u \in ran[p]
           /\ up'[u].hub[k][1] = "captured" => u \in worked'[p]
    <3>. HIDE DEF p
    <3>1. CASE up'[u].hub = up[u].hub
      BY <3>1
    <3>2. ASSUME NEW e \in EngineEvent, up'[u].hub = Append(up[u].hub, e),
                 e[2] = p, u \in ran[p], e[1] = "captured" => u \in worked'[p]
          PROVE  \/ k \in DOMAIN up[u].hub /\ up'[u].hub[k] = up[u].hub[k]
                 \/ /\ up'[u].hub[k][2] = p /\ u \in ran[p]
                    /\ up'[u].hub[k][1] = "captured" => u \in worked'[p]
      <4>1. \/ k \in DOMAIN up[u].hub /\ up'[u].hub[k] = up[u].hub[k]
            \/ up'[u].hub[k] = e
        BY <2>1, <3>2
      <4>. QED
        BY <3>2, <4>1
    <3>. QED
      BY <3>1, <3>2 DEF p
  <2>. QED
    BY <2>2, <2>3
<1>5. RouteInv(u)'
  <2>1. writer = Router(u) => up'[u].hub # <<>> /\ up'[u].claim = "held"
    <3>1. up[u].hub \in Seq(EngineEvent)
      BY FieldTypes DEF ChannelInv
    <3>2. up[u].hub # <<>> => up'[u].hub # <<>>
      BY <3>1
    <3>. QED
      BY <1>1, <3>2 DEF UpInv, RouteInv
  <2>. QED
    BY <1>2, <1>4, <2>1 DEF RouteInv
<1>6. \A k \in DOMAIN up[u].batch :
        k > 1 \/ up'[u].doing = "idle" => u \notin ran'[up[u].batch[k]]
  BY <1>1, <1>2 DEF UpInv, BatchInv
<1>7. \A v \in Ups \ {u}, q \in Publishers : v \in ran'[q] <=> v \in ran[q]
  BY <1>2
<1>. QED
  BY <1>2, <1>3, <1>5, <1>6, <1>7, LoopStep

LEMMA TakeKeeps ==
  ASSUME ChannelInv, NEW u \in Ups, Take(u)
  PROVE  ChannelInv'
<1>. DEFINE p == Current(u)
<1>1. /\ up[u].batch # <<>> /\ up[u].doing = "idle"
      /\ UNCHANGED <<files, publisherVars, addressed, worked, faults, deaths>>
      /\ up[u].pending \in SUBSET Captures /\ UpInv(u) /\ TypeOK
      /\ up[u].hub \in Seq(EngineEvent)
  BY FieldTypes DEF Take, bounds, ChannelInv
<1>2. /\ p \in Publishers /\ p = up[u].batch[1] /\ 1 \in DOMAIN up[u].batch
      /\ Behind(u, p) /\ u \notin ran[p]
  BY <1>1, InHandIsFirst
<1>3. u \notin worked[p] /\ writer # Consumer(u) /\ writer' = writer
  BY <1>1, <1>2 DEF UpInv, LoopInv, RouteInv, files
<1>4. /\ \A k \in DOMAIN up[u].batch : up[u].batch[k] \in Publishers /\ k \in Nat /\ k >= 1
      /\ \A k \in DOMAIN up[u].batch : k > 1 => up[u].batch[k] # p
  BY <1>1, <1>2, FieldTypes DEF UpInv, BatchInv
<1>5. worked' = worked /\ worked' \in [Publishers -> SUBSET Ups] /\ deaths' \in Nat
  BY <1>1 DEF TypeOK
<1>6. CASE Submit(u)
  <2>. DEFINE more == up[u].pending \cup ({p} \cap Captures)
  <2>1. /\ up' = [up EXCEPT ![u].doing = "run", ![u].pending = more]
        /\ ran' = [ran EXCEPT ![p] = @ \cup {u}] /\ more \in SUBSET Captures
    BY <1>1, <1>6 DEF Submit, TypeOK
  <2>. HIDE DEF more
  <2>2. /\ up' \in [Ups -> Bridge] /\ \A v \in Ups \ {u} : up'[v] = up[v]
        /\ up'[u].mode = up[u].mode /\ up'[u].pos = up[u].pos
        /\ up'[u].partial = up[u].partial /\ up'[u].batch = up[u].batch
        /\ up'[u].hub = up[u].hub /\ up'[u].claim = up[u].claim /\ up'[u].doing = "run"
    <3>1. up \in [Ups -> Bridge] /\ up[u] \in Bridge
      BY <1>1 DEF TypeOK
    <3>2. /\ up'[u] = [up[u] EXCEPT !.doing = "run", !.pending = more]
          /\ \A v \in Ups \ {u} : up'[v] = up[v]
      BY <2>1, <3>1
    <3>3. [up[u] EXCEPT !.doing = "run", !.pending = more] \in Bridge
      BY ONLY <2>1, <3>1 DEF Bridge
    <3>4. up' \in [Ups -> Bridge]
      BY <2>1, <3>1, <3>2, <3>3
    <3>5. /\ up'[u].mode = up[u].mode /\ up'[u].pos = up[u].pos
          /\ up'[u].partial = up[u].partial /\ up'[u].batch = up[u].batch
          /\ up'[u].hub = up[u].hub /\ up'[u].claim = up[u].claim /\ up'[u].doing = "run"
      BY ONLY <3>1, <3>2 DEF Bridge
    <3>. QED
      BY <3>2, <3>4, <3>5
  <2>. HIDE DEF p
  <2>3. /\ ran' \in [Publishers -> SUBSET Ups]
        /\ \A q \in Publishers : ran'[q] = IF q = p THEN ran[q] \cup {u} ELSE ran[q]
    <3>1. ran \in [Publishers -> SUBSET Ups] /\ ran[p] \cup {u} \in SUBSET Ups
      BY <1>1, <1>2 DEF TypeOK
    <3>. QED
      BY ONLY <1>2, <2>1, <3>1
  <2>4. LoopInv(u)'
    BY <1>1, <1>2, <1>3, <1>5, <2>2, <2>3 DEF LoopInv
  <2>5. RouteInv(u)'
    <3>1. \A k \in DOMAIN up[u].hub : up[u].hub[k][2] \in Publishers
      BY <1>1 DEF EngineEvent
    <3>. QED
      BY <1>1, <1>3, <1>5, <2>2, <2>3, <3>1 DEF UpInv, RouteInv
  <2>6. \A k \in DOMAIN up[u].batch :
          k > 1 \/ up'[u].doing = "idle" => u \notin ran'[up[u].batch[k]]
    BY <1>1, <1>4, <2>2, <2>3 DEF UpInv, BatchInv
  <2>7. /\ \A v \in Ups \ {u}, q \in Publishers : /\ v \in ran'[q] <=> v \in ran[q]
                                                  /\ v \in worked'[q] <=> v \in worked[q]
        /\ \A q \in Publishers : worked[q] \subseteq worked'[q]
        /\ \A q \in Publishers : u \in ran'[q] => u \in ran[q] \/ Behind(u, q)
    BY <1>2, <1>5, <2>3
  <2>. QED
    BY <1>1, <1>5, <2>2, <2>3, <2>4, <2>5, <2>6, <2>7, LoopStep
<1>7. CASE up' = [up EXCEPT ![u].doing = "error"] /\ UNCHANGED ran
  <2>1. /\ up' \in [Ups -> Bridge] /\ \A v \in Ups \ {u} : up'[v] = up[v]
        /\ up'[u].mode = up[u].mode /\ up'[u].pos = up[u].pos
        /\ up'[u].partial = up[u].partial /\ up'[u].batch = up[u].batch
        /\ up'[u].hub = up[u].hub /\ up'[u].claim = up[u].claim /\ up'[u].doing = "error"
    BY ONLY <1>1, <1>7, u \in Ups, NewDoing
  <2>. QED
    BY <1>1, <1>3, <1>5, <1>7, <2>1, DoingStep
<1>. QED
  BY <1>6, <1>7 DEF Take

LEMMA CommandEndsKeeps ==
  ASSUME ChannelInv, NEW u \in Ups, CommandEnds(u)
  PROVE  ChannelInv'
<1>1. /\ up[u].doing = "run" /\ UpInv(u) /\ TypeOK
      /\ UNCHANGED <<files, publisherVars, addressed, ran, faults, deaths>>
      /\ up[u].pending \in SUBSET Captures /\ up[u].hub \in Seq(EngineEvent)
  BY FieldTypes DEF CommandEnds, bounds, ChannelInv
<1>2. up[u].batch # <<>> /\ writer # Consumer(u) /\ u \in ran[up[u].batch[1]]
  BY <1>1 DEF UpInv, LoopInv
<1>3. Current(u) = up[u].batch[1] /\ Current(u) \in Publishers
  BY <1>2, InHandIsFirst
<1>4. PICK d \in {"ack", "error"} :
        /\ up' = [up EXCEPT ![u].doing = d]
        /\ Works(u) \/ (d = "error" /\ worked' = worked)
  BY DEF CommandEnds
<1>5. d = "ack" => u \in worked'[Current(u)]
  BY <1>1, <1>3, <1>4 DEF Works, TypeOK
<1>6. /\ up' \in [Ups -> Bridge] /\ \A v \in Ups \ {u} : up'[v] = up[v]
      /\ up'[u].mode = up[u].mode /\ up'[u].pos = up[u].pos
      /\ up'[u].partial = up[u].partial /\ up'[u].batch = up[u].batch
      /\ up'[u].hub = up[u].hub /\ up'[u].claim = up[u].claim /\ up'[u].doing = d
  <2>1. d \in {"run", "converge", "ack", "error"}
    OBVIOUS
  <2>2. TypeOK /\ u \in Ups /\ up[u].hub \in Seq(EngineEvent)
    BY <1>1
  <2>3. {} \in SUBSET Captures /\ up' = [up EXCEPT ![u].doing = d]
    BY <1>4
  <2>. QED
    BY ONLY <2>1, <2>2, <2>3, NewDoing
<1>7. up'[u].doing \in {"converge", "ack", "error"} /\ up'[u].doing # "converge"
  BY <1>6
<1>. QED
  BY <1>1, <1>2, <1>3, <1>4, <1>5, <1>6, <1>7, DoingStep

LEMMA CaptureEndsKeeps ==
  ASSUME ChannelInv, NEW u \in Ups, CaptureEnds(u)
  PROVE  ChannelInv'
<1>1. /\ up[u].doing = "run" /\ UpInv(u) /\ TypeOK
      /\ UNCHANGED <<files, publisherVars, addressed, ran, faults, deaths>>
      /\ up[u].pending \in SUBSET Captures /\ up[u].hub \in Seq(EngineEvent)
  BY FieldTypes DEF CaptureEnds, bounds, ChannelInv
<1>2. up[u].batch # <<>> /\ writer # Consumer(u) /\ u \in ran[up[u].batch[1]]
  BY <1>1 DEF UpInv, LoopInv
<1>3. Current(u) = up[u].batch[1] /\ Current(u) \in Publishers
  BY <1>2, InHandIsFirst
<1>4. PICK event \in {"captured", "captureFailed"} :
        /\ up' = [up EXCEPT ![u].doing = "converge",
                            ![u].hub = Append(@, <<event, Current(u)>>)]
        /\ IF event = "captured" THEN Works(u) ELSE worked' = worked
  BY DEF CaptureEnds
<1>. DEFINE e == <<event, Current(u)>>
            h == Append(up[u].hub, e)
<1>5. e \in EngineEvent /\ e[1] = event /\ e[2] = Current(u) /\ h \in Seq(EngineEvent)
  BY <1>1, <1>3 DEF EngineEvent
<1>6. up' = [up EXCEPT ![u].doing = "converge", ![u].hub = h]
  BY <1>1, <1>4 DEF TypeOK, Bridge
<1>7. event = "captured" => u \in worked'[Current(u)]
  BY <1>1, <1>3, <1>4 DEF Works, TypeOK
<1>. HIDE DEF e, h
<1>8. /\ up' \in [Ups -> Bridge] /\ \A v \in Ups \ {u} : up'[v] = up[v]
      /\ up'[u].mode = up[u].mode /\ up'[u].pos = up[u].pos
      /\ up'[u].partial = up[u].partial /\ up'[u].batch = up[u].batch
      /\ up'[u].claim = up[u].claim /\ up'[u].doing = "converge" /\ up'[u].hub = h
  BY ONLY <1>1, <1>5, <1>6, u \in Ups, NewDoing
<1>9. worked' = worked \/ (Works(u) /\ u \in ran[Current(u)])
  BY <1>2, <1>3, <1>4
<1>10. \E x \in EngineEvent : /\ up'[u].hub = Append(up[u].hub, x)
                              /\ x[2] = Current(u) /\ u \in ran[Current(u)]
                              /\ x[1] = "captured" => u \in worked'[Current(u)]
  BY <1>2, <1>3, <1>5, <1>7, <1>8 DEF h
<1>11. up'[u].doing \in {"converge", "ack", "error"} /\ up'[u].doing # "ack"
  BY <1>8
<1>. QED
  BY <1>1, <1>2, <1>3, <1>8, <1>9, <1>10, <1>11, DoingStep

LEMMA CaptureReturnsKeeps ==
  ASSUME ChannelInv, NEW u \in Ups, CaptureReturns(u)
  PROVE  ChannelInv'
<1>1. /\ up[u].doing = "converge" /\ UpInv(u) /\ TypeOK
      /\ UNCHANGED <<files, publisherVars, addressed, ran, worked, faults, deaths>>
      /\ UNCHANGED <<commands, events, writer, stage, from, answer>>
      /\ up[u].pending \in SUBSET Captures /\ up[u].hub \in Seq(EngineEvent)
  BY FieldTypes DEF CaptureReturns, files, publisherVars, history, bounds, ChannelInv
<1>2. up[u].batch # <<>> /\ writer # Consumer(u)
  BY <1>1 DEF UpInv, LoopInv
<1>3. CASE Handled(u)
  <2>1. /\ up' \in [Ups -> Bridge] /\ up'[u] \in Bridge
        /\ \A v \in Ups \ {u} : up'[v] = up[v] /\ UpInv(u)'
    BY <1>1, <1>2, <1>3, HandledKeeps
  <2>2. /\ ReplyInv' /\ events' \in Seq(EventHalf) /\ faults' \in Nat /\ deaths' \in Nat
        /\ ran' \in [Publishers -> SUBSET Ups] /\ worked' \in [Publishers -> SUBSET Ups]
    BY <1>1 DEF ChannelInv, TypeOK, ReplyInv, Replies
  <2>3. UpInv(u)'
    BY <1>1, <1>2, <1>3, HandledKeeps
  <2>. QED
    BY <1>1, <2>1, <2>2, <2>3, StepOf
<1>4. CASE Drain(u)
  <2>. DEFINE less == up[u].pending \ {Current(u)}
  <2>1. up' = [up EXCEPT ![u].doing = "error", ![u].pending = less]
        /\ less \in SUBSET Captures
    BY <1>1, <1>4 DEF Drain, TypeOK
  <2>. HIDE DEF less
  <2>2. /\ up' \in [Ups -> Bridge] /\ \A v \in Ups \ {u} : up'[v] = up[v]
        /\ up'[u].mode = up[u].mode /\ up'[u].pos = up[u].pos
        /\ up'[u].partial = up[u].partial /\ up'[u].batch = up[u].batch
        /\ up'[u].hub = up[u].hub /\ up'[u].claim = up[u].claim /\ up'[u].doing = "error"
    <3>1. up \in [Ups -> Bridge] /\ up[u] \in Bridge
      BY <1>1 DEF TypeOK
    <3>2. /\ up'[u] = [up[u] EXCEPT !.doing = "error", !.pending = less]
          /\ \A v \in Ups \ {u} : up'[v] = up[v]
      BY <2>1, <3>1
    <3>3. [up[u] EXCEPT !.doing = "error", !.pending = less] \in Bridge
      BY ONLY <2>1, <3>1 DEF Bridge
    <3>4. up' \in [Ups -> Bridge]
      BY <2>1, <3>1, <3>2, <3>3
    <3>5. /\ up'[u].mode = up[u].mode /\ up'[u].pos = up[u].pos
          /\ up'[u].partial = up[u].partial /\ up'[u].batch = up[u].batch
          /\ up'[u].hub = up[u].hub /\ up'[u].claim = up[u].claim /\ up'[u].doing = "error"
      BY ONLY <3>1, <3>2 DEF Bridge
    <3>. QED
      BY <3>2, <3>4, <3>5
  <2>. QED
    BY <1>1, <1>2, <2>2, DoingStep
<1>. QED
  BY <1>3, <1>4 DEF CaptureReturns

LEMMA StutterKeeps ==
  ASSUME ChannelInv, UNCHANGED vars
  PROVE  ChannelInv'
<1>1. UNCHANGED <<commands, events, writer, stage, from, answer, up, addressed, ran, worked,
                  faults, deaths>>
  BY DEF vars, files, publisherVars, history, bounds
<1>2. TypeOK'
  BY <1>1 DEF ChannelInv, TypeOK
<1>3. SentInv' /\ ReplyInv'
  BY <1>1, FileSame DEF ChannelInv, SentInv, ReplyInv, Replies
<1>4. \A u \in Ups : UpInv(u)'
  <2>1. Len(commands) \in Nat
    BY DEF ChannelInv, TypeOK
  <2>. QED
    BY <1>1, <2>1, FileSame, UpsStay
<1>. QED
  BY <1>2, <1>3, <1>4 DEF ChannelInv

LEMMA StepKeeps == ChannelInv /\ [Next]_vars => ChannelInv'
<1>. SUFFICES ASSUME ChannelInv, [Next]_vars PROVE ChannelInv'
  OBVIOUS
<1>1. ASSUME NEW w \in Writers, BeginAppend(w) \/ EndAppend(w) \/ FailAppend(w)
      PROVE  ChannelInv'
  BY <1>1, BeginAppendKeeps, EndAppendKeeps, FailAppendKeeps
<1>2. ASSUME NEW p \in Publishers, TakeOffset(p) \/ SeeReply(p) \/ TimeOut(p) \/ KillPublisher(p)
      PROVE  ChannelInv'
  <2>1. SeeReply(p) => Finish(p, "done") \/ Finish(p, "failed")
    BY DEF SeeReply
  <2>2. TimeOut(p) => Finish(p, "unknown")
    BY DEF TimeOut
  <2>. QED
    BY <1>2, <2>1, <2>2, TakeOffsetKeeps, FinishKeeps, KillPublisherKeeps
<1>3. ASSUME NEW u \in Ups, Boot(u) \/ Resume(u)
      PROVE  ChannelInv'
  BY <1>3, AnchorKeeps DEF Boot, Resume
<1>4. ASSUME NEW u \in Ups, Claim(u) \/ Leave(u) \/ End(u)
      PROVE  ChannelInv'
  BY <1>4, ClaimKeeps, LeaveKeeps, EndKeeps
<1>5. ASSUME NEW u \in Ups, Poll(u) \/ Take(u)
      PROVE  ChannelInv'
  BY <1>5, PollKeeps, TakeKeeps
<1>6. ASSUME NEW u \in Ups, CommandEnds(u) \/ CaptureEnds(u) \/ CaptureReturns(u)
      PROVE  ChannelInv'
  BY <1>6, CommandEndsKeeps, CaptureEndsKeeps, CaptureReturnsKeeps
<1>7. CASE UNCHANGED vars
  BY <1>7, StutterKeeps
<1>. QED
  BY <1>1, <1>2, <1>3, <1>4, <1>5, <1>6, <1>7 DEF Next, Consume

(* The invariant that the theorems below rest on.                             *)
LEMMA ChannelInvHolds == Spec => []ChannelInv
  BY InitHolds, StepKeeps, PTL DEF Spec

-----------------------------------------------------------------------------
(* A reply that stands in the events was written after its publisher took its *)
(* offset, so a reader from there finds what a reader of the whole file finds, *)
(* however many torn records lie between.                                     *)
LEMMA InvImpliesNotMissed == ChannelInv => ReplyIsNotMissed
<1>. SUFFICES ASSUME ChannelInv, NEW p \in Publishers, stage[p] = "waiting",
                     NEW x \in Replies(p), x \in Records(events)
              PROVE  x \in Visible(p)
  BY DEF ReplyIsNotMissed
<1>. DEFINE f == from[p]
            rest == After(events, f)
<1>1. events \in Seq(EventHalf) /\ f \in Nat /\ f <= Len(events) /\ Len(events) \in Nat
  BY DEF ChannelInv, TypeOK, ReplyInv
<1>2. /\ rest \in Seq(EventHalf) /\ Len(rest) = Len(events) - f
      /\ \A i \in 1 .. Len(events) - f : rest[i] = events[f + i]
  <2>1. f + 1 \in Int /\ Len(events) \in Int /\ \A i \in f + 1 .. Len(events) : events[i] \in EventHalf
    BY <1>1
  <2>2. /\ rest \in Seq(EventHalf)
        /\ Len(rest) = IF f + 1 <= Len(events) THEN Len(events) - (f + 1) + 1 ELSE 0
        /\ \A i \in 1 .. Len(events) - (f + 1) + 1 : rest[i] = events[f + 1 + i - 1]
    BY <2>1, SubSeqProperties DEF After
  <2>. HIDE DEF rest, f
  <2>. QED
    BY <1>1, <2>2
<1>3. PICK j \in Ends(events) : IsRecord(events, j) /\ x = events[j][1]
  BY DEF Records
<1>4. /\ j \in 1 .. Len(events) /\ IsEnd(events[j]) /\ j > 1 /\ events[j - 1] = <<x, "head">>
      /\ j > 2 => IsEnd(events[j - 2])
  BY <1>1, <1>3 DEF Ends, IsRecord
<1>5. f < j - 1
  <2>1. j - 1 \in DOMAIN events /\ events[j - 1][1] \in Replies(p)
    BY <1>1, <1>4
  <2>. QED
    BY <2>1 DEF ChannelInv, ReplyInv
<1>. HIDE DEF rest, f
<1>6. /\ j - f \in 1 .. Len(rest) /\ DOMAIN rest = 1 .. Len(rest) /\ rest[j - f] = events[j]
      /\ (j - f) - 1 \in 1 .. Len(rest) /\ rest[(j - f) - 1] = events[j - 1]
      /\ (j - f) > 1
      /\ (j - f) > 2 => rest[(j - f) - 2] = events[j - 2]
  <2>1. /\ j - f \in 1 .. Len(events) - f /\ (j - f) - 1 \in 1 .. Len(events) - f /\ (j - f) > 1
        /\ (j - f) > 2 => (j - f) - 2 \in 1 .. Len(events) - f
        /\ f + (j - f) = j /\ f + ((j - f) - 1) = j - 1 /\ f + ((j - f) - 2) = j - 2
    <3>1. f \in Nat /\ Len(events) \in Nat /\ j \in Nat /\ f < j - 1 /\ j <= Len(events)
      BY <1>1, <1>4, <1>5
    <3>. QED
      BY ONLY <3>1
  <2>2. DOMAIN rest = 1 .. Len(rest)
    BY <1>2
  <2>. QED
    BY <1>2, <2>1, <2>2
<1>7. j - f \in Ends(rest)
  BY <1>4, <1>6 DEF Ends
<1>8. IsRecord(rest, j - f) /\ rest[j - f][1] = x
  <2>1. (j - f) > 2 => j > 2
    BY <1>1, <1>4
  <2>. QED
    BY <1>3, <1>4, <1>6, <2>1 DEF IsRecord
<1>. QED
  BY <1>7, <1>8 DEF Records, Visible, rest, f

(* "A tail from this offset cannot miss the reply" (channel.ts, publish and   *)
(* awaitCompletion): for any number of publishers, captures, failing appends  *)
(* and processes of `devstack up`.                                            *)
THEOREM RepliesAreNotMissed == Spec => []ReplyIsNotMissed
  BY ChannelInvHolds, InvImpliesNotMissed, PTL

-----------------------------------------------------------------------------
(* The refinement, step by step.                                              *)
SentOnes == {p \in Publishers : stage[p] \notin {"new", "ready"}}

LEMMA PromiseInit == Init => Promise!Init
<1>. SUFFICES ASSUME Init PROVE Promise!Init
  OBVIOUS
<1>1. Tailing = {} /\ SentOnes = {}
  BY DEF Init, NewUp, Tailing, Running, SentOnes
<1>. QED
  BY <1>1 DEF Init, Promise!Init, SentOnes

(* An `up` that comes or goes, and a step of nobody the promise knows of.     *)
LEMMA PromiseStutters ==
  ASSUME SentOnes' = SentOnes, UNCHANGED <<addressed, ran, worked, answer>>
  PROVE  [Promise!Next]_(Promise!vars)
<1>1. Tailing' \in SUBSET Ups
  BY DEF Tailing
<1>2. Promise!Listen
  BY <1>1 DEF Promise!Listen, SentOnes
<1>. QED
  BY <1>2 DEF Promise!Next

LEMMA SentOnesStay ==
  ASSUME UNCHANGED stage
  PROVE  SentOnes' = SentOnes
BY DEF SentOnes

(* Only the command loop of an `up` makes it work on a command.               *)
LEMMA TailingStays ==
  ASSUME TypeOK, \A v \in Ups : up'[v].mode = up[v].mode
  PROVE  Tailing' = Tailing
BY DEF Tailing, Running

LEMMA FinishStep ==
  ASSUME ChannelInv, NEW p \in Publishers, NEW a \in {"done", "failed", "unknown"},
         Finish(p, a), a = "done" => worked[p] # {}
  PROVE  [Promise!Next]_(Promise!vars)
<1>1. /\ stage[p] = "waiting" /\ stage' = [stage EXCEPT ![p] = "over"]
      /\ answer' = [answer EXCEPT ![p] = a] /\ UNCHANGED <<up, addressed, ran, worked>>
  BY DEF Finish, history
<1>2. answer[p] = "nothing" /\ p \in SentOnes
  BY <1>1 DEF ChannelInv, SentInv, SentOnes
<1>3. SentOnes' = SentOnes
  BY <1>1 DEF ChannelInv, TypeOK, SentOnes
<1>4. Tailing' = Tailing
  BY <1>1 DEF Tailing, Running
<1>5. Promise!Tell(p, a)
  BY <1>1, <1>2, <1>3, <1>4 DEF Promise!Tell, SentOnes
<1>. QED
  BY <1>5 DEF Promise!Next

(* A command succeeds where it was run.                                       *)
LEMMA WorkStep ==
  ASSUME ChannelInv, NEW u \in Ups, up[u].doing = "run", Works(u),
         Tailing' = Tailing, UNCHANGED <<stage, answer, addressed, ran>>
  PROVE  [Promise!Next]_(Promise!vars)
<1>1. up[u].batch # <<>> /\ u \in ran[up[u].batch[1]] /\ u \notin worked[up[u].batch[1]]
  BY DEF ChannelInv, UpInv, LoopInv
<1>2. Current(u) = up[u].batch[1] /\ Current(u) \in Publishers
  BY <1>1, InHandIsFirst
<1>3. Promise!Work(Current(u), u)
  BY <1>1, <1>2, SentOnesStay DEF Works, Promise!Work, SentOnes
<1>. QED
  BY <1>2, <1>3 DEF Promise!Next

LEMMA PromiseStep == ChannelInv /\ [Next]_vars => [Promise!Next]_(Promise!vars)
<1>. SUFFICES ASSUME ChannelInv, [Next]_vars PROVE [Promise!Next]_(Promise!vars)
  OBVIOUS
<1>1. ASSUME NEW w \in Writers, BeginAppend(w)
      PROVE  [Promise!Next]_(Promise!vars)
  <2>1. UNCHANGED <<answer, up, ran, worked>>
    BY <1>1 DEF BeginAppend
  <2>2. CASE w \in Publishers
    <3>1. /\ stage[w] = "ready" /\ stage' = [stage EXCEPT ![w] = "writing"]
          /\ addressed' = [addressed EXCEPT ![w] = Tailing]
      BY <1>1, <2>2, FibersAre DEF BeginAppend, Wants
    <3>2. w \notin SentOnes /\ SentOnes' = SentOnes \cup {w}
      BY <2>2, <3>1 DEF ChannelInv, TypeOK, SentOnes
    <3>3. Tailing' = Tailing
      BY <2>1 DEF Tailing, Running
    <3>4. Promise!Send(w)
      BY <2>1, <3>1, <3>2, <3>3 DEF Promise!Send, SentOnes
    <3>. QED
      BY <2>2, <3>4 DEF Promise!Next
  <2>3. CASE w \notin Publishers
    <3>1. UNCHANGED <<stage, addressed>>
      BY <1>1, <2>3 DEF BeginAppend
    <3>. QED
      BY <2>1, <3>1, SentOnesStay, PromiseStutters
  <2>. QED
    BY <2>2, <2>3
<1>2. ASSUME NEW w \in Writers, EndAppend(w)
      PROVE  [Promise!Next]_(Promise!vars)
  <2>1. UNCHANGED <<addressed, ran, worked, answer>>
    BY <1>2 DEF EndAppend, Appended, publisherVars, history
  <2>2. CASE w \in Publishers
    <3>1. stage[w] = "writing" /\ stage' = [stage EXCEPT ![w] = "waiting"]
      BY <1>2, <2>2, FibersAre DEF EndAppend, Appended, ChannelInv, SentInv
    <3>2. SentOnes' = SentOnes
      BY <2>2, <3>1 DEF ChannelInv, TypeOK, SentOnes
    <3>. QED
      BY <2>1, <3>2, PromiseStutters
  <2>3. CASE w \notin Publishers
    <3>1. stage' = stage
      BY <1>2, <2>3 DEF EndAppend, Appended, publisherVars
    <3>. QED
      BY <2>1, <3>1, SentOnesStay, PromiseStutters
  <2>. QED
    BY <2>2, <2>3
<1>3. ASSUME NEW w \in Writers, FailAppend(w)
      PROVE  [Promise!Next]_(Promise!vars)
  <2>1. UNCHANGED <<addressed, ran, worked>>
    BY <1>3 DEF FailAppend, history
  <2>2. CASE w \in Publishers
    <3>1. /\ stage' = [stage EXCEPT ![w] = "over"] /\ answer' = [answer EXCEPT ![w] = "unsent"]
          /\ up' = up
      BY <1>3, <2>2, FibersAre DEF FailAppend, NotAppended
    <3>2. stage[w] \in {"ready", "writing"}
      BY <1>3, <2>2, FibersAre DEF FailAppend, Wants, ChannelInv, SentInv
    <3>3. ran[w] = {} /\ answer[w] = "nothing"
      <4>1. \A u \in Ups : ~Behind(u, w)
        BY <2>2, <3>2 DEF ChannelInv, SentInv, Behind
      <4>2. \A u \in Ups : u \notin ran[w]
        BY <2>2, <4>1 DEF ChannelInv, UpInv, TailInv
      <4>3. ran[w] \in SUBSET Ups
        BY <2>2 DEF ChannelInv, TypeOK
      <4>. QED
        BY <2>2, <3>2, <4>2, <4>3 DEF ChannelInv, SentInv
    <3>4. SentOnes' = SentOnes \cup {w}
      BY <2>2, <3>1, <3>2 DEF ChannelInv, TypeOK, SentOnes
    <3>5. Tailing' = Tailing
      BY <3>1 DEF Tailing, Running
    <3>6. Promise!Refuse(w)
      BY <2>1, <3>1, <3>3, <3>4, <3>5 DEF Promise!Refuse, SentOnes
    <3>. QED
      BY <2>2, <3>6 DEF Promise!Next
  <2>3. CASE w \notin Publishers
    <3>1. UNCHANGED <<stage, answer>>
      BY <1>3, <2>3 DEF FailAppend, NotAppended, publisherVars
    <3>. QED
      BY <2>1, <3>1, SentOnesStay, PromiseStutters
  <2>. QED
    BY <2>2, <2>3
<1>4. ASSUME NEW p \in Publishers, TakeOffset(p) \/ KillPublisher(p)
      PROVE  [Promise!Next]_(Promise!vars)
  <2>1. UNCHANGED <<addressed, ran, worked, answer>>
    BY <1>4 DEF TakeOffset, KillPublisher, history
  <2>2. \/ stage[p] = "new" /\ stage' = [stage EXCEPT ![p] = "ready"]
        \/ stage[p] = "writing" /\ stage' = [stage EXCEPT ![p] = "over"]
    BY <1>4 DEF TakeOffset, KillPublisher, ChannelInv, SentInv
  <2>3. SentOnes' = SentOnes
    BY <2>2 DEF ChannelInv, TypeOK, SentOnes
  <2>. QED
    BY <2>1, <2>3, PromiseStutters
<1>5. ASSUME NEW p \in Publishers, SeeReply(p)
      PROVE  [Promise!Next]_(Promise!vars)
  <2>1. CASE <<"error", p>> \in Visible(p) /\ Finish(p, "failed")
    BY <2>1, FinishStep
  <2>2. CASE <<"ack", p>> \in Visible(p) /\ Finish(p, "done")
    <3>1. events \in Seq(EventHalf) /\ from[p] \in Nat /\ Len(events) \in Nat
      BY DEF ChannelInv, TypeOK
    <3>2. PICK i \in DOMAIN After(events, from[p]) : After(events, from[p])[i][1] = <<"ack", p>>
      BY <2>2 DEF Visible, Records, Ends
    <3>3. i \in 1 .. Len(events) - from[p] /\ After(events, from[p])[i] = events[from[p] + i]
      BY <3>1, <3>2 DEF After
    <3>4. from[p] + i \in DOMAIN events /\ events[from[p] + i][1] = <<"ack", p>>
      BY <3>1, <3>2, <3>3
    <3>a. ReplyInv
      BY DEF ChannelInv
    <3>5. worked[p] # {}
      BY ONLY <3>4, <3>a, p \in Publishers DEF ReplyInv
    <3>. QED
      BY <2>2, <3>5, FinishStep
  <2>. QED
    BY <1>5, <2>1, <2>2 DEF SeeReply
<1>6. ASSUME NEW p \in Publishers, TimeOut(p)
      PROVE  [Promise!Next]_(Promise!vars)
  BY <1>6, FinishStep DEF TimeOut
<1>7. ASSUME NEW u \in Ups, Take(u)
      PROVE  [Promise!Next]_(Promise!vars)
  <2>1. /\ up[u].batch # <<>> /\ up[u].doing = "idle"
        /\ UNCHANGED <<stage, answer, addressed, worked>>
    BY <1>7 DEF Take, publisherVars
  <2>2. CASE Submit(u)
    <3>. DEFINE p == Current(u)
    <3>1. /\ p \in Publishers /\ Running(u) /\ u \in addressed[p] /\ u \notin ran[p]
          /\ stage[p] \in {"waiting", "over"} /\ answer[p] # "unsent"
      BY <2>1, InHandIsFirst
    <3>2. ran' = [ran EXCEPT ![p] = @ \cup {u}] /\ \A v \in Ups : up'[v].mode = up[v].mode
      BY <2>2 DEF Submit, ChannelInv, TypeOK, Bridge
    <3>3. Tailing' = Tailing /\ u \in Tailing /\ SentOnes' = SentOnes /\ p \in SentOnes
      BY <2>1, <3>1, <3>2, TailingStays, SentOnesStay DEF ChannelInv, Tailing, SentOnes
    <3>. HIDE DEF p
    <3>4. Promise!Run(p, u)
      BY <2>1, <3>1, <3>2, <3>3 DEF Promise!Run, SentOnes
    <3>. QED
      BY <3>1, <3>4 DEF Promise!Next
  <2>3. CASE ran' = ran
    BY <2>1, <2>3, SentOnesStay, PromiseStutters
  <2>. QED
    BY <1>7, <2>2, <2>3 DEF Take
<1>8. ASSUME NEW u \in Ups, CommandEnds(u) \/ CaptureEnds(u)
      PROVE  [Promise!Next]_(Promise!vars)
  <2>1. up[u].doing = "run" /\ UNCHANGED <<stage, answer, addressed, ran>>
    BY <1>8 DEF CommandEnds, CaptureEnds, publisherVars
  <2>2. worked' = worked \/ Works(u)
    BY <1>8 DEF CommandEnds, CaptureEnds
  <2>3. \A v \in Ups : up'[v].mode = up[v].mode
    <3>1. up \in [Ups -> Bridge]
      BY DEF ChannelInv, TypeOK
    <3>2. ASSUME CommandEnds(u)
          PROVE  \A v \in Ups : up'[v].mode = up[v].mode
      <4>1. PICK d : up' = [up EXCEPT ![u].doing = d]
        BY <3>2 DEF CommandEnds
      <4>. QED
        BY <3>1, <4>1 DEF Bridge
    <3>3. ASSUME CaptureEnds(u)
          PROVE  \A v \in Ups : up'[v].mode = up[v].mode
      <4>1. PICK d, h : up' = [up EXCEPT ![u].doing = d, ![u].hub = h]
        BY <3>1, <3>3 DEF CaptureEnds, Bridge
      <4>. QED
        BY <3>1, <4>1 DEF Bridge
    <3>. QED
      BY <1>8, <3>2, <3>3
  <2>4. Tailing' = Tailing
    BY <2>3, TailingStays DEF ChannelInv
  <2>. QED
    BY <2>1, <2>2, <2>4, WorkStep, SentOnesStay, PromiseStutters
<1>9. ASSUME NEW u \in Ups,
             Boot(u) \/ Resume(u) \/ Claim(u) \/ Leave(u) \/ End(u) \/ Poll(u) \/ CaptureReturns(u)
      PROVE  [Promise!Next]_(Promise!vars)
  <2>1. UNCHANGED <<stage, answer, addressed, ran, worked>>
    BY <1>9 DEF Boot, Resume, Claim, Leave, End, Poll, CaptureReturns, publisherVars, history
  <2>. QED
    BY <2>1, SentOnesStay, PromiseStutters
<1>10. CASE UNCHANGED vars
  <2>1. UNCHANGED <<stage, answer, addressed, ran, worked>>
    BY <1>10 DEF vars, publisherVars, history
  <2>. QED
    BY <2>1, SentOnesStay, PromiseStutters
<1>. QED
  BY <1>1, <1>2, <1>3, <1>4, <1>5, <1>6, <1>7, <1>8, <1>9, <1>10 DEF Next, Consume

(* The channel keeps its promise: over torn records, lost appends, new        *)
(* subscriptions and any number of overlapping processes of `devstack up`, a  *)
(* command runs at most once in each, only in those that tailed the commands  *)
(* when it was appended, and never after its publish failed; "done" is told   *)
(* only of what succeeded somewhere.                                          *)
THEOREM ChannelImplementsPromise == Spec => ImplementsRequestReply
  BY PromiseInit, PromiseStep, ChannelInvHolds, PTL DEF Spec, ImplementsRequestReply, Promise!Spec

=============================================================================
