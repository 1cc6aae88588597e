------------------------------ MODULE TsnPerf -------------------------------
(***************************************************************************)
(* apps/tsn_perf.c on top of libktsn: the talker, which sends numbered     *)
(* messages with transmission times one interval apart, and the listener.  *)
(* The program of the process is tsn_perf or one of which nothing is known *)
(* (AnyCall of Sockets).                                                   *)
(***************************************************************************)
EXTENDS Sockets

CONSTANTS
    Sec,          \* NSEC_PER_SEC
    StartTimes,   \* values of the clock at start-up
    Interval,     \* config.interval
    Delay,        \* config.wakeup_delay
    NMsgs,        \* values of -n; 0 stands for all that are not positive
    MsgSizes,     \* values of -s
    MaxRefused,   \* bound: sendmsg calls of the talker that fail, which
                  \* stands for sendmsg failing only finitely often
    MaxClock      \* bound: the clock stops here

ASSUME TsnPerfAssumption ==
    /\ Sec \in Nat \ {0} /\ Interval \in Nat \ {0} /\ Delay \in Nat
    /\ StartTimes \cup NMsgs \cup MsgSizes \cup {MaxRefused, MaxClock} \subseteq Nat
    /\ IfIndexes # {}
    /\ \A t \in StartTimes, n \in NMsgs :
           t + 2 * Sec + (n + MaxRefused) * Interval <= MaxClock

\* The destination, of which the reading as a sockaddr_ll is never used.
Destinations == {[sll_ifindex |-> CHOOSE ix \in IfIndexes : TRUE, sin_addr |-> a] : a \in Addrs}

Configs == [port : {0, 9999}, size : MsgSizes, n_msgs : NMsgs, use_txtime : BOOLEAN,
            addr : Destinations, role : {"talker", "listener", "unset"}]

VARIABLES
    program,      \* "any" or "tsn_perf"
    pc,           \* where tsn_perf is
    config,       \* its options
    sockfd,
    run,          \* g_run
    clock,        \* CLOCK_REALTIME
    counter,      \* number of the next message
    txtime,       \* its transmission time; wakeup_time is txtime - Delay
    out,          \* history: messages sendmsg accepted
    refused       \* history: sendmsg calls that failed

perf == <<program, config, sockfd, run, counter, txtime, out, refused>>
vars == <<sockVars, perf, pc, clock>>

Init ==
    /\ SockInit
    /\ program \in {"any", "tsn_perf"}
    /\ pc = "main" /\ config = None /\ sockfd = None
    /\ run = TRUE /\ clock \in StartTimes
    /\ counter = 1 /\ txtime = 0 /\ out = << >> /\ refused = 0

Goto(from, to) == program = "tsn_perf" /\ pc = from /\ pc' = to

-----------------------------------------------------------------------------
\* main: the options are checked; APP_ROLE, which must be set, decides.
Main(c) ==
    /\ Goto("main", CASE c.port = 0 \/ c.size = 0 \/ c.size > 1450 -> "exit"
                      [] c.role = "unset" -> "fault"
                      [] c.role = "listener" -> "rxSocket"
                      [] OTHER -> "txSocket")
    /\ config' = [c EXCEPT !.n_msgs = IF @ <= 0 THEN 1 ELSE @]
    /\ UNCHANGED <<sockVars, program, sockfd, run, clock, counter, txtime, out, refused>>

\* init_tx_socket: a socket that cannot be had ends the talker, and so does a
\* kernel without SO_TIMESTAMPING; the other two options are libktsn's.
TxSocket ==
    /\ \/ /\ Goto("txSocket", "txPriority")
          /\ \E fd \in Fds : Socket(fd, "AF_INET") /\ sockfd' = fd
       \/ Goto("txSocket", "exit") /\ UNCHANGED <<sockVars, sockfd>>
    /\ UNCHANGED <<program, config, run, clock, counter, txtime, out, refused>>

TxPriority ==
    /\ Goto("txPriority", "txStamping")
    /\ \E p \in Prios : SetPriority(sockfd, p)
    /\ UNCHANGED <<perf, clock>>

TxStamping ==
    /\ Goto("txStamping", "txTxtime") \/ Goto("txStamping", "exit")
    /\ UNCHANGED <<sockVars, perf, clock>>

TxTxtime ==
    /\ Goto("txTxtime", "start")
    /\ SetTxtime(sockfd)
    /\ UNCHANGED <<perf, clock>>

\* The first message is due at the beginning of the second after the next.
Start ==
    /\ Goto("start", "loop")
    /\ txtime' = (clock \div Sec) * Sec + 2 * Sec
    /\ counter' = 1
    /\ UNCHANGED <<sockVars, program, config, sockfd, run, clock, out, refused>>

\* Mutant: clock_nanosleep is left out.
LoopNoSleep ==
    /\ Goto("loop", IF counter < config.n_msgs THEN "send" ELSE "done")
    /\ UNCHANGED <<sockVars, perf, clock>>

\* The loop's test, and clock_nanosleep until wakeup_time.
Loop ==
    /\ \/ Goto("loop", "send") /\ counter < config.n_msgs /\ clock >= txtime - Delay
       \/ Goto("loop", "done") /\ counter >= config.n_msgs
    /\ UNCHANGED <<sockVars, perf, clock>>

\* The kernel was never told of SO_TXTIME, which libktsn keeps to itself, and
\* takes no message with a transmission time.
KernelTakes == Route(sockfd, config.addr, config.use_txtime) = "default" /\ ~config.use_txtime

\* sendmsg returns the size: the message is on its way.
SendOk ==
    /\ Goto("send", "loop")
    /\ \/ SendToDaemon(sockfd, config.addr, config.use_txtime)
       \/ KernelTakes /\ SendDefault(sockfd, config.addr, config.use_txtime)
    /\ out' = Append(out, [num |-> counter, txtime |-> txtime, at |-> clock])
    /\ counter' = counter + 1
    /\ txtime' = txtime + Interval
    /\ UNCHANGED <<program, config, sockfd, run, clock, refused>>

\* sendmsg fails, here or in the kernel: the message is tried again with the
\* next transmission time.
SendRefused ==
    /\ Goto("send", "loop") /\ refused < MaxRefused
    /\ \/ SendNoSlot(sockfd, config.addr, config.use_txtime)
       \/ SendDefault(sockfd, config.addr, config.use_txtime)
    /\ txtime' = txtime + Interval
    /\ refused' = refused + 1
    /\ UNCHANGED <<program, config, sockfd, run, clock, counter, out>>

-----------------------------------------------------------------------------
\* init_rx_socket, whose failure do_listener does not look at.
RxSocket ==
    /\ \/ /\ Goto("rxSocket", "bind")
          /\ \E fd \in Fds : Socket(fd, "AF_INET") /\ sockfd' = fd
       \/ Goto("rxSocket", "recv") /\ UNCHANGED <<sockVars, sockfd>>
    /\ UNCHANGED <<program, config, run, clock, counter, txtime, out, refused>>

Bind ==
    /\ Goto("bind", "recv")
    /\ \/ UNCHANGED <<sockVars, sockfd>>
       \/ Close(sockfd) /\ sockfd' = None
    /\ UNCHANGED <<program, config, run, clock, counter, txtime, out, refused>>

\* Mutant: the loop does not look at g_run.
RecvForEver ==
    /\ Goto("recv", "recv")
    /\ UNCHANGED <<sockVars, perf, clock>>

\* The loop polls recvfrom, which changes nothing here, until g_run is cleared.
Recv ==
    /\ ~run /\ Goto("recv", "done")
    /\ UNCHANGED <<sockVars, perf, clock>>

\* The listener has a handler, the talker is killed.
Sigint ==
    /\ \/ \E l \in {"rxSocket", "bind", "recv"} : Goto(l, l) /\ run' = FALSE
       \/ \E l \in {"txSocket", "txPriority", "txStamping", "txTxtime", "start",
                    "loop", "send"} : Goto(l, "killed") /\ UNCHANGED run
    /\ UNCHANGED <<sockVars, program, config, sockfd, clock, counter, txtime, out, refused>>

-----------------------------------------------------------------------------
\* Time passes; up to the start of the talker StartTimes stands for it.
Tick ==
    /\ pc \in {"loop", "send"} /\ clock < MaxClock
    /\ clock' = clock + 1
    /\ UNCHANGED <<sockVars, perf, pc>>

PerfStep == \/ TxSocket \/ TxPriority \/ TxStamping \/ TxTxtime \/ Start
            \/ Loop \/ SendOk \/ SendRefused
            \/ RxSocket \/ Bind \/ Recv

Next ==
    \/ program = "any" /\ AnyCall /\ UNCHANGED <<perf, pc, clock>>
    \/ PerfStep \/ Sigint \/ Tick
    \/ \E c \in Configs : Main(c)
    \/ SlotReturned /\ UNCHANGED <<perf, pc, clock>>

Spec == Init /\ [][Next]_vars

\* tsn_perf runs, time passes, and the daemon returns slots.
FairSpec ==
    /\ Spec
    /\ WF_vars(PerfStep) /\ WF_vars(Tick)
    /\ WF_vars(SlotReturned /\ UNCHANGED <<perf, pc, clock>>)

-----------------------------------------------------------------------------
(***************************************************************************)
(* Properties                                                              *)
(***************************************************************************)
\* The messages of the talker are numbered from 1 without a gap although calls
\* of sendmsg fail in between, their transmission times are at least as many
\* intervals apart as their numbers, and none is handed over earlier than
\* wakeup_delay before its time.
TalkerOrder ==
    \A i \in 1..Len(out) :
        /\ out[i].num = i
        /\ out[i].at >= out[i].txtime - Delay
        /\ \A j \in 1..(i - 1) : out[i].txtime - out[j].txtime >= (i - j) * Interval

\* Where the talker's messages go the kernel's way, or the daemon's, which
\* returns slots, the talker comes to its end if sendmsg fails only finitely
\* often.  With transmission times and a destination that is on no local
\* subnet it does not: no message is ever accepted.
TalkerEnds ==
    pc = "start" /\ (config.use_txtime => Route(sockfd, config.addr, TRUE) = "daemon") ~>
        pc \in {"killed", "done"}

\* tsn_perf.c:32 on n_msgs: "Number of messages to send".  A talker that comes
\* to the end of its loop has sent that many.  It has sent one less: the loop
\* runs while counter, which starts at 1, is below n_msgs.
TalkerSendsAll ==
    pc = "done" /\ config.role = "talker" => Len(out) = config.n_msgs

\* SIGINT ends the listener, also when its socket could not be had or bound.
ListenerEnds == ~run ~> pc = "done"
=============================================================================
