--------------------------- MODULE DriverSession ---------------------------
(***************************************************************************)
(* One run of asterx_driver: main() (src/main.cpp) reads its command line  *)
(* and its configuration (module AppConfig), connects the control channel, *)
(* logs in and configures the receiver (src/receiver_config.cpp), connects *)
(* the data channel, records until something ends the loop, and stops the  *)
(* receiver's streams.  TcpClient (src/tcp_client.cpp) is the two channels *)
(* and their failures: refused, closed, timed out, and interrupted by a    *)
(* signal.                                                                 *)
(*                                                                         *)
(* The receiver is external: it answers each command it gets with a reply  *)
(* that ends in the prompt `>', accepting or refusing it.  Replies are kept *)
(* in transit, so that a late one can meet the wrong command.  The recorder *)
(* is module SbfRecorder; here its feed() returns or throws.               *)
(***************************************************************************)
EXTENDS AppConfig

CONSTANTS
  Documents,      \* the configuration files tried
  MaxAddrs,       \* most addresses getaddrinfo() returns
  MaxSignals      \* bound: SIGINT and SIGTERM in one run

ASSUME SessionAssumption == MaxAddrs \in Nat \ {0} /\ MaxSignals \in Nat

\* The streams parse_receiver() reads have the type of their field.
ASSUME DocumentsAssumption ==
  \A doc \in Documents : Or(doc.streams, DefaultStreams) \in Seq(StreamEntry)

VARIABLES
  pc,           \* where main() is
  settings,     \* cfg.receiver
  addr,         \* connect(): addresses left to try
  step,         \* command of the script, or stream stop_streams() is at
  sent,         \* the command was sent and read_until() waits for its reply
  g_stop,
  exit_code,    \* -1 while running
  to_receiver, to_driver,   \* control channel, both directions
  ctrl_up, data_up,         \* the receiver has not closed the channel
  streams,      \* receiver: 0 off, -1 as an earlier session left it, or i: as
                \* entry i of the settings asks
  config,       \* receiver: settings "old", "accepted" or "applied" as asked
  aux1,         \* receiver: has a second antenna
  signals

receiver == <<streams, config, aux1>>
channels == <<to_receiver, to_driver, ctrl_up, data_up>>
vars == <<pc, settings, addr, step, sent, g_stop, exit_code, channels, receiver, signals>>

-----------------------------------------------------------------------------
(* login() and apply() as the script of commands they send.                *)

Cmd(op, name, id) == [op |-> op, name |-> name, id |-> id]

Plain(name) == <<Cmd("set", name, 0)>>
Verified(name) == <<Cmd("set", name, 0), Cmd("get", name, 0)>>

\* Settings read back and compared after they are set, and those that are not.
VerifiedNames == {"orientation", "lever_arm", "attitude", "attitude_offset"}
TrackingNames == {"satellites", "signals", "usage", "cn0_mask"}
PlainNames == {"ip_server", "data_in_out", "imu_startup"} \cup
              (IF settings.configure_all_tracking THEN TrackingNames ELSE {})
Names == VerifiedNames \cup TrackingNames \cup {"ip_server", "data_in_out", "imu_startup"}

Clears == [i \in 1..NStreams |-> Cmd("clear", "stream", i)]

\* The banner comes without a command; it is read like a reply.
Login == <<Cmd("banner", "none", 0), Cmd("login", "none", 0)>>

\* Stale streams off, then the settings.
Setup ==
  <<Cmd("caps", "capabilities", 0)>>
    \o Clears
    \o Plain("ip_server") \o Plain("data_in_out")
    \o (IF settings.configure_all_tracking
        THEN Plain("satellites") \o Plain("signals") \o Plain("usage") \o Plain("cn0_mask")
        ELSE <<>>)
    \o Plain("imu_startup")
    \o Verified("orientation") \o Verified("lever_arm")
    \o Verified("attitude") \o Verified("attitude_offset")

\* The streams wanted, in the order of their entries.
Entries == [i \in DOMAIN settings.streams |-> Cmd("stream", "entry", i)]

Apply == Setup \o Entries

Script == Login \o Apply

MutStopSkipsLast == NStreams - 1

\* stop_streams() goes through the streams 1..LastStop.
LastStop == NStreams

Current == IF pc = "configure" THEN Script[step] ELSE Cmd("clear", "stream", step)

-----------------------------------------------------------------------------
NoSettings == [streams |-> <<>>, configure_all_tracking |-> FALSE]

Init ==
  /\ pc = "start" /\ settings = NoSettings /\ addr = 0 /\ step = 1 /\ sent = FALSE
  /\ g_stop = FALSE /\ exit_code = -1
  /\ to_receiver = <<>> /\ to_driver = <<>>
  /\ ctrl_up = TRUE /\ data_up = TRUE
  /\ streams \in [1..NStreams -> {0, -1}]
  /\ config = [n \in Names |-> "old"]
  /\ aux1 \in BOOLEAN
  /\ signals = 0

\* The process ends; destructors close the file and the sockets.
Exit(code) ==
  /\ pc' = "exit" /\ exit_code' = code
  /\ sent' = FALSE

\* 128 and the number of the signal that killed the process.
Aborted == 134
Interrupted == 130

-----------------------------------------------------------------------------
(* Start-up.                                                               *)

\* The command line: --help, a usage error, or a configuration file.
ParseArguments ==
  /\ pc = "start"
  /\ \/ Exit(0) \/ Exit(3)
     \/ pc' = "load" /\ UNCHANGED <<exit_code, sent>>
  /\ UNCHANGED <<settings, addr, step, g_stop, channels, receiver, signals>>

LoadConfig ==
  /\ pc = "load"
  /\ \E doc \in Documents :
       IF Loads(doc)
         THEN /\ settings' = parse_receiver(doc) /\ pc' = "logging"
              /\ UNCHANGED <<exit_code, sent>>
         ELSE Exit(2) /\ UNCHANGED settings
  /\ UNCHANGED <<addr, step, g_stop, channels, receiver, signals>>

\* setup_logging() is outside of main()'s try: a log file that cannot be
\* opened is an exception nobody catches.
SetupLogging ==
  /\ pc = "logging"
  /\ \/ pc' = "connect" /\ UNCHANGED <<exit_code, sent>>
     \/ Exit(Aborted)
  /\ UNCHANGED <<settings, addr, step, g_stop, channels, receiver, signals>>

\* connect(), for the control and for the data channel: name resolution.
Resolve ==
  /\ pc \in {"connect", "data_connect"} /\ addr = 0
  /\ \/ addr' \in 1..MaxAddrs /\ UNCHANGED <<pc, exit_code, sent>>
     \/ Exit(1) /\ UNCHANGED addr
  /\ UNCHANGED <<settings, step, g_stop, channels, receiver, signals>>

\* An address answers.  login() waits for the banner; before the loop the
\* recorder is constructed, which may throw.
Connected ==
  /\ pc \in {"connect", "data_connect"} /\ addr > 0
  /\ addr' = 0
  /\ IF pc = "connect"
       THEN /\ pc' = "configure" /\ sent' = TRUE
            /\ to_receiver' = <<Login[1]>>
            /\ UNCHANGED exit_code
       ELSE /\ \/ pc' = "loop" /\ UNCHANGED <<exit_code, sent>>
               \/ Exit(1)
            /\ UNCHANGED to_receiver
  /\ UNCHANGED <<settings, step, g_stop, to_driver, ctrl_up, data_up, receiver, signals>>

\* An address is refused or times out, or a signal interrupts poll(), which
\* counts as a failure of this address.
AddressFails ==
  /\ pc \in {"connect", "data_connect"} /\ addr > 0
  /\ addr' = addr - 1
  /\ IF addr = 1 THEN Exit(1) ELSE UNCHANGED <<pc, exit_code, sent>>
  /\ \/ UNCHANGED <<g_stop, signals>>
     \/ signals < MaxSignals /\ signals' = signals + 1 /\ g_stop' = TRUE
  /\ UNCHANGED <<settings, step, channels, receiver>>

-----------------------------------------------------------------------------
(* Commands and replies.                                                   *)

\* The command is done; the script or the streams to stop go on.
Advance ==
  /\ step' = step + 1 /\ sent' = FALSE
  /\ pc' = IF pc = "configure" /\ step = Len(Script) THEN "data_connect" ELSE pc
  /\ UNCHANGED exit_code

MutClearSwallowsAll == pc = "stop" \/ Current.op = "clear"

\* Whether a failure of the channel is caught: stop_streams() catches all,
\* apply()'s clearing of streams only ConfigError.
SwallowsTcpError == pc = "stop"

MutOneTryForAll ==
  IF SwallowsTcpError THEN step' = LastStop + 1 /\ sent' = FALSE /\ UNCHANGED <<pc, exit_code>>
                      ELSE Exit(1) /\ UNCHANGED step

TcpFailure ==
  IF SwallowsTcpError THEN Advance ELSE Exit(1) /\ UNCHANGED step

\* apply() builds the command of a stream entry when it gets there.
Builds(c) == c.op = "stream" => CanBuild(settings.streams[c.id], settings.ips_id)

\* The command is built, which may throw, and sent with write_all().  A send
\* into a closed connection fails, or is lost.
SendCommand ==
  /\ pc \in {"configure", "stop"} /\ ~sent
  /\ pc = "stop" => step <= LastStop
  /\ IF ~Builds(Current) THEN Exit(1) /\ UNCHANGED <<step, to_receiver>>
     ELSE \/ /\ to_receiver' = IF ctrl_up THEN Append(to_receiver, Current) ELSE to_receiver
             /\ sent' = TRUE
             /\ UNCHANGED <<pc, step, exit_code>>
          \/ ~ctrl_up /\ TcpFailure /\ UNCHANGED to_receiver
  /\ UNCHANGED <<settings, addr, g_stop, to_driver, ctrl_up, data_up, receiver, signals>>

\* Where the first line that c asks for is found, if anywhere; the reply to a
\* set command has it as well.
Payload(c, rs) ==
  {i \in DOMAIN rs : rs[i].cmd.name = c.name /\ \A j \in 1..(i - 1) : rs[j].cmd.name # c.name}

CapabilitiesOk(c, rs) ==
  \E i \in Payload(c, rs) : rs[i].wellformed /\ (settings.require_aux1 => rs[i].value)

\* What apply() checks in a reply: the antenna, or the setting read back.
Checks(c, rs) ==
  /\ c.op = "caps" => CapabilitiesOk(c, rs)
  /\ c.op = "get" => \E i \in Payload(c, rs) : rs[i].value

\* A refusal anywhere in what send_command() read.
Refused(c, rs) == c.op # "banner" /\ \E i \in DOMAIN rs : ~rs[i].ok

\* read_until() returns everything received once it holds a prompt.
ReadReply ==
  /\ sent /\ to_driver # <<>>
  /\ \E k \in 1..Len(to_driver) :
       LET rs == SubSeq(to_driver, 1, k) IN
       /\ to_driver' = SubSeq(to_driver, k + 1, Len(to_driver))
       /\ IF Refused(Current, rs)
            THEN IF Current.op = "clear" THEN Advance ELSE Exit(1) /\ UNCHANGED step
            ELSE IF Checks(Current, rs) THEN Advance ELSE Exit(1) /\ UNCHANGED step
  /\ UNCHANGED <<settings, addr, g_stop, to_receiver, ctrl_up, data_up, receiver, signals>>

\* read_until() times out, sees the channel closed, or gets an error.
ReadFails ==
  /\ sent
  /\ TcpFailure
  /\ UNCHANGED <<settings, addr, g_stop, channels, receiver, signals>>

\* A signal during poll(): read_some() returns 0, which read_until() takes for
\* a closed connection.
ReadInterrupted ==
  /\ sent /\ signals < MaxSignals
  /\ signals' = signals + 1 /\ g_stop' = TRUE
  /\ TcpFailure
  /\ UNCHANGED <<settings, addr, channels, receiver>>

-----------------------------------------------------------------------------
(* The data channel and the loop.                                          *)

\* The loop ends; rec.close() and stop_streams() follow.
EndLoop ==
  /\ pc' = "stop" /\ step' = 1
  /\ UNCHANGED <<sent, exit_code>>

MutIgnoreStop == TRUE

KeepReading == ~g_stop

LoopTest ==
  /\ pc = "loop"
  /\ IF KeepReading THEN pc' = "read" /\ UNCHANGED <<step, sent, exit_code>>
     ELSE EndLoop
  /\ UNCHANGED <<settings, addr, g_stop, channels, receiver, signals>>

\* Bytes arrive and go to rec.feed(), which may throw.
ReadData ==
  /\ pc = "read" /\ data_up
  /\ \/ pc' = "loop" /\ UNCHANGED <<exit_code, sent>>
     \/ Exit(1)
  /\ UNCHANGED <<settings, addr, step, g_stop, channels, receiver, signals>>

\* read_some() returns 0: the peer closed, or a signal came during poll().
ReadZero ==
  /\ pc = "read"
  /\ \/ ~data_up /\ UNCHANGED <<g_stop, signals>>
     \/ signals < MaxSignals /\ signals' = signals + 1 /\ g_stop' = TRUE
  /\ EndLoop
  /\ UNCHANGED <<settings, addr, channels, receiver>>

\* TcpError: ten seconds without a byte, or a socket error.
ReadError ==
  /\ pc = "read"
  /\ EndLoop
  /\ UNCHANGED <<settings, addr, g_stop, channels, receiver, signals>>

StopDone ==
  /\ pc = "stop" /\ ~sent /\ step > LastStop
  /\ Exit(0)
  /\ UNCHANGED <<settings, addr, step, g_stop, channels, receiver, signals>>

-----------------------------------------------------------------------------
(* The environment: the receiver, the network and the user.                *)

Reply(c, ok, value) ==
  to_driver' = Append(to_driver, [cmd |-> c, ok |-> ok, value |-> value,
                                  wellformed |-> TRUE])

\* The receiver executes one command.  It may refuse any, but clearing a
\* stream only when that is off already.  What it accepts it may adapt: a
\* setting then differs from what was asked, which set and get both report.
ReceiverHandles ==
  /\ ctrl_up /\ to_receiver # <<>>
  /\ to_receiver' = Tail(to_receiver)
  /\ LET c == Head(to_receiver) IN
     \/ /\ c.op \in {"banner", "login", "caps", "get"}
        /\ \/ c.op # "caps" /\ Reply(c, TRUE, c.op = "get" /\ config[c.name] = "applied")
           \/ c.op = "caps" /\ \E wf \in BOOLEAN :
                to_driver' = Append(to_driver, [cmd |-> c, ok |-> TRUE, value |-> aux1,
                                                wellformed |-> wf])
        /\ UNCHANGED <<streams, config>>
     \/ /\ c.op \notin {"banner", "clear"} \/ (c.op = "clear" /\ streams[c.id] = 0)
        /\ Reply(c, FALSE, FALSE)
        /\ UNCHANGED <<streams, config>>
     \/ /\ c.op = "clear"
        /\ streams' = [streams EXCEPT ![c.id] = 0]
        /\ Reply(c, TRUE, FALSE) /\ UNCHANGED config
     \/ /\ c.op = "stream"
        /\ LET s == settings.streams[c.id]
           IN  streams' = [streams EXCEPT ![s.id] = IF s.interval = "off" THEN 0 ELSE c.id]
        /\ Reply(c, TRUE, FALSE) /\ UNCHANGED config
     \/ /\ c.op = "set"
        /\ \E v \in {"accepted", "applied"} :
             config' = [config EXCEPT ![c.name] = v] /\ Reply(c, TRUE, v = "applied")
        /\ UNCHANGED streams
  /\ UNCHANGED <<pc, settings, addr, step, sent, g_stop, exit_code, ctrl_up, data_up, aux1, signals>>

\* Before main() installs its handlers a signal kills the process.
SignalKills ==
  /\ pc \in {"start", "load", "logging"} /\ signals < MaxSignals
  /\ signals' = signals + 1
  /\ Exit(Interrupted)
  /\ UNCHANGED <<settings, addr, step, g_stop, channels, receiver>>

\* A signal outside poll().
Signal ==
  /\ pc \notin {"start", "load", "logging", "exit"} /\ signals < MaxSignals
  /\ signals' = signals + 1 /\ g_stop' = TRUE
  /\ UNCHANGED <<pc, settings, addr, step, sent, exit_code, channels, receiver>>

\* What was under way to the receiver is lost with the connection.
CtrlCloses ==
  /\ pc \notin {"start", "load", "logging", "connect", "exit"} /\ ctrl_up
  /\ ctrl_up' = FALSE /\ to_receiver' = <<>>
  /\ UNCHANGED <<pc, settings, addr, step, sent, g_stop, exit_code, to_driver, data_up,
                 receiver, signals>>

DataCloses ==
  /\ pc \in {"loop", "read"} /\ data_up
  /\ data_up' = FALSE
  /\ UNCHANGED <<pc, settings, addr, step, sent, g_stop, exit_code, to_receiver, to_driver,
                 ctrl_up, receiver, signals>>

Driver ==
  \/ ParseArguments \/ LoadConfig \/ SetupLogging
  \/ Resolve \/ Connected \/ AddressFails
  \/ SendCommand \/ ReadReply \/ ReadFails \/ ReadInterrupted
  \/ LoopTest \/ ReadData \/ ReadZero \/ ReadError \/ StopDone

Next == Driver \/ ReceiverHandles \/ SignalKills \/ Signal \/ CtrlCloses \/ DataCloses

Spec == Init /\ [][Next]_vars

\* Every wait of the driver has a timeout, so it always goes on; the receiver
\* executes what it was sent.
FairSpec == Spec /\ WF_vars(Driver) /\ WF_vars(ReceiverHandles)

-----------------------------------------------------------------------------
(* Properties.                                                             *)

\* Types; while configuring, at most one command is under way, so that a
\* reply meets its own command.
TypeOK ==
  /\ pc \in {"start", "load", "logging", "connect", "configure", "data_connect", "loop",
             "read", "stop", "exit"}
  /\ addr \in 0..MaxAddrs
  /\ step \in 1..(Len(Script) + NStreams + 1)
  /\ sent \in BOOLEAN /\ g_stop \in BOOLEAN
  /\ ctrl_up \in BOOLEAN /\ data_up \in BOOLEAN /\ aux1 \in BOOLEAN
  /\ exit_code \in {-1, 0, 1, 2, 3, Aborted, Interrupted} /\ ((exit_code = -1) <=> (pc # "exit"))
  /\ streams \in [1..NStreams -> -1..Len(settings.streams)]
  /\ config \in [Names -> {"old", "accepted", "applied"}]
  /\ signals \in 0..MaxSignals
  /\ pc = "configure" => Len(to_receiver) + Len(to_driver) <= 1

\* What stream s is to output: the last entry for it, unless that turns it off.
StreamWanted(s) ==
  LET entries == {i \in DOMAIN settings.streams : settings.streams[i].id = s}
      last == CHOOSE i \in entries : \A j \in entries : j <= i
  IN  IF entries = {} THEN 0
      ELSE IF settings.streams[last].interval = "off" THEN 0 ELSE last

\* While the driver records, the receiver is configured as asked: settings
\* that apply() reads back have their values, the others were accepted, the
\* wanted streams are on and those of an earlier session are off.
ConfiguredAsAsked ==
  pc \in {"data_connect", "loop", "read"} =>
    /\ \A n \in VerifiedNames : config[n] = "applied"
    /\ \A n \in PlainNames : config[n] # "old"
    /\ \A s \in 1..NStreams : streams[s] = StreamWanted(s)
    /\ settings.require_aux1 => aux1

\* A configuration that is wrong anywhere, in an entry behind good ones too, is
\* found before the receiver is touched: apply(), which has by then cleared
\* the receiver's streams and changed its settings, never gets to an entry
\* whose command it cannot build, and exit code 2 means that nothing was sent.
RejectedEarly ==
  /\ exit_code = 2 => to_receiver = <<>> /\ config = [n \in Names |-> "old"]
  /\ pc = "configure" /\ ~sent => Builds(Current)

\* A run that recorded and exits with 0 has told the receiver to stop every
\* stream, whichever of stop_streams()'s commands got a late reply, a refusal or
\* none: each stream is off, or its command is under way, and nothing is that
\* could turn one on again.
StopsSent ==
  exit_code = 0 /\ settings # NoSettings /\ ctrl_up =>
    /\ \A i \in DOMAIN to_receiver : to_receiver[i].op = "clear"
    /\ \A s \in 1..NStreams :
         streams[s] = 0 \/ \E i \in DOMAIN to_receiver : to_receiver[i] = Cmd("clear", "stream", s)

\* After SIGINT or SIGTERM the process ends, wherever it was.
SignalEndsRun == g_stop ~> pc = "exit"

\* A run that recorded and exits with 0 leaves no stream on, even if replies
\* came late or were given up on, unless the control connection broke.
StreamsStopped ==
  (exit_code = 0 /\ settings # NoSettings /\ ctrl_up)
     ~> (~ctrl_up \/ \A s \in 1..NStreams : streams[s] = 0)

-----------------------------------------------------------------------------
(* What documents and comments claim.                                      *)

\* Exit codes (00-requirements.md:416-417, README.md:79): 0 is a clean shutdown
\* on a signal, a lost connection is 1.
ZeroIsCleanShutdown == exit_code = 0 /\ settings # NoSettings => g_stop
=============================================================================
