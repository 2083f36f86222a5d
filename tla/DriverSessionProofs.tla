------------------------ MODULE DriverSessionProofs ------------------------
(***************************************************************************)
(* Proofs about one run of the driver, for every number of streams, every  *)
(* set of configuration files and every number of addresses and signals:   *)
(*   TypeCorrect   the type invariant, which says too that while the       *)
(*                 receiver is configured one command is under way at most;*)
(*   Early         a wrong configuration is found before the receiver is   *)
(*                 touched;                                                *)
(*   Configured    while the driver records, the receiver is configured as *)
(*                 asked;                                                  *)
(*   Stopped       a run that recorded and exits with 0 has told every     *)
(*                 stream to stop.                                         *)
(* They rest on IInv.  Its heart is Achieved: the commands answered so far *)
(* have had the effect that apply() takes them to have had.  That it holds *)
(* needs Flight (the reply under way is the one to the current command,    *)
(* and what it says is still true), and facts about the script itself:     *)
(* that every stream is cleared before the first entry, that a setting is  *)
(* read back after it was set for the last time, that no command comes     *)
(* that the receiver cannot execute.                                       *)
(***************************************************************************)
EXTENDS DriverSession, SequenceTheorems, TLAPS

(* The inductive invariant.                                                *)

\* Commands and replies.
Ops == {"banner", "login", "caps", "clear", "set", "get", "stream"}
Titles == Names \cup {"none", "capabilities", "stream", "entry"}
Command == [op : Ops, name : Titles, id : Int]
ReplyType == [cmd : Command, ok : BOOLEAN, value : BOOLEAN, wellformed : BOOLEAN]

\* A command the receiver can execute.
Valid(c) ==
  /\ c \in Command
  /\ c.op = "stream" => c.id \in DOMAIN settings.streams
  /\ c.op = "clear" => c.id \in 1..NStreams
  /\ c.op \in {"set", "get"} => c.name \in Names

\* validate_receiver_settings() looked at every entry.
Loaded ==
  /\ settings.streams \in Seq(StreamEntry)
  /\ \A i \in DOMAIN settings.streams : CanBuild(settings.streams[i], settings.ips_id)

\* What is under way, in both directions.
Channels ==
  /\ to_receiver \in Seq(Command) /\ \A i \in DOMAIN to_receiver : Valid(to_receiver[i])
  /\ to_driver \in Seq(ReplyType)

\* The receiver is not touched before the control channel is connected.
Untouched ==
  /\ pc \in {"start", "load"} => settings = NoSettings
  /\ pc \in {"start", "load", "logging", "connect"} =>
       to_receiver = <<>> /\ to_driver = <<>> /\ step = 1 /\ ~sent
  /\ pc \in {"start", "load", "logging", "connect"} \/ exit_code = 2 =>
       to_receiver = <<>> /\ config = [n \in Names |-> "old"]

\* Which command main() is at.
StepInv ==
  /\ sent => pc \in {"configure", "stop"}
  /\ pc = "configure" => step \in 1..Len(Script)
  /\ pc = "stop" => step \in 1..(NStreams + 1) /\ (sent => step <= NStreams)

\* What a reply under way says of the receiver.
Answers(r) ==
  LET c == r.cmd IN
  /\ c.op = "set" /\ r.ok => config[c.name] # "old"
  /\ c.op = "get" /\ r.value => config[c.name] = "applied"
  /\ c.op = "caps" /\ r.ok => r.value = aux1
  /\ c.op = "clear" => streams[c.id] = 0
  /\ ~r.ok => ~r.value

\* At most the current command is under way, or the reply to it.
Flight ==
  /\ ~sent => to_receiver = <<>> /\ to_driver = <<>>
  /\ \/ to_receiver = <<Script[step]>> /\ to_driver = <<>>
     \/ to_receiver = <<>> /\ to_driver = <<>>
     \/ /\ to_receiver = <<>> /\ Len(to_driver) = 1
        /\ to_driver[1].cmd = Script[step] /\ Answers(to_driver[1])

\* Commands in front of the stream entries.
Front == 2 + Len(Setup)

\* Entry k is the last one for stream s among the first m commands.
Decides(k, s, m) ==
  /\ k \in DOMAIN settings.streams /\ Front + k <= m /\ settings.streams[k].id = s
  /\ \A j \in DOMAIN settings.streams : Front + j <= m /\ settings.streams[j].id = s => j <= k

\* What stream s is after m commands, when f are the receiver's streams.
StreamAfter(f, s, m) ==
  \/ /\ \A k \in DOMAIN settings.streams : Front + k <= m => settings.streams[k].id # s
     /\ f[s] = 0
  \/ \E k \in DOMAIN settings.streams :
       /\ Decides(k, s, m)
       /\ f[s] = IF settings.streams[k].interval = "off" THEN 0 ELSE k

\* The same for all streams whose clearing is among the m commands.
StreamsAfter(f, m) ==
  \A s \in 1..NStreams :
    (\E i \in 1..m : Script[i] = Cmd("clear", "stream", s)) => StreamAfter(f, s, m)

\* What the first m commands have achieved, when cf are the receiver's settings.
SettingsAfter(cf, m) ==
  \A i \in 1..m :
    /\ Script[i].op = "set" => cf[Script[i].name] # "old"
    /\ Script[i].op = "get" => cf[Script[i].name] = "applied"
    /\ Script[i].op = "caps" => (settings.require_aux1 => aux1)

\* How many commands are answered, and how many have taken effect.
Done == IF pc = "configure" THEN step - 1 ELSE Len(Script)
Effective == IF to_driver # <<>> /\ to_driver[1].ok THEN Done + 1 ELSE Done

\* What was answered is achieved.
Achieved == SettingsAfter(config, Done) /\ StreamsAfter(streams, Effective)

\* main() after configure(), until the loop ends.
Recording == {"data_connect", "loop", "read"}

\* Achieved holds while main() configures, and while it records.
Progress ==
  /\ pc = "configure" => Flight
  /\ pc \in Recording => to_receiver = <<>> /\ to_driver = <<>> /\ ~sent
  /\ pc = "configure" \/ pc \in Recording => Achieved

\* The parts of TypeOK, but for the last, which follows from Flight.
Flags ==
  /\ sent \in BOOLEAN /\ g_stop \in BOOLEAN
  /\ ctrl_up \in BOOLEAN /\ data_up \in BOOLEAN /\ aux1 \in BOOLEAN

\* The bounded counters.
Counters == addr \in 0..MaxAddrs /\ signals \in 0..MaxSignals

\* Where main() is.
Places ==
  /\ pc \in {"start", "load", "logging", "connect", "configure", "data_connect", "loop",
             "read", "stop", "exit"}
  /\ exit_code \in {-1, 0, 1, 2, 3, Aborted, Interrupted} /\ ((exit_code = -1) <=> (pc # "exit"))

\* The command or the stream it is at.
StepType == step \in 1..(Len(Script) + NStreams + 1)

\* The receiver.
ReceiverType ==
  /\ streams \in [1..NStreams -> -1..Len(settings.streams)]
  /\ config \in [Names -> {"old", "accepted", "applied"}]

\* The inductive invariant.
IInv ==
  /\ Flags /\ Counters /\ Places /\ StepType /\ ReceiverType
  /\ Loaded /\ Channels /\ Untouched /\ StepInv /\ Progress

-----------------------------------------------------------------------------
(* The script.                                                             *)

\* The commands of a part.
Elems(s) == {s[i] : i \in DOMAIN s}

\* A setting is read back after it was set, for the last time.
ReadBackLast(s) ==
  \A i, j \in DOMAIN s : s[i].op = "get" /\ s[j].op = "set" /\ s[i].name = s[j].name => j < i

\* Commands that set, and that read back.
Sets(S) == {Cmd("set", n, 0) : n \in S}
Gets(G) == {Cmd("get", n, 0) : n \in G}

\* A part of the script: it sets S, reads back G and has other commands E.
Part(s, E, S, G) ==
  /\ s \in Seq(Command) /\ ReadBackLast(s)
  /\ Elems(s) = E \cup Sets(S) \cup Gets(G)

\* The fields of a command.
LEMMA CmdFields ==
  \A op, name, id : /\ Cmd(op, name, id).op = op /\ Cmd(op, name, id).name = name
                    /\ Cmd(op, name, id).id = id
  BY DEF Cmd

\* Its type.
LEMMA CmdType ==
  \A op \in Ops, name \in Titles, id \in Int : Cmd(op, name, id) \in Command
  BY DEF Cmd, Command

\* The commands of two parts in a row; a setting is still read back last when
\* the second part does not set what the first has read back.
LEMMA ElemsConcat ==
  ASSUME NEW s \in Seq(Command), NEW t \in Seq(Command)
  PROVE  /\ Elems(s \o t) = Elems(s) \cup Elems(t)
         /\ (/\ ReadBackLast(s) /\ ReadBackLast(t)
             /\ \A c \in Elems(s), d \in Elems(t) :
                  c.op = "get" /\ d.op = "set" => c.name # d.name)
            => ReadBackLast(s \o t)
<1>1. PICK m \in Nat : m = Len(s)
  OBVIOUS
<1>2. PICK n \in Nat : n = Len(t)
  OBVIOUS
<1>3. PICK u \in Seq(Command) : u = s \o t
  BY ConcatProperties
<1>4. /\ DOMAIN s = 1..m /\ DOMAIN t = 1..n /\ DOMAIN u = 1..(m + n)
      /\ \A i \in 1..(m + n) : u[i] = IF i <= m THEN s[i] ELSE t[i - m]
  BY <1>1, <1>2, <1>3, ConcatProperties, LenProperties
<1>5. \A i \in 1..(m + n) : \/ i <= m /\ i \in DOMAIN s /\ u[i] = s[i]
                            \/ i > m /\ i - m \in DOMAIN t /\ u[i] = t[i - m]
  BY <1>4
<1>6. \A i \in 1..m : i \in DOMAIN u /\ u[i] = s[i]
  BY <1>4
<1>7. \A i \in 1..n : m + i \in DOMAIN u /\ u[m + i] = t[i]
  BY <1>4
<1>8. Elems(u) = Elems(s) \cup Elems(t)
  <2>1. Elems(u) \subseteq Elems(s) \cup Elems(t)
    BY <1>4, <1>5 DEF Elems
  <2>2. Elems(s) \subseteq Elems(u)
    BY <1>4, <1>6 DEF Elems
  <2>3. Elems(t) \subseteq Elems(u)
    BY <1>4, <1>7 DEF Elems
  <2> QED BY <2>1, <2>2, <2>3
<1>9. ASSUME ReadBackLast(s), ReadBackLast(t),
             \A c \in Elems(s), d \in Elems(t) : c.op = "get" /\ d.op = "set" => c.name # d.name
      PROVE  ReadBackLast(u)
  <2> SUFFICES ASSUME NEW i \in 1..(m + n), NEW j \in 1..(m + n),
                      u[i].op = "get", u[j].op = "set", u[i].name = u[j].name
               PROVE  j < i
    BY <1>4 DEF ReadBackLast
  <2>1. CASE i <= m /\ j <= m
    <3>1. i \in DOMAIN s /\ j \in DOMAIN s /\ u[i] = s[i] /\ u[j] = s[j]
      BY <1>4, <2>1
    <3> QED BY <1>9, <3>1 DEF ReadBackLast
  <2>2. CASE i > m /\ j > m
    <3>1. i - m \in DOMAIN t /\ j - m \in DOMAIN t /\ u[i] = t[i - m] /\ u[j] = t[j - m]
      BY <1>4, <2>2
    <3>2. j - m < i - m
      BY <1>9, <3>1 DEF ReadBackLast
    <3> QED BY <3>2
  <2>3. CASE i > m /\ j <= m
    BY <2>3
  <2>4. CASE i <= m /\ j > m
    <3>1. i \in DOMAIN s /\ u[i] = s[i]
      BY <1>4, <2>4
    <3>1a. u[i] \in Elems(s)
      BY <3>1 DEF Elems
    <3>2. j - m \in DOMAIN t /\ u[j] = t[j - m]
      BY <1>4, <2>4
    <3>3. u[j] \in Elems(t)
      BY <3>2 DEF Elems
    <3> QED BY <1>9, <3>1a, <3>3
  <2> QED BY <2>1, <2>2, <2>3, <2>4
<1> QED BY <1>3, <1>8, <1>9

\* Two parts in a row are a part.
LEMMA PartConcat ==
  ASSUME NEW s, NEW t, NEW E, NEW S, NEW G, NEW S2, NEW G2,
         \A c \in E : c.op \notin {"set", "get"},
         Part(s, E, S, G), Part(t, {}, S2, G2), \A n \in S2 : n \notin G
  PROVE  Part(s \o t, E, S \cup S2, G \cup G2)
<1>1. s \in Seq(Command) /\ t \in Seq(Command) /\ ReadBackLast(s) /\ ReadBackLast(t)
  BY DEF Part
<1>2. ASSUME NEW c \in Elems(s), NEW d \in Elems(t), c.op = "get", d.op = "set"
      PROVE  c.name # d.name
  <2>1. c \in Gets(G)
    BY <1>2, CmdFields DEF Part, Sets
  <2>2. d \in Sets(S2)
    BY <1>2, CmdFields DEF Part, Gets
  <2>3. c.name \in G /\ d.name \in S2
    BY <2>1, <2>2, CmdFields DEF Gets, Sets
  <2> QED BY <2>3
<1>3. s \o t \in Seq(Command) /\ ReadBackLast(s \o t) /\ Elems(s \o t) = Elems(s) \cup Elems(t)
  BY <1>1, <1>2, ElemsConcat, ConcatProperties
<1>4. Elems(s) \cup Elems(t) = E \cup Sets(S \cup S2) \cup Gets(G \cup G2)
  BY DEF Part, Sets, Gets
<1> QED BY <1>3, <1>4 DEF Part

\* Nothing at all is a part.
LEMMA EmptyPart == Part(<<>>, {}, {}, {})
<1>1. DOMAIN <<>> = {} /\ <<>> \in Seq(Command)
  OBVIOUS
<1> QED BY <1>1 DEF Part, ReadBackLast, Elems, Sets, Gets

\* A setting that is set, and one that is set and read back.
LEMMA PlainPart ==
  ASSUME NEW n \in Names
  PROVE  Part(Plain(n), {}, {n}, {})
<1>1. Cmd("set", n, 0) \in Command
  <2>1. "set" \in Ops /\ "get" \in Ops /\ n \in Titles
    BY DEF Ops, Titles
  <2> QED BY <2>1, CmdType
<1>2. PICK c : c = Cmd("set", n, 0)
  OBVIOUS
<1>3. c \in Command /\ c.op = "set"
  BY <1>1, <1>2, CmdFields
<1>4. Plain(n) = <<c>>
  BY <1>2 DEF Plain
<1>5. <<c>> \in Seq(Command) /\ DOMAIN <<c>> = {1} /\ <<c>>[1] = c
  BY <1>3
<1>6. ReadBackLast(<<c>>) /\ Elems(<<c>>) = {c}
  BY <1>3, <1>5 DEF ReadBackLast, Elems
<1>7. Sets({n}) = {c} /\ Gets({}) = {}
  BY <1>2 DEF Sets, Gets
<1> QED BY <1>4, <1>5, <1>6, <1>7 DEF Part

\* The second of them.
LEMMA VerifiedPart ==
  ASSUME NEW n \in Names
  PROVE  Part(Verified(n), {}, {n}, {n})
<1>1. Cmd("set", n, 0) \in Command /\ Cmd("get", n, 0) \in Command
  <2>1. "set" \in Ops /\ "get" \in Ops /\ n \in Titles
    BY DEF Ops, Titles
  <2> QED BY <2>1, CmdType
<1>2. PICK c : c = Cmd("set", n, 0)
  OBVIOUS
<1>3. PICK d : d = Cmd("get", n, 0)
  OBVIOUS
<1>4. c \in Command /\ c.op = "set" /\ d \in Command /\ d.op = "get"
  BY <1>1, <1>2, <1>3, CmdFields
<1>5. Verified(n) = <<c, d>>
  BY <1>2, <1>3 DEF Verified
<1>6. /\ <<c, d>> \in Seq(Command) /\ DOMAIN <<c, d>> = {1, 2}
      /\ <<c, d>>[1] = c /\ <<c, d>>[2] = d
  BY <1>4
<1>7. ReadBackLast(<<c, d>>)
  BY <1>4, <1>6 DEF ReadBackLast
<1>8. Elems(<<c, d>>) = {c, d}
  BY <1>6 DEF Elems
<1>9. Sets({n}) = {c} /\ Gets({n}) = {d}
  BY <1>2, <1>3 DEF Sets, Gets
<1> QED BY <1>5, <1>6, <1>7, <1>8, <1>9 DEF Part

\* A part with one more setting.
LEMMA AddPlain ==
  ASSUME NEW s, NEW E, NEW S, NEW G, NEW n \in Names,
         \A c \in E : c.op \notin {"set", "get"}, Part(s, E, S, G), n \notin G
  PROVE  Part(s \o Plain(n), E, S \cup {n}, G)
<1>1. PICK t : t = Plain(n)
  OBVIOUS
<1>2. Part(t, {}, {n}, {})
  BY <1>1, PlainPart
<1>3. \A m \in {n} : m \notin G
  OBVIOUS
<1>4. Part(s \o t, E, S \cup {n}, G \cup {})
  BY <1>2, <1>3, PartConcat
<1>5. G \cup {} = G
  OBVIOUS
<1> QED BY <1>1, <1>4, <1>5

\* A part with one more setting that is read back.
LEMMA AddVerified ==
  ASSUME NEW s, NEW E, NEW S, NEW G, NEW n \in Names,
         \A c \in E : c.op \notin {"set", "get"}, Part(s, E, S, G), n \notin G
  PROVE  Part(s \o Verified(n), E, S \cup {n}, G \cup {n})
<1>1. PICK t : t = Verified(n)
  OBVIOUS
<1>2. Part(t, {}, {n}, {n})
  BY <1>1, VerifiedPart
<1>3. \A m \in {n} : m \notin G
  OBVIOUS
<1>4. Part(s \o t, E, S \cup {n}, G \cup {n})
  BY <1>2, <1>3, PartConcat
<1> QED BY <1>1, <1>4

\* The commands in front of the settings.
Caps == Cmd("caps", "capabilities", 0)
ClearAll == {Cmd("clear", "stream", i) : i \in 1..NStreams}

\* The capabilities, then all streams off.
LEMMA ClearsPart == Part(<<Caps>> \o Clears, {Caps} \cup ClearAll, {}, {})
<1>1. PICK c : c = Caps
  OBVIOUS
<1>2. c \in Command /\ c.op = "caps"
  <2>1. "caps" \in Ops /\ "capabilities" \in Titles
    BY DEF Ops, Titles
  <2> QED BY <1>1, <2>1, CmdType, CmdFields DEF Caps
<1>3. <<c>> \in Seq(Command) /\ DOMAIN <<c>> = {1} /\ <<c>>[1] = c
  BY <1>2
<1>4. ReadBackLast(<<c>>) /\ Elems(<<c>>) = {c}
  BY <1>2, <1>3 DEF ReadBackLast, Elems
<1>5. \A i \in Int : Cmd("clear", "stream", i) \in Command
  <2>1. "clear" \in Ops /\ "stream" \in Titles
    BY DEF Ops, Titles
  <2> QED BY <2>1, CmdType
<1>6. \A i \in 1..NStreams : i \in Int
  BY ConfigAssumption
<1>7. \A i \in 1..NStreams : /\ Cmd("clear", "stream", i) \in Command
                             /\ Cmd("clear", "stream", i).op = "clear"
  BY <1>5, <1>6, CmdFields
<1>8. PICK t : t = Clears
  OBVIOUS
<1>9. /\ t \in [1..NStreams -> Command] /\ DOMAIN t = 1..NStreams
      /\ \A i \in 1..NStreams : t[i] = Cmd("clear", "stream", i)
  BY <1>7, <1>8 DEF Clears
<1>10. t \in Seq(Command)
  BY <1>9, ConfigAssumption
<1>11. ReadBackLast(t)
  BY <1>7, <1>9 DEF ReadBackLast
<1>12. Elems(t) = ClearAll
  BY <1>9 DEF Elems, ClearAll
<1>13. \A d \in Elems(<<c>>) : d.op # "get"
  BY <1>2, <1>4
<1>14. PICK u \in Seq(Command) : u = <<c>>
  BY <1>3
<1>15. u \o t \in Seq(Command)
  BY <1>10, <1>14, ConcatProperties
<1>16. ReadBackLast(u \o t) /\ Elems(u \o t) = Elems(u) \cup Elems(t)
  BY <1>4, <1>10, <1>11, <1>13, <1>14, ElemsConcat
<1>17. Sets({}) = {} /\ Gets({}) = {}
  BY DEF Sets, Gets
<1> QED BY <1>1, <1>4, <1>8, <1>12, <1>14, <1>15, <1>16, <1>17 DEF Part

\* The commands that set up the tracking, or none.
LEMMA TrackingPart ==
  Part(IF settings.configure_all_tracking
         THEN Plain("satellites") \o Plain("signals") \o Plain("usage") \o Plain("cn0_mask")
         ELSE <<>>,
       {}, IF settings.configure_all_tracking THEN TrackingNames ELSE {}, {})
<1>1. CASE settings.configure_all_tracking
  <2>1. PICK t1 : t1 = Plain("satellites")
    OBVIOUS
  <2>2. PICK t2 : t2 = t1 \o Plain("signals")
    OBVIOUS
  <2>3. PICK t3 : t3 = t2 \o Plain("usage")
    OBVIOUS
  <2>4. PICK t4 : t4 = t3 \o Plain("cn0_mask")
    OBVIOUS
  <2>5. \A c \in {} : c.op \notin {"set", "get"}
    OBVIOUS
  <2>6. "satellites" \in Names /\ "signals" \in Names /\ "usage" \in Names
        /\ "cn0_mask" \in Names
    BY DEF Names, TrackingNames
  <2>7. \A n : n \notin {}
    OBVIOUS
  <2>8. PICK S1 : S1 = {"satellites"}
    OBVIOUS
  <2>9. PICK S2 : S2 = S1 \cup {"signals"}
    OBVIOUS
  <2>10. PICK S3 : S3 = S2 \cup {"usage"}
    OBVIOUS
  <2>11. Part(t1, {}, S1, {})
    BY <2>1, <2>6, <2>8, PlainPart
  <2>12. Part(t2, {}, S2, {})
    BY <2>2, <2>5, <2>6, <2>7, <2>9, <2>11, AddPlain
  <2>13. Part(t3, {}, S3, {})
    BY <2>3, <2>5, <2>6, <2>7, <2>10, <2>12, AddPlain
  <2>14. Part(t4, {}, S3 \cup {"cn0_mask"}, {})
    BY <2>4, <2>5, <2>6, <2>7, <2>13, AddPlain
  <2>15. S3 \cup {"cn0_mask"} = TrackingNames
    BY <2>8, <2>9, <2>10 DEF TrackingNames
  <2> QED BY <1>1, <2>1, <2>2, <2>3, <2>4, <2>14, <2>15
<1>2. CASE ~settings.configure_all_tracking
  BY <1>2, EmptyPart
<1> QED BY <1>1, <1>2

\* What apply() does before it comes to the stream entries.
LEMMA SetupPart == Part(Setup, {Caps} \cup ClearAll, PlainNames \cup VerifiedNames, VerifiedNames)
<1>1. PICK E : E = {Caps} \cup ClearAll
  OBVIOUS
<1>2. PICK tracking : tracking =
        (IF settings.configure_all_tracking
           THEN Plain("satellites") \o Plain("signals") \o Plain("usage") \o Plain("cn0_mask")
           ELSE <<>>)
  OBVIOUS
<1>3. PICK T : T = IF settings.configure_all_tracking THEN TrackingNames ELSE {}
  OBVIOUS
<1>4. Part(tracking, {}, T, {})
  BY <1>2, <1>3, TrackingPart
<1>5. \A c \in E : c.op \notin {"set", "get"}
  BY <1>1, CmdFields DEF Caps, ClearAll
<1>6. PICK s1 : s1 = <<Caps>> \o Clears
  OBVIOUS
<1>7. Part(s1, E, {}, {})
  BY <1>1, <1>6, ClearsPart
<1>8. PICK s4, S4 : /\ Part(s4, E, S4, {})
                    /\ s4 = s1 \o Plain("ip_server") \o Plain("data_in_out") \o tracking
                    /\ S4 = {"ip_server", "data_in_out"} \cup T
  <2>1. PICK s2 : s2 = s1 \o Plain("ip_server")
    OBVIOUS
  <2>2. PICK s3 : s3 = s2 \o Plain("data_in_out")
    OBVIOUS
  <2>3. "ip_server" \in Names /\ "data_in_out" \in Names /\ \A n : n \notin {}
    BY DEF Names
  <2>4. PICK S2 : S2 = {} \cup {"ip_server"}
    OBVIOUS
  <2>5. PICK S3 : S3 = S2 \cup {"data_in_out"}
    OBVIOUS
  <2>6. Part(s2, E, S2, {})
    BY <1>5, <1>7, <2>1, <2>3, <2>4, AddPlain
  <2>7. Part(s3, E, S3, {})
    BY <1>5, <2>2, <2>3, <2>5, <2>6, AddPlain
  <2>8. Part(s3 \o tracking, E, S3 \cup T, {} \cup {})
    BY <1>4, <1>5, <2>3, <2>7, PartConcat
  <2>9. {} \cup {} = {} /\ S3 = {"ip_server", "data_in_out"}
    BY <2>4, <2>5
  <2> QED BY <2>1, <2>2, <2>8, <2>9
<1>9. PICK s5 : s5 = s4 \o Plain("imu_startup")
  OBVIOUS
<1>10. PICK S5 : S5 = S4 \cup {"imu_startup"}
  OBVIOUS
<1>11. Part(s5, E, S5, {})
  <2>1. "imu_startup" \in Names /\ "imu_startup" \notin {}
    BY DEF Names
  <2> QED BY <1>5, <1>8, <1>9, <1>10, <2>1, AddPlain
<1>12. PICK s6, S6, G6 : /\ Part(s6, E, S6, G6) /\ s6 = s5 \o Verified("orientation")
                         /\ S6 = S5 \cup {"orientation"} /\ G6 = {"orientation"}
  <2>1. /\ "orientation" \in Names /\ "orientation" \notin {}
        /\ {} \cup {"orientation"} = {"orientation"}
    BY DEF Names, VerifiedNames
  <2>2. Part(s5 \o Verified("orientation"), E, S5 \cup {"orientation"}, {} \cup {"orientation"})
    BY <1>5, <1>11, <2>1, AddVerified
  <2> QED BY <2>1, <2>2
<1>13. PICK s7, S7, G7 : /\ Part(s7, E, S7, G7) /\ s7 = s6 \o Verified("lever_arm")
                         /\ S7 = S6 \cup {"lever_arm"} /\ G7 = G6 \cup {"lever_arm"}
  <2>1. "lever_arm" \in Names /\ "lever_arm" \notin G6
    BY <1>12 DEF Names, VerifiedNames
  <2> QED BY <1>5, <1>12, <2>1, AddVerified
<1>14. PICK s8, S8, G8 : /\ Part(s8, E, S8, G8) /\ s8 = s7 \o Verified("attitude")
                         /\ S8 = S7 \cup {"attitude"} /\ G8 = G7 \cup {"attitude"}
  <2>1. "attitude" \in Names /\ "attitude" \notin G7
    BY <1>12, <1>13 DEF Names, VerifiedNames
  <2> QED BY <1>5, <1>13, <2>1, AddVerified
<1>15. Part(s8 \o Verified("attitude_offset"), E, S8 \cup {"attitude_offset"},
            G8 \cup {"attitude_offset"})
  <2>1. "attitude_offset" \in Names /\ "attitude_offset" \notin G8
    BY <1>12, <1>13, <1>14 DEF Names, VerifiedNames
  <2> QED BY <1>5, <1>14, <2>1, AddVerified
<1>16. Setup = s8 \o Verified("attitude_offset")
  BY <1>2, <1>6, <1>8, <1>9, <1>12, <1>13, <1>14 DEF Setup, Caps
<1>17. S8 \cup {"attitude_offset"} = PlainNames \cup VerifiedNames
  BY <1>3, <1>8, <1>10, <1>12, <1>13, <1>14 DEF PlainNames, VerifiedNames
<1>18. G8 \cup {"attitude_offset"} = VerifiedNames
  BY <1>12, <1>13, <1>14 DEF VerifiedNames
<1> QED BY <1>1, <1>15, <1>16, <1>17, <1>18

\* Where login(), the settings and the stream entries are in the script.
LEMMA ScriptParts ==
  ASSUME settings.streams \in Seq(StreamEntry)
  PROVE  /\ Script \in Seq(Command) /\ Front \in Nat /\ Front >= 2
         /\ Len(Script) = Front + Len(settings.streams)
         /\ DOMAIN settings.streams = 1..Len(settings.streams)
         /\ Script[1] = Cmd("banner", "none", 0)
         /\ Script[2] = Cmd("login", "none", 0)
         /\ \A i \in 3..Front : i - 2 \in DOMAIN Setup /\ Script[i] = Setup[i - 2]
         /\ \A i \in DOMAIN Setup : i + 2 \in 3..Front /\ Script[i + 2] = Setup[i]
         /\ \A k \in DOMAIN settings.streams : Script[Front + k] = Cmd("stream", "entry", k)
<1>1. PICK n \in Nat : n = Len(settings.streams) /\ DOMAIN settings.streams = 1..n
  BY LenProperties
<1>2. PICK u : u = Setup
  OBVIOUS
<1>3. u \in Seq(Command)
  BY <1>2, SetupPart DEF Part
<1>4. PICK m \in Nat : m = Len(u) /\ DOMAIN u = 1..m
  BY <1>3, LenProperties
<1>5. PICK e : e = Entries
  OBVIOUS
<1>6. e \in Seq(Command) /\ Len(e) = n /\ \A k \in 1..n : e[k] = Cmd("stream", "entry", k)
  <2>1. "stream" \in Ops /\ "entry" \in Titles
    BY DEF Ops, Titles
  <2>2. \A k \in 1..n : Cmd("stream", "entry", k) \in Command
    BY <2>1, CmdType
  <2>3. e = [k \in 1..n |-> Cmd("stream", "entry", k)]
    BY <1>1, <1>5 DEF Entries
  <2> QED BY <2>2, <2>3
<1>7. PICK l : l = Login
  OBVIOUS
<1>8. /\ l \in Seq(Command) /\ Len(l) = 2
      /\ l[1] = Cmd("banner", "none", 0) /\ l[2] = Cmd("login", "none", 0)
  <2>1. "banner" \in Ops /\ "login" \in Ops /\ "none" \in Titles
    BY DEF Ops, Titles
  <2>2. PICK c : c = Cmd("banner", "none", 0)
    OBVIOUS
  <2>3. PICK d : d = Cmd("login", "none", 0)
    OBVIOUS
  <2>4. c \in Command /\ d \in Command
    BY <2>1, <2>2, <2>3, CmdType
  <2>5. l = <<c, d>>
    BY <1>7, <2>2, <2>3 DEF Login
  <2> QED BY <2>2, <2>3, <2>4, <2>5
<1>9. PICK a \in Seq(Command) : a = u \o e
  BY <1>3, <1>6, ConcatProperties
<1>10. /\ Len(a) = m + n
       /\ \A i \in 1..(m + n) : a[i] = IF i <= m THEN u[i] ELSE e[i - m]
  BY <1>3, <1>4, <1>6, <1>9, ConcatProperties
<1>11. PICK sc \in Seq(Command) : sc = l \o a
  BY <1>8, ConcatProperties
<1>12. /\ Len(sc) = 2 + (m + n)
       /\ \A i \in 1..(2 + (m + n)) : sc[i] = IF i <= 2 THEN l[i] ELSE a[i - 2]
  <2>1. /\ Len(sc) = Len(l) + Len(a)
        /\ \A i \in 1..(Len(l) + Len(a)) : sc[i] = IF i <= Len(l) THEN l[i] ELSE a[i - Len(l)]
    BY <1>8, <1>11, ConcatProperties
  <2> QED BY <1>8, <1>10, <2>1
<1>13. Script = sc
  BY <1>2, <1>5, <1>7, <1>9, <1>11 DEF Script, Apply
<1>14. PICK fr \in Nat : fr = Front /\ fr = 2 + m
  BY <1>2, <1>4 DEF Front
<1>15. sc[1] = Cmd("banner", "none", 0) /\ sc[2] = Cmd("login", "none", 0)
  BY <1>8, <1>12
<1>16. \A i \in 3..fr : i - 2 \in 1..m /\ sc[i] = u[i - 2]
  BY <1>10, <1>12, <1>14
<1>17. \A i \in 1..m : i + 2 \in 3..fr /\ sc[i + 2] = u[i]
  BY <1>10, <1>12, <1>14
<1>18. \A k \in 1..n : sc[fr + k] = Cmd("stream", "entry", k)
  <2> SUFFICES ASSUME NEW k \in 1..n PROVE sc[fr + k] = Cmd("stream", "entry", k)
    OBVIOUS
  <2>1. sc[fr + k] = a[m + k]
    BY <1>12, <1>14
  <2>2. a[m + k] = e[k]
    <3>1. m + k \in 1..(m + n) /\ ~(m + k <= m) /\ (m + k) - m = k
      OBVIOUS
    <3> QED BY <1>10, <3>1
  <2> QED BY <1>6, <2>1, <2>2
<1>19. Script \in Seq(Command) /\ Front \in Nat /\ Front >= 2
  BY <1>13, <1>14
<1>20. Len(Script) = Front + Len(settings.streams)
  BY <1>1, <1>12, <1>13, <1>14
<1>21. \A i \in 3..Front : i - 2 \in DOMAIN Setup /\ Script[i] = Setup[i - 2]
  BY <1>2, <1>4, <1>13, <1>14, <1>16
<1>22. \A i \in DOMAIN Setup : i + 2 \in 3..Front /\ Script[i + 2] = Setup[i]
  BY <1>2, <1>4, <1>13, <1>14, <1>17
<1>23. \A k \in DOMAIN settings.streams : Script[Front + k] = Cmd("stream", "entry", k)
  BY <1>1, <1>13, <1>14, <1>18
<1> QED BY <1>1, <1>13, <1>15, <1>19, <1>20, <1>21, <1>22, <1>23

\* What each command of the script is.
Kind(i) ==
  \/ i = 1 /\ Script[i] = Cmd("banner", "none", 0)
  \/ i = 2 /\ Script[i] = Cmd("login", "none", 0)
  \/ i \in 3..Front /\ Script[i] = Caps
  \/ i \in 3..Front /\ \E s \in 1..NStreams : Script[i] = Cmd("clear", "stream", s)
  \/ i \in 3..Front /\ \E n \in Names : Script[i] = Cmd("set", n, 0)
  \/ i \in 3..Front /\ \E n \in Names : Script[i] = Cmd("get", n, 0)
  \/ i > Front /\ \E k \in DOMAIN settings.streams :
                     i = Front + k /\ Script[i] = Cmd("stream", "entry", k)

\* Only known settings are used.
LEMMA NamesUsed == PlainNames \subseteq Names /\ VerifiedNames \subseteq Names
  BY DEF PlainNames, VerifiedNames, Names

\* What the script has, and in which order.
LEMMA ScriptFacts ==
  ASSUME settings.streams \in Seq(StreamEntry)
  PROVE  /\ \A i \in 1..Len(Script) : Kind(i)
         /\ \A s \in 1..NStreams : \E i \in 1..Front : Script[i] = Cmd("clear", "stream", s)
         /\ \A n \in PlainNames \cup VerifiedNames :
              \E i \in 1..Len(Script) : Script[i] = Cmd("set", n, 0)
         /\ \A n \in VerifiedNames : \E i \in 1..Len(Script) : Script[i] = Cmd("get", n, 0)
         /\ \E i \in 1..Len(Script) : Script[i] = Caps
         /\ \A i, j \in 1..Len(Script) :
              Script[i].op = "get" /\ Script[j].op = "set" /\ Script[i].name = Script[j].name
                => j < i
<1>1. PICK fr \in Nat : fr = Front /\ fr >= 2
  BY ScriptParts
<1>2. PICK n \in Nat : n = Len(settings.streams) /\ DOMAIN settings.streams = 1..n
  BY LenProperties
<1>3. Len(Script) = fr + n
  BY <1>1, <1>2, ScriptParts
<1>4. PICK m \in Nat : fr = 2 + m /\ DOMAIN Setup = 1..m
  BY <1>1, SetupPart, LenProperties DEF Part, Front
<1>5. /\ \A i \in 3..fr : i - 2 \in 1..m /\ Script[i] = Setup[i - 2]
      /\ \A i \in 1..m : i + 2 \in 3..fr /\ Script[i + 2] = Setup[i]
  BY <1>1, <1>4, ScriptParts
<1>6. Elems(Setup) = {Caps} \cup ClearAll \cup Sets(PlainNames \cup VerifiedNames)
                       \cup Gets(VerifiedNames)
  BY SetupPart DEF Part
<1>7. \A i \in 3..fr : Script[i] \in Elems(Setup)
  BY <1>4, <1>5 DEF Elems
<1>8. \A c \in Elems(Setup) : \E i \in 3..fr : Script[i] = c
  <2> SUFFICES ASSUME NEW c \in Elems(Setup) PROVE \E i \in 3..fr : Script[i] = c
    OBVIOUS
  <2>1. PICK i \in 1..m : c = Setup[i]
    BY <1>4 DEF Elems
  <2>2. i + 2 \in 3..fr /\ Script[i + 2] = c
    BY <1>5, <2>1
  <2> QED BY <2>2
<1>9. ASSUME NEW i \in 1..Len(Script) PROVE Kind(i)
  <2>1. CASE i \in {1, 2}
    BY <2>1, ScriptParts DEF Kind
  <2>2. CASE i \in 3..fr
    <3>1. \/ Script[i] = Caps
          \/ \E s \in 1..NStreams : Script[i] = Cmd("clear", "stream", s)
          \/ \E k \in PlainNames \cup VerifiedNames : Script[i] = Cmd("set", k, 0)
          \/ \E k \in VerifiedNames : Script[i] = Cmd("get", k, 0)
      BY <1>6, <1>7, <2>2 DEF ClearAll, Sets, Gets
    <3> QED BY <1>1, <2>2, <3>1, NamesUsed DEF Kind
  <2>3. CASE i > fr
    <3>1. i - fr \in 1..n /\ i = fr + (i - fr)
      BY <1>3, <2>3
    <3>2. PICK k \in 1..n : i = fr + k
      BY <3>1
    <3>3. Script[i] = Cmd("stream", "entry", k)
      BY <1>1, <1>2, <3>2, ScriptParts
    <3> QED BY <1>1, <1>2, <2>3, <3>2, <3>3 DEF Kind
  <2> QED BY <1>3, <2>1, <2>2, <2>3
<1>10. ASSUME NEW s \in 1..NStreams
       PROVE  \E i \in 1..Front : Script[i] = Cmd("clear", "stream", s)
  <2>1. Cmd("clear", "stream", s) \in Elems(Setup)
    BY <1>6 DEF ClearAll
  <2>2. PICK i \in 3..fr : Script[i] = Cmd("clear", "stream", s)
    BY <1>8, <2>1
  <2>3. i \in 1..fr
    OBVIOUS
  <2> QED BY <1>1, <2>2, <2>3
<1>11. \A i \in 3..fr : i \in 1..(fr + n)
  OBVIOUS
<1>12. ASSUME NEW k \in PlainNames \cup VerifiedNames
       PROVE  \E i \in 1..Len(Script) : Script[i] = Cmd("set", k, 0)
  <2>1. Cmd("set", k, 0) \in Elems(Setup)
    BY <1>6 DEF Sets
  <2> QED BY <1>3, <1>8, <1>11, <2>1
<1>13. ASSUME NEW k \in VerifiedNames
       PROVE  \E i \in 1..Len(Script) : Script[i] = Cmd("get", k, 0)
  <2>1. Cmd("get", k, 0) \in Elems(Setup)
    BY <1>6 DEF Gets
  <2> QED BY <1>3, <1>8, <1>11, <2>1
<1>14. ASSUME NEW i \in 1..Len(Script), NEW j \in 1..Len(Script),
              Script[i].op = "get", Script[j].op = "set", Script[i].name = Script[j].name
       PROVE  j < i
  <2>1. i \in 3..fr
    <3>1. Kind(i)
      BY <1>9
    <3>2. Script[i].op \in {"get", "set"}
      BY <1>14
    <3> QED BY <1>1, <3>1, <3>2, CmdFields DEF Kind, Caps
  <2>2. j \in 3..fr
    <3>1. Kind(j)
      BY <1>9
    <3>2. Script[j].op \in {"get", "set"}
      BY <1>14
    <3> QED BY <1>1, <3>1, <3>2, CmdFields DEF Kind, Caps
  <2>3. /\ i - 2 \in 1..m /\ Script[i] = Setup[i - 2]
        /\ j - 2 \in 1..m /\ Script[j] = Setup[j - 2]
    BY <1>5, <2>1, <2>2
  <2>4. ReadBackLast(Setup)
    BY SetupPart DEF Part
  <2>5. j - 2 < i - 2
    BY <1>4, <1>14, <2>3, <2>4 DEF ReadBackLast
  <2> QED BY <2>5
<1>15. \E i \in 1..Len(Script) : Script[i] = Caps
  <2>1. Caps \in Elems(Setup)
    BY <1>6
  <2> QED BY <1>3, <1>8, <1>11, <2>1
<1> QED BY <1>9, <1>10, <1>12, <1>13, <1>14, <1>15

-----------------------------------------------------------------------------
(* What one more command does to what is achieved.                         *)

\* The script depends on the settings only.
LEMMA ScriptFixed ==
  ASSUME UNCHANGED settings
  PROVE  /\ Script' = Script /\ Front' = Front /\ Entries' = Entries
         /\ PlainNames' = PlainNames /\ Names' = Names /\ VerifiedNames' = VerifiedNames
  BY DEF Script, Front, Login, Apply, Setup, Entries, Clears, Plain, Verified, Cmd,
         PlainNames, VerifiedNames, TrackingNames, Names

\* Achieved in the next state, from what is known in this one.
LEMMA Transfer ==
  ASSUME UNCHANGED <<settings, aux1>>,
         NEW f, f = streams', NEW n, n = Effective', StreamsAfter(f, n),
         NEW cf, cf = config', NEW m, m = Done', SettingsAfter(cf, m)
  PROVE  Achieved'
<1>1. Script' = Script /\ Front' = Front /\ settings' = settings /\ aux1' = aux1
  BY ScriptFixed
<1>2. SettingsAfter(config, Done)'
  BY <1>1 DEF SettingsAfter
<1>3. StreamsAfter(streams, Effective)'
  BY <1>1 DEF StreamsAfter, StreamAfter, Decides, Cmd
<1> QED BY <1>2, <1>3 DEF Achieved

\* One more command that did what it is for.
LEMMA SettingsGrow ==
  ASSUME NEW cf, NEW m \in Nat, SettingsAfter(cf, m),
         Script[m + 1].op = "set" => cf[Script[m + 1].name] # "old",
         Script[m + 1].op = "get" => cf[Script[m + 1].name] = "applied",
         Script[m + 1].op = "caps" => (settings.require_aux1 => aux1)
  PROVE  SettingsAfter(cf, m + 1)
<1>1. \A i \in 1..(m + 1) : i \in 1..m \/ i = m + 1
  OBVIOUS
<1> QED BY <1>1 DEF SettingsAfter

\* A later command does not undo what was read back.
LEMMA SettingsKept ==
  ASSUME settings.streams \in Seq(StreamEntry),
         NEW m \in Nat, m + 1 \in 1..Len(Script), Script[m + 1].op = "set",
         NEW cf \in [Names -> {"old", "accepted", "applied"}], SettingsAfter(cf, m),
         NEW v \in {"accepted", "applied"}, NEW n \in Names, n = Script[m + 1].name
  PROVE  SettingsAfter([cf EXCEPT ![n] = v], m)
<1>1. PICK g : g = [cf EXCEPT ![n] = v]
  OBVIOUS
<1>2. \A x \in Names : g[x] = IF x = n THEN v ELSE cf[x]
  BY <1>1
<1>3. SUFFICES ASSUME NEW i \in 1..m
               PROVE  /\ Script[i].op = "set" => g[Script[i].name] # "old"
                      /\ Script[i].op = "get" => g[Script[i].name] = "applied"
                      /\ Script[i].op = "caps" => (settings.require_aux1 => aux1)
  BY <1>1 DEF SettingsAfter
<1>4. PICK c : c = Script[i]
  OBVIOUS
<1>5. /\ c.op = "set" => cf[c.name] # "old"
      /\ c.op = "get" => cf[c.name] = "applied"
      /\ c.op = "caps" => (settings.require_aux1 => aux1)
  BY <1>4 DEF SettingsAfter
<1>6. i \in 1..Len(Script) /\ i < m + 1
  BY ScriptParts
<1>7. Kind(i)
  BY <1>6, ScriptFacts
<1>8. c.op \in {"set", "get"} => c.name \in Names
  BY <1>4, <1>7, CmdFields DEF Kind, Caps
<1>9. c.op = "get" => c.name # n
  BY <1>4, <1>6, ScriptFacts
<1> QED BY <1>2, <1>4, <1>5, <1>8, <1>9

\* One number more, which is not this one.
LEMMA UpToNext == \A a, k, m \in Nat : a + k # m + 1 => (a + k <= m + 1 <=> a + k <= m)
  OBVIOUS

\* One number more, which is this one.
LEMMA UpToThis ==
  \A a, j, k, m \in Nat : m + 1 = a + k =>
    (a + j <= m + 1 <=> j <= k) /\ (a + j <= m + 1 <=> (a + j <= m \/ j = k))
  OBVIOUS

\* A command that is not about streams.
LEMMA StreamsNeutral ==
  ASSUME settings.streams \in Seq(StreamEntry),
         NEW m \in Nat, m + 1 \in 1..Len(Script), Script[m + 1].op \notin {"clear", "stream"},
         NEW f, StreamsAfter(f, m)
  PROVE  StreamsAfter(f, m + 1)
<1>1. SUFFICES ASSUME NEW s \in 1..NStreams, NEW i \in 1..(m + 1),
                      Script[i] = Cmd("clear", "stream", s)
               PROVE  StreamAfter(f, s, m + 1)
  BY DEF StreamsAfter
<1>2. i \in 1..m
  <2>1. i # m + 1
    BY <1>1, CmdFields
  <2> QED BY <2>1
<1>3. StreamAfter(f, s, m)
  BY <1>1, <1>2 DEF StreamsAfter
<1>4. PICK fr \in Nat : fr = Front
  BY ScriptParts
<1>5. \A k \in DOMAIN settings.streams : k \in Nat /\ fr + k # m + 1
  <2>1. \A k \in DOMAIN settings.streams : Script[fr + k].op = "stream"
    BY <1>4, ScriptParts, CmdFields
  <2>2. \A k \in DOMAIN settings.streams : k \in Nat
    BY LenProperties
  <2> QED BY <2>1, <2>2
<1>6. \A k \in DOMAIN settings.streams : fr + k <= m + 1 <=> fr + k <= m
  BY <1>5, UpToNext
<1> QED BY <1>3, <1>4, <1>6 DEF StreamAfter, Decides

\* A stream is turned off, which comes before all entries.
LEMMA StreamsCleared ==
  ASSUME settings.streams \in Seq(StreamEntry),
         NEW m \in Nat, m + 1 \in 1..Len(Script), NEW t \in 1..NStreams,
         Script[m + 1] = Cmd("clear", "stream", t),
         NEW f, DOMAIN f = 1..NStreams, StreamsAfter(f, m)
  PROVE  StreamsAfter([f EXCEPT ![t] = 0], m + 1)
<1>1. PICK g : g = [f EXCEPT ![t] = 0]
  OBVIOUS
<1>2. \A s \in 1..NStreams : g[s] = IF s = t THEN 0 ELSE f[s]
  BY <1>1
<1>3. SUFFICES ASSUME NEW s \in 1..NStreams, NEW i \in 1..(m + 1),
                      Script[i] = Cmd("clear", "stream", s)
               PROVE  StreamAfter(g, s, m + 1)
  BY <1>1 DEF StreamsAfter
<1>4. PICK fr \in Nat : fr = Front
  BY ScriptParts
<1>5. m + 1 <= fr
  <2>1. Kind(m + 1)
    BY ScriptFacts
  <2>2. Script[m + 1].op = "clear" /\ fr >= 2
    BY <1>4, CmdFields, ScriptParts
  <2>3. m + 1 \in 3..fr
    BY <1>4, <2>1, <2>2, CmdFields DEF Kind, Caps
  <2> QED BY <2>3
<1>6. \A k \in DOMAIN settings.streams : k \in Nat /\ ~(fr + k <= m + 1) /\ ~(fr + k <= m)
  <2>1. \A k \in DOMAIN settings.streams : k \in Nat /\ k >= 1
    BY LenProperties
  <2> QED BY <1>5, <2>1
<1>7. g[s] = 0
  <2>1. CASE s = t
    BY <1>2, <2>1
  <2>2. CASE s # t
    <3>1. i # m + 1
      BY <1>3, <2>2, CmdFields
    <3>2. i \in 1..m
      BY <3>1
    <3>3. StreamAfter(f, s, m)
      BY <1>3, <3>2 DEF StreamsAfter
    <3>4. f[s] = 0
      BY <1>4, <1>6, <3>3 DEF StreamAfter, Decides
    <3> QED BY <1>2, <2>2, <3>4
  <2> QED BY <2>1, <2>2
<1> QED BY <1>4, <1>6, <1>7 DEF StreamAfter

\* An entry: it decides on its stream, and on no other.
LEMMA StreamsStarted ==
  ASSUME settings.streams \in Seq(StreamEntry),
         NEW m \in Nat, m + 1 \in 1..Len(Script), NEW k \in DOMAIN settings.streams,
         Script[m + 1] = Cmd("stream", "entry", k),
         NEW f, DOMAIN f = 1..NStreams, StreamsAfter(f, m),
         NEW t \in 1..NStreams, t = settings.streams[k].id, NEW v,
         v = IF settings.streams[k].interval = "off" THEN 0 ELSE k
  PROVE  StreamsAfter([f EXCEPT ![t] = v], m + 1)
<1>1. PICK g : g = [f EXCEPT ![t] = v]
  OBVIOUS
<1>2. \A s \in 1..NStreams : g[s] = IF s = t THEN v ELSE f[s]
  BY <1>1
<1>3. SUFFICES ASSUME NEW s \in 1..NStreams, NEW i \in 1..(m + 1),
                      Script[i] = Cmd("clear", "stream", s)
               PROVE  StreamAfter(g, s, m + 1)
  BY <1>1 DEF StreamsAfter
<1>4. PICK fr \in Nat : fr = Front
  BY ScriptParts
<1>5. m + 1 = fr + k
  <2>1. Kind(m + 1)
    BY ScriptFacts
  <2>2. PICK j \in DOMAIN settings.streams :
          m + 1 = fr + j /\ Script[m + 1] = Cmd("stream", "entry", j)
    <3>1. Script[m + 1].op = "stream"
      BY CmdFields
    <3> QED BY <1>4, <2>1, <3>1, CmdFields DEF Kind, Caps
  <2>3. j = k
    BY <2>2, CmdFields
  <2> QED BY <2>2, <2>3
<1>6. \A j \in DOMAIN settings.streams : j \in Nat
  BY LenProperties
<1>7. \A j \in DOMAIN settings.streams : fr + j <= m + 1 <=> j <= k
  BY <1>5, <1>6, UpToThis
<1>8. \A j \in DOMAIN settings.streams : fr + j <= m + 1 <=> (fr + j <= m \/ j = k)
  BY <1>5, <1>6, UpToThis
<1>9. CASE s = t
  <2>1. Decides(k, s, m + 1)
    <3>1. k <= k
      BY <1>6
    <3> QED BY <1>4, <1>7, <1>9, <3>1 DEF Decides
  <2> QED BY <1>2, <1>9, <2>1 DEF StreamAfter
<1>10. CASE s # t
  <2>1. i \in 1..m
    <3>1. i # m + 1
      BY <1>3, CmdFields
    <3> QED BY <3>1
  <2>2. StreamAfter(f, s, m)
    BY <1>3, <2>1 DEF StreamsAfter
  <2>3. g[s] = f[s]
    BY <1>2, <1>10
  <2> QED BY <1>4, <1>8, <1>10, <2>2, <2>3 DEF StreamAfter, Decides
<1> QED BY <1>9, <1>10

-----------------------------------------------------------------------------
(* Steps that leave the receiver and the channels alone.                   *)

\* They keep the invariants of those; Progress is kept as well when main() stays
\* where it is, stays in the recording part, or is outside of both parts.
LEMMA Quiet ==
  ASSUME IInv, UNCHANGED <<settings, to_receiver, to_driver, streams, config, aux1>>
  PROVE  /\ Loaded' /\ Channels' /\ ReceiverType' /\ Script' = Script
         /\ UNCHANGED <<pc, step, sent>> => Progress'
         /\ pc \in Recording /\ pc' \in Recording /\ UNCHANGED sent => Progress'
         /\ pc' \in {"start", "load", "logging", "connect", "stop", "exit"} => Progress'
<1>1. Script' = Script
  BY ScriptFixed
<1>2. Loaded'
  BY DEF IInv, Loaded
<1>3. Channels'
  BY DEF IInv, Channels, Valid
<1>4. ReceiverType'
  BY DEF IInv, ReceiverType
<1>5. ASSUME Done' = Done, Achieved
      PROVE  Achieved'
  <2>1. Effective' = Effective
    BY <1>5 DEF Effective
  <2> QED BY <1>5, <2>1, Transfer DEF Achieved
<1>6. ASSUME UNCHANGED <<pc, step, sent>>
      PROVE  Progress'
  <2>1. Done' = Done
    BY <1>1, <1>6 DEF Done
  <2>2. Flight => Flight'
    BY <1>1, <1>6 DEF Flight, Answers
  <2> QED BY <1>5, <1>6, <2>1, <2>2 DEF IInv, Progress
<1>7. ASSUME pc \in Recording, pc' \in Recording, UNCHANGED sent
      PROVE  Progress'
  <2>1. Done' = Done /\ pc' # "configure"
    BY <1>1, <1>7 DEF Done, Recording
  <2> QED BY <1>5, <1>7, <2>1 DEF IInv, Progress
<1>8. ASSUME pc' \in {"start", "load", "logging", "connect", "stop", "exit"}
      PROVE  Progress'
  BY <1>8 DEF Progress, Recording
<1> QED BY <1>1, <1>2, <1>3, <1>4, <1>6, <1>7, <1>8

\* The command line.
LEMMA ParseArgumentsStep ==
  ASSUME IInv, ParseArguments
  PROVE  IInv'
<1>1. UNCHANGED <<settings, to_receiver, to_driver, streams, config, aux1>>
  BY DEF ParseArguments, Exit, channels, receiver
<1>2. Loaded' /\ Channels' /\ ReceiverType' /\ Script' = Script
  BY <1>1, Quiet
<1>3. Flags'
  BY DEF IInv, Flags, ParseArguments, Exit, channels, receiver
<1>4. Counters'
  BY SessionAssumption DEF IInv, Counters, ParseArguments, Exit
<1>5. Places'
  BY DEF IInv, Places, Aborted, Interrupted, ParseArguments, Exit
<1>6. StepType'
  BY <1>2, ConfigAssumption DEF IInv, StepType, ParseArguments, Exit
<1>7. Untouched'
  BY <1>1 DEF IInv, Untouched, Places, Aborted, Interrupted, ParseArguments, Exit
<1>8. StepInv'
  BY <1>2, ConfigAssumption DEF IInv, StepInv, ParseArguments, Exit
<1>9. Progress'
  BY <1>1, Quiet DEF ParseArguments, Exit, Recording
<1> QED BY <1>2, <1>3, <1>4, <1>5, <1>6, <1>7, <1>8, <1>9 DEF IInv

\* setup_logging() returns or throws.
LEMMA SetupLoggingStep ==
  ASSUME IInv, SetupLogging
  PROVE  IInv'
<1>1. UNCHANGED <<settings, to_receiver, to_driver, streams, config, aux1>>
  BY DEF SetupLogging, Exit, channels, receiver
<1>2. Loaded' /\ Channels' /\ ReceiverType' /\ Script' = Script
  BY <1>1, Quiet
<1>3. Flags'
  BY DEF IInv, Flags, SetupLogging, Exit, channels, receiver
<1>4. Counters'
  BY SessionAssumption DEF IInv, Counters, SetupLogging, Exit
<1>5. Places'
  BY DEF IInv, Places, Aborted, Interrupted, SetupLogging, Exit
<1>6. StepType'
  BY <1>2, ConfigAssumption DEF IInv, StepType, SetupLogging, Exit
<1>7. Untouched'
  BY <1>1 DEF IInv, Untouched, Places, Aborted, Interrupted, SetupLogging, Exit
<1>8. StepInv'
  BY <1>2, ConfigAssumption DEF IInv, StepInv, SetupLogging, Exit
<1>9. Progress'
  BY <1>1, Quiet DEF SetupLogging, Exit, Recording
<1> QED BY <1>2, <1>3, <1>4, <1>5, <1>6, <1>7, <1>8, <1>9 DEF IInv

\* getaddrinfo() finds addresses or none.
LEMMA ResolveStep ==
  ASSUME IInv, Resolve
  PROVE  IInv'
<1>1. UNCHANGED <<settings, to_receiver, to_driver, streams, config, aux1>>
  BY DEF Resolve, Exit, channels, receiver
<1>2. Loaded' /\ Channels' /\ ReceiverType' /\ Script' = Script
  BY <1>1, Quiet
<1>3. Flags'
  BY DEF IInv, Flags, Resolve, Exit, channels, receiver
<1>4. Counters'
  BY SessionAssumption DEF IInv, Counters, Resolve, Exit
<1>5. Places'
  BY DEF IInv, Places, Aborted, Interrupted, Resolve, Exit
<1>6. StepType'
  BY <1>2, ConfigAssumption DEF IInv, StepType, Resolve, Exit
<1>7. Untouched'
  BY <1>1 DEF IInv, Untouched, Places, Aborted, Interrupted, Resolve, Exit
<1>8. StepInv'
  BY <1>2, ConfigAssumption DEF IInv, StepInv, Resolve, Exit
<1>9. Progress'
  BY <1>1, Quiet DEF Resolve, Exit, Recording
<1> QED BY <1>2, <1>3, <1>4, <1>5, <1>6, <1>7, <1>8, <1>9 DEF IInv

\* One address less.
LEMMA AddressFailsStep ==
  ASSUME IInv, AddressFails
  PROVE  IInv'
<1>1. UNCHANGED <<settings, to_receiver, to_driver, streams, config, aux1>>
  BY DEF AddressFails, Exit, channels, receiver
<1>2. Loaded' /\ Channels' /\ ReceiverType' /\ Script' = Script
  BY <1>1, Quiet
<1>3. Flags'
  BY DEF IInv, Flags, AddressFails, Exit, channels, receiver
<1>4. Counters'
  BY SessionAssumption DEF IInv, Counters, AddressFails, Exit
<1>5. Places'
  BY DEF IInv, Places, Aborted, Interrupted, AddressFails, Exit
<1>6. StepType'
  BY <1>2, ConfigAssumption DEF IInv, StepType, AddressFails, Exit
<1>7. Untouched'
  BY <1>1 DEF IInv, Untouched, Places, Aborted, Interrupted, AddressFails, Exit
<1>8. StepInv'
  BY <1>2, ConfigAssumption DEF IInv, StepInv, AddressFails, Exit
<1>9. Progress'
  BY <1>1, Quiet DEF AddressFails, Exit, Recording
<1> QED BY <1>2, <1>3, <1>4, <1>5, <1>6, <1>7, <1>8, <1>9 DEF IInv

\* The condition of the loop.
LEMMA LoopTestStep ==
  ASSUME IInv, LoopTest
  PROVE  IInv'
<1>1. UNCHANGED <<settings, to_receiver, to_driver, streams, config, aux1>>
  BY DEF LoopTest, EndLoop, channels, receiver
<1>2. Loaded' /\ Channels' /\ ReceiverType' /\ Script' = Script
  BY <1>1, Quiet
<1>3. Flags'
  BY DEF IInv, Flags, LoopTest, EndLoop, channels, receiver
<1>4. Counters'
  BY SessionAssumption DEF IInv, Counters, LoopTest, EndLoop
<1>5. Places'
  BY DEF IInv, Places, Aborted, Interrupted, LoopTest, EndLoop
<1>6. StepType'
  BY <1>2, ConfigAssumption DEF IInv, StepType, LoopTest, EndLoop
<1>7. Untouched'
  BY <1>1 DEF IInv, Untouched, Places, Aborted, Interrupted, LoopTest, EndLoop
<1>8. StepInv'
  BY <1>2, ConfigAssumption DEF IInv, StepInv, LoopTest, EndLoop
<1>9. Progress'
  BY <1>1, Quiet DEF LoopTest, EndLoop, Recording
<1> QED BY <1>2, <1>3, <1>4, <1>5, <1>6, <1>7, <1>8, <1>9 DEF IInv

\* Bytes for the recorder.
LEMMA ReadDataStep ==
  ASSUME IInv, ReadData
  PROVE  IInv'
<1>1. UNCHANGED <<settings, to_receiver, to_driver, streams, config, aux1>>
  BY DEF ReadData, Exit, channels, receiver
<1>2. Loaded' /\ Channels' /\ ReceiverType' /\ Script' = Script
  BY <1>1, Quiet
<1>3. Flags'
  BY DEF IInv, Flags, ReadData, Exit, channels, receiver
<1>4. Counters'
  BY SessionAssumption DEF IInv, Counters, ReadData, Exit
<1>5. Places'
  BY DEF IInv, Places, Aborted, Interrupted, ReadData, Exit
<1>6. StepType'
  BY <1>2, ConfigAssumption DEF IInv, StepType, ReadData, Exit
<1>7. Untouched'
  BY <1>1 DEF IInv, Untouched, Places, Aborted, Interrupted, ReadData, Exit
<1>8. StepInv'
  BY <1>2, ConfigAssumption DEF IInv, StepInv, ReadData, Exit
<1>9. Progress'
  BY <1>1, Quiet DEF ReadData, Exit, Recording
<1> QED BY <1>2, <1>3, <1>4, <1>5, <1>6, <1>7, <1>8, <1>9 DEF IInv

\* The data channel is closed, or a signal came.
LEMMA ReadZeroStep ==
  ASSUME IInv, ReadZero
  PROVE  IInv'
<1>1. UNCHANGED <<settings, to_receiver, to_driver, streams, config, aux1>>
  BY DEF ReadZero, EndLoop, channels, receiver
<1>2. Loaded' /\ Channels' /\ ReceiverType' /\ Script' = Script
  BY <1>1, Quiet
<1>3. Flags'
  BY DEF IInv, Flags, ReadZero, EndLoop, channels, receiver
<1>4. Counters'
  BY SessionAssumption DEF IInv, Counters, ReadZero, EndLoop
<1>5. Places'
  BY DEF IInv, Places, Aborted, Interrupted, ReadZero, EndLoop
<1>6. StepType'
  BY <1>2, ConfigAssumption DEF IInv, StepType, ReadZero, EndLoop
<1>7. Untouched'
  BY <1>1 DEF IInv, Untouched, Places, Aborted, Interrupted, ReadZero, EndLoop
<1>8. StepInv'
  BY <1>2, ConfigAssumption DEF IInv, StepInv, ReadZero, EndLoop
<1>9. Progress'
  BY <1>1, Quiet DEF ReadZero, EndLoop, Recording
<1> QED BY <1>2, <1>3, <1>4, <1>5, <1>6, <1>7, <1>8, <1>9 DEF IInv

\* The data channel fails.
LEMMA ReadErrorStep ==
  ASSUME IInv, ReadError
  PROVE  IInv'
<1>1. UNCHANGED <<settings, to_receiver, to_driver, streams, config, aux1>>
  BY DEF ReadError, EndLoop, channels, receiver
<1>2. Loaded' /\ Channels' /\ ReceiverType' /\ Script' = Script
  BY <1>1, Quiet
<1>3. Flags'
  BY DEF IInv, Flags, ReadError, EndLoop, channels, receiver
<1>4. Counters'
  BY SessionAssumption DEF IInv, Counters, ReadError, EndLoop
<1>5. Places'
  BY DEF IInv, Places, Aborted, Interrupted, ReadError, EndLoop
<1>6. StepType'
  BY <1>2, ConfigAssumption DEF IInv, StepType, ReadError, EndLoop
<1>7. Untouched'
  BY <1>1 DEF IInv, Untouched, Places, Aborted, Interrupted, ReadError, EndLoop
<1>8. StepInv'
  BY <1>2, ConfigAssumption DEF IInv, StepInv, ReadError, EndLoop
<1>9. Progress'
  BY <1>1, Quiet DEF ReadError, EndLoop, Recording
<1> QED BY <1>2, <1>3, <1>4, <1>5, <1>6, <1>7, <1>8, <1>9 DEF IInv

\* All streams were stopped.
LEMMA StopDoneStep ==
  ASSUME IInv, StopDone
  PROVE  IInv'
<1>1. UNCHANGED <<settings, to_receiver, to_driver, streams, config, aux1>>
  BY DEF StopDone, Exit, channels, receiver
<1>2. Loaded' /\ Channels' /\ ReceiverType' /\ Script' = Script
  BY <1>1, Quiet
<1>3. Flags'
  BY DEF IInv, Flags, StopDone, Exit, channels, receiver
<1>4. Counters'
  BY SessionAssumption DEF IInv, Counters, StopDone, Exit
<1>5. Places'
  BY DEF IInv, Places, Aborted, Interrupted, StopDone, Exit
<1>6. StepType'
  BY <1>2, ConfigAssumption DEF IInv, StepType, StopDone, Exit
<1>7. Untouched'
  BY <1>1 DEF IInv, Untouched, Places, Aborted, Interrupted, StopDone, Exit
<1>8. StepInv'
  BY <1>2, ConfigAssumption DEF IInv, StepInv, StopDone, Exit
<1>9. Progress'
  BY <1>1, Quiet DEF StopDone, Exit, Recording
<1> QED BY <1>2, <1>3, <1>4, <1>5, <1>6, <1>7, <1>8, <1>9 DEF IInv

\* A signal before there is a handler.
LEMMA SignalKillsStep ==
  ASSUME IInv, SignalKills
  PROVE  IInv'
<1>1. UNCHANGED <<settings, to_receiver, to_driver, streams, config, aux1>>
  BY DEF SignalKills, Exit, channels, receiver
<1>2. Loaded' /\ Channels' /\ ReceiverType' /\ Script' = Script
  BY <1>1, Quiet
<1>3. Flags'
  BY DEF IInv, Flags, SignalKills, Exit, channels, receiver
<1>4. Counters'
  BY SessionAssumption DEF IInv, Counters, SignalKills, Exit
<1>5. Places'
  BY DEF IInv, Places, Aborted, Interrupted, SignalKills, Exit
<1>6. StepType'
  BY <1>2, ConfigAssumption DEF IInv, StepType, SignalKills, Exit
<1>7. Untouched'
  BY <1>1 DEF IInv, Untouched, Places, Aborted, Interrupted, SignalKills, Exit
<1>8. StepInv'
  BY <1>2, ConfigAssumption DEF IInv, StepInv, SignalKills, Exit
<1>9. Progress'
  BY <1>1, Quiet DEF SignalKills, Exit, Recording
<1> QED BY <1>2, <1>3, <1>4, <1>5, <1>6, <1>7, <1>8, <1>9 DEF IInv

\* A signal later on.
LEMMA SignalStep ==
  ASSUME IInv, Signal
  PROVE  IInv'
<1>1. UNCHANGED <<settings, to_receiver, to_driver, streams, config, aux1>>
  BY DEF Signal, channels, receiver
<1>2. Loaded' /\ Channels' /\ ReceiverType' /\ Script' = Script
  BY <1>1, Quiet
<1>3. Flags'
  BY DEF IInv, Flags, Signal, channels, receiver
<1>4. Counters'
  BY SessionAssumption DEF IInv, Counters, Signal
<1>5. Places'
  BY DEF IInv, Places, Aborted, Interrupted, Signal
<1>6. StepType'
  BY <1>2, ConfigAssumption DEF IInv, StepType, Signal
<1>7. Untouched'
  BY <1>1 DEF IInv, Untouched, Places, Aborted, Interrupted, Signal
<1>8. StepInv'
  BY <1>2, ConfigAssumption DEF IInv, StepInv, Signal
<1>9. Progress'
  BY <1>1, Quiet DEF Signal, Recording
<1> QED BY <1>2, <1>3, <1>4, <1>5, <1>6, <1>7, <1>8, <1>9 DEF IInv

\* The receiver closes the data channel.
LEMMA DataClosesStep ==
  ASSUME IInv, DataCloses
  PROVE  IInv'
<1>1. UNCHANGED <<settings, to_receiver, to_driver, streams, config, aux1>>
  BY DEF DataCloses, channels, receiver
<1>2. Loaded' /\ Channels' /\ ReceiverType' /\ Script' = Script
  BY <1>1, Quiet
<1>3. Flags'
  BY DEF IInv, Flags, DataCloses, channels, receiver
<1>4. Counters'
  BY SessionAssumption DEF IInv, Counters, DataCloses
<1>5. Places'
  BY DEF IInv, Places, Aborted, Interrupted, DataCloses
<1>6. StepType'
  BY <1>2, ConfigAssumption DEF IInv, StepType, DataCloses
<1>7. Untouched'
  BY <1>1 DEF IInv, Untouched, Places, Aborted, Interrupted, DataCloses
<1>8. StepInv'
  BY <1>2, ConfigAssumption DEF IInv, StepInv, DataCloses
<1>9. Progress'
  BY <1>1, Quiet DEF DataCloses, Recording
<1> QED BY <1>2, <1>3, <1>4, <1>5, <1>6, <1>7, <1>8, <1>9 DEF IInv

-----------------------------------------------------------------------------
(* Steps that load the settings or use the control channel.                *)

\* The script is finite, whatever the settings.
LEMMA ScriptLength == settings.streams \in Seq(StreamEntry) => Len(Script) \in Nat
<1> SUFFICES ASSUME settings.streams \in Seq(StreamEntry) PROVE Len(Script) \in Nat
  OBVIOUS
<1>1. Script \in Seq(Command)
  BY ScriptParts
<1> QED BY <1>1, LenProperties

\* The same in the next state, where the settings are new ones.
LEMMA ScriptLengthNext == (settings.streams \in Seq(StreamEntry) => Len(Script) \in Nat)'
  BY ScriptLength, PTL

\* load_app_config() returns checked settings, or the run ends with 2.
LEMMA LoadConfigStep ==
  ASSUME IInv, LoadConfig
  PROVE  IInv'
<1>1. /\ pc = "load" /\ exit_code = -1 /\ ~sent
      /\ UNCHANGED <<addr, step, g_stop, to_receiver, to_driver, ctrl_up, data_up, streams,
                     config, aux1, signals>>
  BY DEF IInv, Places, Untouched, LoadConfig, channels, receiver
<1>2. PICK doc \in Documents :
        IF Loads(doc)
          THEN /\ settings' = parse_receiver(doc) /\ pc' = "logging"
               /\ UNCHANGED <<exit_code, sent>>
          ELSE Exit(2) /\ UNCHANGED settings
  BY DEF LoadConfig
<1>3. /\ settings = NoSettings /\ to_receiver = <<>> /\ to_driver = <<>> /\ step = 1
      /\ config = [n \in Names |-> "old"]
  BY <1>1 DEF IInv, Untouched
<1>4. CASE Loads(doc)
  <2>1. settings' = parse_receiver(doc) /\ pc' = "logging" /\ UNCHANGED <<exit_code, sent>>
    BY <1>2, <1>4
  <2>2. settings'.streams = Or(doc.streams, DefaultStreams)
    BY <2>1 DEF parse_receiver
  <2>3. settings'.streams \in Seq(StreamEntry)
    BY <2>2, DocumentsAssumption
  <2>4. Loaded'
    <3>1. validate_receiver_settings(settings')
      BY <1>4, <2>1 DEF Loads
    <3> QED BY <2>3, <3>1 DEF Loaded, validate_receiver_settings
  <2>5. Flags'
    BY <1>1, <2>1 DEF IInv, Flags
  <2>6. Counters'
    BY <1>1 DEF IInv, Counters
  <2>7. Places'
    BY <1>1, <2>1 DEF IInv, Places
  <2>8. Len(Script)' \in Nat
    BY <2>3, ScriptLengthNext
  <2>9. StepType'
    BY <1>1, <1>3, <2>8, ConfigAssumption DEF StepType
  <2>10. ReceiverType'
    <3>1. PICK n \in Nat : n = Len(settings'.streams)
      BY <2>3, LenProperties
    <3>2. streams \in [1..NStreams -> -1..0]
      BY <1>3 DEF IInv, ReceiverType, NoSettings
    <3>3. \A x \in -1..0 : x \in -1..n
      OBVIOUS
    <3>4. streams' \in [1..NStreams -> -1..n]
      BY <1>1, <3>2, <3>3
    <3> QED BY <1>1, <3>1, <3>4 DEF IInv, ReceiverType
  <2>11. Channels'
    BY <1>1, <1>3 DEF Channels
  <2>12. Untouched'
    BY <1>1, <1>3, <2>1 DEF Untouched
  <2>13. StepInv'
    BY <1>1, <2>1 DEF StepInv
  <2>14. Progress'
    BY <2>1 DEF Progress, Recording
  <2> QED BY <2>4, <2>5, <2>6, <2>7, <2>9, <2>10, <2>11, <2>12, <2>13, <2>14 DEF IInv
<1>5. CASE ~Loads(doc)
  <2>1. pc' = "exit" /\ exit_code' = 2 /\ sent' = FALSE /\ UNCHANGED settings
    BY <1>2, <1>5 DEF Exit
  <2>2. Loaded' /\ Channels' /\ ReceiverType' /\ Script' = Script /\ Progress'
    BY <1>1, <2>1, Quiet
  <2>3. Flags'
    BY <1>1, <2>1 DEF IInv, Flags
  <2>4. Counters'
    BY <1>1 DEF IInv, Counters
  <2>5. Places'
    BY <2>1 DEF Places
  <2>6. StepType'
    BY <1>1, <2>2 DEF IInv, StepType
  <2>7. Untouched'
    BY <1>1, <1>3, <2>1 DEF Untouched
  <2>8. StepInv'
    BY <2>1 DEF StepInv
  <2> QED BY <2>2, <2>3, <2>4, <2>5, <2>6, <2>7, <2>8 DEF IInv
<1> QED BY <1>4, <1>5

\* The control channel is there: the banner is awaited.  Or the data channel is.
LEMMA ConnectedStep ==
  ASSUME IInv, Connected
  PROVE  IInv'
<1>1. /\ pc \in {"connect", "data_connect"} /\ addr' = 0 /\ exit_code = -1
      /\ UNCHANGED <<settings, step, g_stop, to_driver, ctrl_up, data_up, streams, config, aux1,
                     signals>>
  BY DEF IInv, Places, Connected, receiver
<1>2. Script' = Script
  BY <1>1, ScriptFixed
<1>3. Loaded' /\ ReceiverType'
  BY <1>1 DEF IInv, Loaded, ReceiverType
<1>4. Counters'
  BY <1>1, SessionAssumption DEF IInv, Counters
<1>5. StepType'
  BY <1>1, <1>2 DEF IInv, StepType
<1>6. CASE pc = "connect"
  <2>1. pc' = "configure" /\ sent' = TRUE /\ to_receiver' = <<Login[1]>> /\ UNCHANGED exit_code
    BY <1>6 DEF Connected
  <2>2. to_driver = <<>> /\ step = 1
    BY <1>6 DEF IInv, Untouched
  <2>3. PICK c : c = Script[1]
    OBVIOUS
  <2>4. c = Cmd("banner", "none", 0) /\ c \in Command /\ Len(Script) \in Nat /\ Len(Script) >= 1
    <3>1. Script[1] = Cmd("banner", "none", 0)
      BY ScriptParts DEF IInv, Loaded
    <3>2. PICK n \in Nat : n = Len(settings.streams)
      BY LenProperties DEF IInv, Loaded
    <3>3. PICK fr \in Nat : fr = Front /\ fr >= 2 /\ Len(Script) = fr + n
      BY <3>2, ScriptParts DEF IInv, Loaded
    <3>4. "banner" \in Ops /\ "none" \in Titles
      BY DEF Ops, Titles
    <3>5. Cmd("banner", "none", 0) \in Command
      BY <3>4, CmdType
    <3> QED BY <2>3, <3>1, <3>3, <3>5
  <2>5. to_receiver' = <<c>>
    BY <2>1, <2>4 DEF Login
  <2>6. Channels'
    <3>1. c.op = "banner"
      BY <2>4, CmdFields
    <3>2. to_receiver' \in Seq(Command) /\ DOMAIN to_receiver' = {1} /\ to_receiver'[1] = c
      BY <2>4, <2>5
    <3>3. Valid(to_receiver[1])'
      BY <2>4, <3>1, <3>2 DEF Valid
    <3>4. \A i \in DOMAIN to_receiver' : Valid(to_receiver[i])'
      BY <3>2, <3>3 DEF Valid
    <3>5. to_driver' \in Seq(ReplyType)
      BY <1>1 DEF IInv, Channels
    <3> QED BY <3>2, <3>4, <3>5 DEF Channels
  <2>7. Flags'
    BY <1>1, <2>1 DEF IInv, Flags
  <2>8. Places'
    BY <1>1, <2>1 DEF IInv, Places
  <2>9. Untouched'
    BY <1>1, <2>1 DEF Untouched
  <2>10. StepInv'
    BY <1>1, <1>2, <2>1, <2>2, <2>4 DEF StepInv
  <2>11. Flight'
    BY <1>1, <1>2, <2>1, <2>2, <2>3, <2>5 DEF Flight
  <2>12. Achieved'
    <3>1. Done' = 0 /\ Effective' = 0
      BY <1>1, <2>1, <2>2 DEF Done, Effective
    <3>2. PICK f : f = streams'
      OBVIOUS
    <3>3. PICK cf : cf = config'
      OBVIOUS
    <3>4. StreamsAfter(f, 0) /\ SettingsAfter(cf, 0)
      BY DEF StreamsAfter, SettingsAfter
    <3> QED BY <1>1, <3>1, <3>2, <3>3, <3>4, Transfer
  <2>13. Progress'
    BY <2>1, <2>11, <2>12 DEF Progress, Recording
  <2> QED BY <1>3, <1>4, <1>5, <2>6, <2>7, <2>8, <2>9, <2>10, <2>13 DEF IInv
<1>7. CASE pc = "data_connect"
  <2>1. UNCHANGED to_receiver /\ ((pc' = "loop" /\ UNCHANGED <<exit_code, sent>>) \/ Exit(1))
    BY <1>7 DEF Connected
  <2>2. Channels'
    BY <1>1, <2>1, Quiet
  <2>3. Progress'
    BY <1>1, <1>7, <2>1, Quiet DEF Exit, Recording
  <2>4. Flags'
    BY <1>1, <2>1 DEF IInv, Flags, Exit
  <2>5. Places'
    BY <1>1, <2>1 DEF IInv, Places, Exit
  <2>6. Untouched'
    BY <1>1, <1>7, <2>1 DEF IInv, Untouched, Exit
  <2>7. StepInv'
    BY <1>1, <1>7, <2>1 DEF IInv, StepInv, Exit
  <2> QED BY <1>3, <1>4, <1>5, <2>2, <2>3, <2>4, <2>5, <2>6, <2>7 DEF IInv
<1> QED BY <1>1, <1>6, <1>7

\* The control channel closes: what was under way is lost.
LEMMA CtrlClosesStep ==
  ASSUME IInv, CtrlCloses
  PROVE  IInv'
<1>1. /\ pc \notin {"start", "load", "logging", "connect", "exit"}
      /\ ctrl_up' = FALSE /\ to_receiver' = <<>>
      /\ UNCHANGED <<pc, settings, addr, step, sent, g_stop, exit_code, to_driver, data_up,
                     streams, config, aux1, signals>>
  BY DEF CtrlCloses, receiver
<1>2. Script' = Script
  BY <1>1, ScriptFixed
<1>3. Flags'
  BY <1>1 DEF IInv, Flags
<1>4. Counters' /\ Places'
  BY <1>1 DEF IInv, Counters, Places
<1>5. StepType' /\ StepInv'
  BY <1>1, <1>2 DEF IInv, StepType, StepInv
<1>6. Loaded' /\ ReceiverType'
  BY <1>1 DEF IInv, Loaded, ReceiverType
<1>7. Channels'
  <2>1. to_driver' \in Seq(ReplyType)
    BY <1>1 DEF IInv, Channels
  <2>2. to_receiver' \in Seq(Command) /\ DOMAIN to_receiver' = {}
    BY <1>1
  <2> QED BY <2>1, <2>2 DEF Channels
<1>8. Untouched'
  BY <1>1 DEF IInv, Untouched, Places
<1>9. Flight => Flight'
  BY <1>1, <1>2 DEF Flight, Answers
<1>10. Achieved => Achieved'
  <2>1. Done' = Done
    BY <1>1, <1>2 DEF Done
  <2>2. Effective' = Effective
    BY <1>1, <2>1 DEF Effective
  <2> QED BY <1>1, <2>1, <2>2, Transfer DEF Achieved
<1>11. Progress'
  BY <1>1, <1>9, <1>10 DEF IInv, Progress
<1> QED BY <1>3, <1>4, <1>5, <1>6, <1>7, <1>8, <1>11 DEF IInv

\* The command main() is at is one the receiver can execute.
LEMMA CurrentValid ==
  ASSUME IInv, pc \in {"configure", "stop"}, pc = "stop" => step <= NStreams
  PROVE  /\ Valid(Current)
         /\ pc = "configure" => /\ Current = Script[step] /\ Kind(step)
                                /\ step \in 1..Len(Script) /\ Len(Script) \in Nat
<1>1. settings.streams \in Seq(StreamEntry)
  BY DEF IInv, Loaded
<1>2. CASE pc = "configure"
  <2>1. step \in 1..Len(Script) /\ Len(Script) \in Nat
    BY <1>1, <1>2, ScriptLength DEF IInv, StepInv
  <2>2. PICK c : c = Script[step]
    OBVIOUS
  <2>3. Current = c
    BY <1>2, <2>2 DEF Current
  <2>4. Kind(step)
    BY <1>1, <2>1, ScriptFacts
  <2>5. c \in Command
    BY <1>1, <2>1, <2>2, ScriptParts, ElementOfSeq
  <2>6. /\ c.op = "stream" => c.id \in DOMAIN settings.streams
        /\ c.op = "clear" => c.id \in 1..NStreams
        /\ c.op \in {"set", "get"} => c.name \in Names
    BY <2>2, <2>4, CmdFields DEF Kind, Caps
  <2> QED BY <2>1, <2>2, <2>3, <2>4, <2>5, <2>6 DEF Valid
<1>3. CASE pc = "stop"
  <2>1. Current = Cmd("clear", "stream", step)
    BY <1>3 DEF Current
  <2>2. step \in 1..NStreams /\ step \in Int
    BY <1>3, ConfigAssumption DEF IInv, StepInv
  <2>3. "clear" \in Ops /\ "stream" \in Titles
    BY DEF Ops, Titles
  <2>4. Current \in Command /\ Current.op = "clear" /\ Current.id = step
    BY <2>1, <2>2, <2>3, CmdType, CmdFields
  <2> QED BY <1>3, <2>2, <2>4 DEF Valid
<1> QED BY <1>2, <1>3

\* apply() can build every command it comes to.
LEMMA CurrentBuilds ==
  ASSUME IInv, pc \in {"configure", "stop"}, pc = "stop" => step <= NStreams
  PROVE  Builds(Current)
<1>1. Valid(Current)
  BY CurrentValid
<1> QED BY <1>1 DEF IInv, Loaded, Builds, Valid

\* The channel fails: stop_streams() goes on, everything else ends main().
LEMMA TcpFailureStep ==
  ASSUME IInv, TcpFailure, pc \in {"configure", "stop"}, pc = "stop" => step <= NStreams,
         UNCHANGED <<settings, addr, to_receiver, to_driver, ctrl_up, data_up, streams, config,
                     aux1>>,
         g_stop' \in BOOLEAN, signals' \in 0..MaxSignals
  PROVE  IInv'
<1>1. Loaded' /\ Channels' /\ ReceiverType' /\ Script' = Script
  BY Quiet
<1>2. Len(Script) \in Nat
  BY ScriptLength DEF IInv, Loaded
<1>3. \/ pc = "stop" /\ pc' = "stop" /\ step' = step + 1 /\ ~sent' /\ UNCHANGED exit_code
      \/ pc' = "exit" /\ exit_code' = 1 /\ ~sent' /\ UNCHANGED step
  BY DEF TcpFailure, SwallowsTcpError, Advance, Exit
<1>4. sent' \in BOOLEAN
  BY DEF TcpFailure, Advance, Exit
<1>5. Flags'
  BY <1>4 DEF IInv, Flags
<1>6. Counters'
  BY DEF IInv, Counters
<1>7. Places'
  BY <1>3 DEF IInv, Places
<1>8. StepType'
  BY <1>1, <1>2, <1>3, ConfigAssumption DEF IInv, StepType, StepInv
<1>9. Untouched'
  BY <1>3 DEF IInv, Untouched
<1>10. StepInv'
  BY <1>3, ConfigAssumption DEF IInv, StepInv
<1>11. Progress'
  BY <1>3, Quiet
<1> QED BY <1>1, <1>5, <1>6, <1>7, <1>8, <1>9, <1>10, <1>11 DEF IInv

\* No reply, for whatever reason.
LEMMA ReadFailsStep ==
  ASSUME IInv, ReadFails
  PROVE  IInv'
<1>1. pc \in {"configure", "stop"} /\ (pc = "stop" => step <= NStreams)
  BY DEF IInv, StepInv, ReadFails
<1>2. g_stop' \in BOOLEAN /\ signals' \in 0..MaxSignals
  BY DEF IInv, Flags, Counters, ReadFails
<1>3. /\ UNCHANGED <<settings, addr, to_receiver, to_driver, ctrl_up, data_up, streams, config,
                     aux1>>
      /\ TcpFailure
  BY DEF ReadFails, channels, receiver
<1> QED BY <1>1, <1>2, <1>3, TcpFailureStep

\* A signal while a reply is awaited.
LEMMA ReadInterruptedStep ==
  ASSUME IInv, ReadInterrupted
  PROVE  IInv'
<1>1. pc \in {"configure", "stop"} /\ (pc = "stop" => step <= NStreams)
  BY DEF IInv, StepInv, ReadInterrupted
<1>2. g_stop' \in BOOLEAN
  BY DEF ReadInterrupted
<1>3. signals' \in 0..MaxSignals
  BY SessionAssumption DEF IInv, Counters, ReadInterrupted
<1>4. /\ UNCHANGED <<settings, addr, to_receiver, to_driver, ctrl_up, data_up, streams, config,
                     aux1>>
      /\ TcpFailure
  BY DEF ReadInterrupted, channels, receiver
<1> QED BY <1>1, <1>2, <1>3, <1>4, TcpFailureStep

\* A command is sent, when the one before was answered.
LEMMA SendCommandStep ==
  ASSUME IInv, SendCommand
  PROVE  IInv'
<1>1. /\ pc \in {"configure", "stop"} /\ ~sent /\ (pc = "stop" => step <= NStreams)
      /\ UNCHANGED <<settings, addr, g_stop, to_driver, ctrl_up, data_up, streams, config, aux1,
                     signals>>
  BY DEF SendCommand, LastStop, receiver
<1>2. Builds(Current)
  BY <1>1, CurrentBuilds
<1>3. \/ /\ to_receiver' = IF ctrl_up THEN Append(to_receiver, Current) ELSE to_receiver
         /\ sent' = TRUE /\ UNCHANGED <<pc, step, exit_code>>
      \/ TcpFailure /\ UNCHANGED to_receiver
  BY <1>2 DEF SendCommand
<1>4. CASE TcpFailure /\ UNCHANGED to_receiver
  <2>1. g_stop' \in BOOLEAN /\ signals' \in 0..MaxSignals
    BY <1>1 DEF IInv, Flags, Counters
  <2> QED BY <1>1, <1>4, <2>1, TcpFailureStep
<1>5. CASE /\ to_receiver' = IF ctrl_up THEN Append(to_receiver, Current) ELSE to_receiver
           /\ sent' = TRUE /\ UNCHANGED <<pc, step, exit_code>>
  <2>1. Script' = Script
    BY <1>1, ScriptFixed
  <2>2. PICK c : c = Current
    OBVIOUS
  <2>3. /\ c \in Command
        /\ c.op = "stream" => c.id \in DOMAIN settings.streams
        /\ c.op = "clear" => c.id \in 1..NStreams
        /\ c.op \in {"set", "get"} => c.name \in Names
    BY <1>1, <2>2, CurrentValid DEF Valid
  <2>4. PICK q \in Seq(Command) : q = to_receiver
    BY DEF IInv, Channels
  <2>5. Channels'
    <3>1. to_driver' \in Seq(ReplyType)
      BY <1>1 DEF IInv, Channels
    <3>2. \A i \in DOMAIN q :
             /\ q[i] \in Command
             /\ q[i].op = "stream" => q[i].id \in DOMAIN settings.streams
             /\ q[i].op = "clear" => q[i].id \in 1..NStreams
             /\ q[i].op \in {"set", "get"} => q[i].name \in Names
      BY <2>4 DEF IInv, Channels, Valid
    <3>3. PICK r \in Seq(Command) : r = to_receiver'
      BY <1>5, <2>2, <2>3, <2>4, AppendProperties
    <3>4. \A i \in DOMAIN r : r[i] = c \/ (i \in DOMAIN q /\ r[i] = q[i])
      BY <1>5, <2>2, <2>3, <2>4, <3>3, AppendProperties, LenProperties
    <3>5. \A i \in DOMAIN r :
             /\ r[i] \in Command
             /\ r[i].op = "stream" => r[i].id \in DOMAIN settings.streams
             /\ r[i].op = "clear" => r[i].id \in 1..NStreams
             /\ r[i].op \in {"set", "get"} => r[i].name \in Names
      BY <2>3, <3>2, <3>4
    <3> QED BY <1>1, <3>1, <3>3, <3>5 DEF Channels, Valid
  <2>6. Flags'
    BY <1>1, <1>5 DEF IInv, Flags
  <2>7. Counters'
    BY <1>1 DEF IInv, Counters
  <2>8. Places'
    BY <1>5 DEF IInv, Places
  <2>9. StepType'
    BY <1>5, <2>1 DEF IInv, StepType
  <2>10. Loaded' /\ ReceiverType'
    BY <1>1 DEF IInv, Loaded, ReceiverType
  <2>11. Untouched'
    BY <1>1, <1>5 DEF IInv, Untouched, Places
  <2>12. StepInv'
    BY <1>1, <1>5, <2>1 DEF IInv, StepInv
  <2>13. pc = "configure" => Flight'
    <3>1. SUFFICES ASSUME pc = "configure" PROVE Flight'
      OBVIOUS
    <3>2. to_receiver = <<>> /\ to_driver = <<>>
      BY <1>1, <3>1 DEF IInv, Progress, Flight
    <3>3. c = Script[step]
      BY <1>1, <2>2, <3>1, CurrentValid
    <3>4. to_receiver' = <<c>> \/ to_receiver' = <<>>
      BY <1>5, <2>2, <3>2
    <3> QED BY <1>1, <1>5, <2>1, <3>2, <3>3, <3>4 DEF Flight
  <2>14. Achieved => Achieved'
    <3>1. Done' = Done
      BY <1>5, <2>1 DEF Done
    <3>2. Effective' = Effective
      BY <1>1, <3>1 DEF Effective
    <3> QED BY <1>1, <3>1, <3>2, Transfer DEF Achieved
  <2>15. Progress'
    BY <1>1, <1>5, <2>13, <2>14 DEF IInv, Progress, Recording
  <2> QED BY <2>5, <2>6, <2>7, <2>8, <2>9, <2>10, <2>11, <2>12, <2>15 DEF IInv
<1> QED BY <1>3, <1>4, <1>5

\* A reply that lets apply() go on shows that its command is achieved.
LEMMA ReplyAchieves ==
  ASSUME IInv, pc = "configure", sent, NEW r \in ReplyType, NEW rs, rs = <<r>>,
         to_driver = <<r>>, NEW c, c = Script[step], r.cmd = c, Answers(r),
         \/ Refused(c, rs) /\ c.op = "clear"
         \/ ~Refused(c, rs) /\ Checks(c, rs)
  PROVE  SettingsAfter(config, step) /\ StreamsAfter(streams, step)
<1>1. /\ settings.streams \in Seq(StreamEntry) /\ Len(Script) \in Nat
      /\ step \in 1..Len(Script)
  BY CurrentValid DEF IInv, Loaded
<1>2. PICK m \in Nat : m = step - 1 /\ step = m + 1
  BY <1>1
<1>3. m + 1 \in 1..Len(Script) /\ c = Script[m + 1]
  BY <1>1, <1>2
<1>4. Kind(step)
  BY CurrentValid
<1>5. DOMAIN rs = {1} /\ rs[1] = r
  OBVIOUS
<1>6. Refused(c, rs) <=> (c.op # "banner" /\ ~r.ok)
  BY <1>5 DEF Refused
<1>7. Payload(c, rs) \subseteq {1}
  BY <1>5 DEF Payload
<1>8. /\ r.ok \in BOOLEAN /\ r.value \in BOOLEAN
      /\ aux1 \in BOOLEAN
  BY DEF IInv, Flags, ReplyType
<1>9. Achieved
  BY DEF IInv, Progress
<1>10. Done = m /\ (r.ok => Effective = m + 1) /\ (~r.ok => Effective = m)
  <2>1. to_driver # <<>> /\ to_driver[1] = r
    OBVIOUS
  <2> QED BY <1>2, <2>1 DEF Done, Effective
<1>11. SettingsAfter(config, m + 1)
  <2>1. c.op = "set" => config[c.name] # "old"
    BY <1>6 DEF Answers
  <2>2. c.op = "get" => config[c.name] = "applied"
    <3>1. SUFFICES ASSUME c.op = "get" PROVE config[c.name] = "applied"
      OBVIOUS
    <3>2. Checks(c, rs)
      BY <3>1
    <3>3. r.value
      BY <1>5, <1>7, <3>1, <3>2 DEF Checks
    <3> QED BY <3>1, <3>3 DEF Answers
  <2>3. c.op = "caps" => (settings.require_aux1 => aux1)
    <3>1. SUFFICES ASSUME c.op = "caps", settings.require_aux1 PROVE aux1
      OBVIOUS
    <3>2. Checks(c, rs) /\ r.ok
      BY <1>6, <3>1
    <3>3. CapabilitiesOk(c, rs)
      BY <3>1, <3>2 DEF Checks
    <3>4. r.value
      BY <1>5, <1>7, <3>1, <3>3 DEF CapabilitiesOk
    <3>5. r.value = aux1
      BY <3>1, <3>2 DEF Answers
    <3> QED BY <3>4, <3>5
  <2>4. SettingsAfter(config, m)
    BY <1>9, <1>10 DEF Achieved
  <2> QED BY <1>3, <2>1, <2>2, <2>3, <2>4, SettingsGrow
<1>12. StreamsAfter(streams, m + 1)
  <2>1. CASE r.ok
    BY <1>9, <1>10, <2>1 DEF Achieved
  <2>2. CASE ~r.ok /\ c.op = "clear"
    <3>1. StreamsAfter(streams, m)
      BY <1>9, <1>10, <2>2 DEF Achieved
    <3>2. PICK t \in 1..NStreams : c = Cmd("clear", "stream", t)
      BY <1>4, <2>2, CmdFields DEF Kind, Caps
    <3>3. streams[t] = 0
      BY <2>2, <3>2, CmdFields DEF Answers
    <3>4. DOMAIN streams = 1..NStreams /\ [streams EXCEPT ![t] = 0] = streams
      BY <3>3 DEF IInv, ReceiverType
    <3>5. StreamsAfter([streams EXCEPT ![t] = 0], m + 1)
      BY <1>1, <1>3, <3>1, <3>2, <3>4, StreamsCleared
    <3> QED BY <3>4, <3>5
  <2>3. CASE ~r.ok /\ c.op # "clear"
    <3>1. StreamsAfter(streams, m)
      BY <1>9, <1>10, <2>3 DEF Achieved
    <3>2. c.op = "banner"
      BY <1>6, <2>3
    <3> QED BY <1>1, <1>3, <3>1, <3>2, StreamsNeutral
  <2> QED BY <2>1, <2>2, <2>3
<1> QED BY <1>2, <1>11, <1>12

\* A reply is read: main() ends, or goes on to the next command.
LEMMA ReadReplyStep ==
  ASSUME IInv, ReadReply
  PROVE  IInv'
<1>1. /\ sent /\ to_driver # <<>> /\ pc \in {"configure", "stop"}
      /\ (pc = "stop" => step <= NStreams)
      /\ UNCHANGED <<settings, addr, g_stop, to_receiver, ctrl_up, data_up, streams, config,
                     aux1, signals>>
  BY DEF IInv, StepInv, ReadReply, receiver
<1>2. PICK k \in 1..Len(to_driver) :
        LET rs == SubSeq(to_driver, 1, k) IN
        /\ to_driver' = SubSeq(to_driver, k + 1, Len(to_driver))
        /\ IF Refused(Current, rs)
             THEN IF Current.op = "clear" THEN Advance ELSE Exit(1) /\ UNCHANGED step
             ELSE IF Checks(Current, rs) THEN Advance ELSE Exit(1) /\ UNCHANGED step
  BY DEF ReadReply
<1>3. PICK rs : rs = SubSeq(to_driver, 1, k)
  OBVIOUS
<1>4. \/ /\ Advance
         /\ \/ Refused(Current, rs) /\ Current.op = "clear"
            \/ ~Refused(Current, rs) /\ Checks(Current, rs)
      \/ Exit(1) /\ UNCHANGED step
  BY <1>2, <1>3
<1>5. Script' = Script /\ Len(Script) \in Nat
  BY <1>1, ScriptFixed, ScriptLength DEF IInv, Loaded
<1>6. Loaded' /\ ReceiverType'
  BY <1>1 DEF IInv, Loaded, ReceiverType
<1>7. to_driver' \in Seq(ReplyType)
  <2>1. PICK q \in Seq(ReplyType) : q = to_driver
    BY DEF IInv, Channels
  <2>2. PICK n \in Nat : n = Len(q)
    BY LenProperties
  <2>3. \A i \in (k + 1)..n : q[i] \in ReplyType
    BY <1>2, <2>1, <2>2, ElementOfSeq
  <2>4. to_driver' = SubSeq(q, k + 1, n)
    BY <1>2, <2>1, <2>2
  <2> QED BY <2>1, <2>2, <2>3, <2>4, SubSeqProperties
<1>8. Channels'
  <2>1. to_receiver \in Seq(Command) /\ \A i \in DOMAIN to_receiver : Valid(to_receiver[i])
    BY DEF IInv, Channels
  <2> QED BY <1>1, <1>7, <2>1 DEF Channels, Valid
<1>9. \/ step' = step + 1 /\ UNCHANGED exit_code /\ pc' \in {pc, "data_connect"}
         /\ (pc' # pc => pc = "configure" /\ step = Len(Script))
         /\ (pc' = "configure" => step # Len(Script))
      \/ pc' = "exit" /\ exit_code' = 1 /\ UNCHANGED step
  BY <1>4 DEF Advance, Exit
<1>10. sent' = FALSE
  BY <1>4 DEF Advance, Exit
<1>11. Flags'
  BY <1>1, <1>10 DEF IInv, Flags
<1>12. Counters'
  BY <1>1 DEF IInv, Counters
<1>13. Places'
  BY <1>1, <1>9 DEF IInv, Places
<1>14. StepType'
  BY <1>1, <1>5, <1>9, ConfigAssumption DEF IInv, StepType, StepInv
<1>15. Untouched'
  BY <1>1, <1>9 DEF IInv, Untouched, Places
<1>16. StepInv'
  BY <1>1, <1>5, <1>9, <1>10, ConfigAssumption DEF IInv, StepInv, Places
<1>17. Progress'
  <2>1. CASE pc' \in {"stop", "exit"}
    BY <2>1 DEF Progress, Recording
  <2>2. CASE pc' \notin {"stop", "exit"}
    <3>1. pc = "configure" /\ Advance /\ pc' \in {"configure", "data_connect"}
      BY <1>1, <1>4, <1>9, <2>2 DEF Exit
    <3>2. Flight
      BY <3>1 DEF IInv, Progress
    <3>3. PICK c : c = Script[step]
      OBVIOUS
    <3>4. to_receiver = <<>> /\ Len(to_driver) = 1 /\ to_driver[1].cmd = c /\ Answers(to_driver[1])
      BY <1>1, <3>2, <3>3 DEF Flight
    <3>5. PICK r \in ReplyType : r = to_driver[1] /\ to_driver = <<r>>
      <4>1. PICK q \in Seq(ReplyType) : q = to_driver
        BY DEF IInv, Channels
      <4>2. Len(q) = 1
        BY <3>4, <4>1
      <4>3. q[1] \in ReplyType
        BY <4>2, ElementOfSeq
      <4>4. q = <<q[1]>>
        BY <4>2
      <4> QED BY <4>1, <4>3, <4>4
    <3>6. k = 1
      BY <1>2, <3>4
    <3>7. rs = <<r>> /\ to_driver' = <<>>
      <4>1. rs = SubSeq(<<r>>, 1, 1) /\ to_driver' = SubSeq(<<r>>, 2, 1)
        BY <1>2, <1>3, <3>4, <3>5, <3>6
      <4>2. PICK q : q = <<r>>
        OBVIOUS
      <4>3. q \in Seq(ReplyType) /\ Len(q) = 1 /\ q[1] = r
        BY <3>5, <4>2
      <4>4. SubSeq(q, 1, 1) = q
        <5>1. \A i \in 1..1 : q[i] \in ReplyType
          BY <3>5, <4>3
        <5>2. PICK t : t = SubSeq(q, 1, 1)
          OBVIOUS
        <5>3. t \in Seq(ReplyType) /\ Len(t) = 1 /\ t[1] = q[1]
          BY <5>1, <5>2, SubSeqProperties
        <5>4. \A i \in 1..Len(t) : t[i] = q[i]
          BY <5>3
        <5> QED BY <4>3, <5>2, <5>3, <5>4, SeqEqual
      <4>5. SubSeq(q, 2, 1) = <<>>
        BY SubSeqEmpty
      <4> QED BY <4>1, <4>2, <4>4, <4>5
    <3>8. Current = c
      BY <1>1, <3>1, <3>3, CurrentValid
    <3>9. \/ Refused(c, rs) /\ c.op = "clear"
          \/ ~Refused(c, rs) /\ Checks(c, rs)
      BY <1>4, <3>8, <2>2 DEF Exit
    <3>10. SettingsAfter(config, step) /\ StreamsAfter(streams, step)
      BY <1>1, <3>1, <3>3, <3>4, <3>5, <3>7, <3>9, ReplyAchieves
    <3>11. step \in Nat
      BY <3>1, <1>5 DEF IInv, StepInv
    <3>12. Done' = step
      BY <1>5, <1>9, <3>1, <3>11 DEF Done
    <3>13. Effective' = step
      BY <3>7, <3>12 DEF Effective
    <3>14. Achieved'
      <4>1. PICK f : f = streams' /\ f = streams
        BY <1>1
      <4>2. PICK cf : cf = config' /\ cf = config
        BY <1>1
      <4>3. StreamsAfter(f, step) /\ SettingsAfter(cf, step)
        BY <3>10, <4>1, <4>2
      <4> QED BY <1>1, <3>12, <3>13, <4>1, <4>2, <4>3, Transfer
    <3>15. Flight'
      BY <1>1, <1>10, <3>4, <3>7 DEF Flight
    <3> QED BY <1>1, <1>10, <3>1, <3>4, <3>7, <3>14, <3>15 DEF Progress, Recording
  <2> QED BY <2>1, <2>2
<1> QED BY <1>6, <1>8, <1>11, <1>12, <1>13, <1>14, <1>15, <1>16, <1>17 DEF IInv

\* What the receiver makes of command c, and the reply r it gives.
Answered(c, r) == c.op \in {"banner", "login", "caps", "get"} /\ r.ok
                  /\ (c.op = "get" /\ r.value => config[c.name] = "applied")
                  /\ (c.op = "caps" => r.value = aux1)
                  /\ UNCHANGED <<streams, config>>
RefusedBy(c, r) == ~r.ok /\ ~r.value /\ (c.op = "clear" => streams[c.id] = 0)
                   /\ UNCHANGED <<streams, config>>
Cleared(c, r) == c.op = "clear" /\ r.ok /\ streams' = [streams EXCEPT ![c.id] = 0]
                 /\ UNCHANGED config
Started(c, r) == /\ c.op = "stream" /\ r.ok /\ UNCHANGED config
                 /\ streams' = [streams EXCEPT ![settings.streams[c.id].id] =
                                  IF settings.streams[c.id].interval = "off" THEN 0 ELSE c.id]
Set(c, r) == c.op = "set" /\ r.ok /\ UNCHANGED streams
             /\ \E v \in {"accepted", "applied"} : config' = [config EXCEPT ![c.name] = v]

\* One of them.
Effect(c, r) == Answered(c, r) \/ RefusedBy(c, r) \/ Cleared(c, r) \/ Started(c, r) \/ Set(c, r)

\* Each thing the receiver may do with a command is one of these.
LEMMA HandledEffect ==
  ASSUME IInv, ReceiverHandles, NEW c, c = Head(to_receiver), c \in Command
  PROVE  \E r \in ReplyType : to_driver' = Append(to_driver, r) /\ r.cmd = c /\ Effect(c, r)
<1> DEFINE R(ok, value, wf) == [cmd |-> c, ok |-> ok, value |-> value, wellformed |-> wf]
<1>1. \A ok, value, wf \in BOOLEAN :
        /\ R(ok, value, wf) \in ReplyType /\ R(ok, value, wf).cmd = c
        /\ R(ok, value, wf).ok = ok /\ R(ok, value, wf).value = value
  BY DEF ReplyType
<1>2. aux1 \in BOOLEAN
  BY DEF IInv, Flags
<1>3. \/ /\ c.op \in {"banner", "login", "caps", "get"}
         /\ \/ c.op # "caps" /\ Reply(c, TRUE, c.op = "get" /\ config[c.name] = "applied")
            \/ c.op = "caps" /\ \E wf \in BOOLEAN :
                 to_driver' = Append(to_driver, [cmd |-> c, ok |-> TRUE, value |-> aux1,
                                                 wellformed |-> wf])
         /\ UNCHANGED <<streams, config>>
      \/ /\ c.op \notin {"banner", "clear"} \/ (c.op = "clear" /\ streams[c.id] = 0)
         /\ Reply(c, FALSE, FALSE)
         /\ UNCHANGED <<streams, config>>
      \/ /\ c.op = "clear"
         /\ streams' = [streams EXCEPT ![c.id] = 0]
         /\ Reply(c, TRUE, FALSE) /\ UNCHANGED config
      \/ /\ c.op = "stream"
         /\ LET s == settings.streams[c.id]
            IN  streams' = [streams EXCEPT ![s.id] = IF s.interval = "off" THEN 0 ELSE c.id]
         /\ Reply(c, TRUE, FALSE) /\ UNCHANGED config
      \/ /\ c.op = "set"
         /\ \E v \in {"accepted", "applied"} :
              config' = [config EXCEPT ![c.name] = v] /\ Reply(c, TRUE, v = "applied")
         /\ UNCHANGED streams
  BY DEF ReceiverHandles
<1>4. ASSUME NEW ok \in BOOLEAN, NEW value \in BOOLEAN, Reply(c, ok, value)
      PROVE  to_driver' = Append(to_driver, R(ok, value, TRUE))
  BY <1>4 DEF Reply
<1> HIDE DEF R
<1>5. CASE /\ c.op \in {"banner", "login", "get"} /\ UNCHANGED <<streams, config>>
           /\ Reply(c, TRUE, c.op = "get" /\ config[c.name] = "applied")
  <2>1. PICK b \in BOOLEAN : b <=> (c.op = "get" /\ config[c.name] = "applied")
    OBVIOUS
  <2>2. (c.op = "get" /\ config[c.name] = "applied") \in BOOLEAN
    OBVIOUS
  <2>3. b = (c.op = "get" /\ config[c.name] = "applied")
    BY <2>1, <2>2
  <2>4. to_driver' = Append(to_driver, R(TRUE, b, TRUE))
    BY <1>4, <1>5, <2>3
  <2>5. Answered(c, R(TRUE, b, TRUE))
    BY <1>1, <1>5, <2>1 DEF Answered
  <2> QED BY <1>1, <2>4, <2>5 DEF Effect
<1>6. CASE /\ c.op = "caps" /\ UNCHANGED <<streams, config>>
           /\ \E wf \in BOOLEAN : to_driver' = Append(to_driver, [cmd |-> c, ok |-> TRUE,
                                                      value |-> aux1, wellformed |-> wf])
  <2>1. PICK wf \in BOOLEAN : to_driver' = Append(to_driver, R(TRUE, aux1, wf))
    BY <1>6 DEF R
  <2>2. Answered(c, R(TRUE, aux1, wf))
    BY <1>1, <1>2, <1>6 DEF Answered
  <2> QED BY <1>1, <1>2, <2>1, <2>2 DEF Effect
<1>7. CASE /\ c.op = "clear" => streams[c.id] = 0
           /\ Reply(c, FALSE, FALSE) /\ UNCHANGED <<streams, config>>
  <2>1. to_driver' = Append(to_driver, R(FALSE, FALSE, TRUE))
    BY <1>4, <1>7
  <2>2. RefusedBy(c, R(FALSE, FALSE, TRUE))
    BY <1>1, <1>7 DEF RefusedBy
  <2> QED BY <1>1, <2>1, <2>2 DEF Effect
<1>8. CASE /\ c.op = "clear" /\ streams' = [streams EXCEPT ![c.id] = 0]
           /\ Reply(c, TRUE, FALSE) /\ UNCHANGED config
  <2>1. to_driver' = Append(to_driver, R(TRUE, FALSE, TRUE))
    BY <1>4, <1>8
  <2>2. Cleared(c, R(TRUE, FALSE, TRUE))
    BY <1>1, <1>8 DEF Cleared
  <2> QED BY <1>1, <2>1, <2>2 DEF Effect
<1>9. CASE /\ c.op = "stream"
           /\ streams' = [streams EXCEPT ![settings.streams[c.id].id] =
                            IF settings.streams[c.id].interval = "off" THEN 0 ELSE c.id]
           /\ Reply(c, TRUE, FALSE) /\ UNCHANGED config
  <2>1. to_driver' = Append(to_driver, R(TRUE, FALSE, TRUE))
    BY <1>4, <1>9
  <2>2. Started(c, R(TRUE, FALSE, TRUE))
    BY <1>1, <1>9 DEF Started
  <2> QED BY <1>1, <2>1, <2>2 DEF Effect
<1>10. CASE /\ c.op = "set" /\ UNCHANGED streams
            /\ \E v \in {"accepted", "applied"} :
                 config' = [config EXCEPT ![c.name] = v] /\ Reply(c, TRUE, v = "applied")
  <2>1. PICK v \in {"accepted", "applied"} :
          config' = [config EXCEPT ![c.name] = v] /\ Reply(c, TRUE, v = "applied")
    BY <1>10
  <2>2. PICK b \in BOOLEAN : b = (v = "applied")
    OBVIOUS
  <2>3. to_driver' = Append(to_driver, R(TRUE, b, TRUE))
    BY <1>4, <2>1, <2>2
  <2>4. Set(c, R(TRUE, b, TRUE))
    BY <1>1, <1>10, <2>1 DEF Set
  <2> QED BY <1>1, <2>3, <2>4 DEF Effect
<1> QED BY <1>3, <1>5, <1>6, <1>7, <1>8, <1>9, <1>10

\* The effect keeps the types.
LEMMA EffectTypes ==
  ASSUME IInv, NEW c, Valid(c), NEW r, Effect(c, r), UNCHANGED settings
  PROVE  ReceiverType'
<1>1. PICK n \in Nat : n = Len(settings.streams) /\ DOMAIN settings.streams = 1..n
  BY LenProperties DEF IInv, Loaded
<1>2. streams \in [1..NStreams -> -1..n] /\ config \in [Names -> {"old", "accepted", "applied"}]
  BY <1>1 DEF IInv, ReceiverType
<1>3. streams' \in [1..NStreams -> -1..n]
  <2>1. CASE UNCHANGED streams
    BY <1>2, <2>1
  <2>2. CASE Cleared(c, r)
    <3>1. 0 \in -1..n
      OBVIOUS
    <3>2. PICK k : streams' = [streams EXCEPT ![k] = 0]
      BY <2>2 DEF Cleared
    <3> QED BY <1>2, <3>1, <3>2
  <2>3. CASE Started(c, r)
    <3>1. PICK v \in -1..n : streams' = [streams EXCEPT ![settings.streams[c.id].id] = v]
      <4>1. c.id \in 1..n
        BY <1>1, <2>3 DEF Started, Valid
      <4>2. c.id \in -1..n /\ 0 \in -1..n
        BY <4>1
      <4> QED BY <2>3, <4>2 DEF Started
    <3> QED BY <1>2, <3>1
  <2> QED BY <2>1, <2>2, <2>3 DEF Effect, Answered, RefusedBy, Set
<1>4. config' \in [Names -> {"old", "accepted", "applied"}]
  <2>1. CASE UNCHANGED config
    BY <1>2, <2>1
  <2>2. CASE Set(c, r)
    BY <1>2, <2>2 DEF Set
  <2> QED BY <2>1, <2>2 DEF Effect, Answered, RefusedBy, Cleared, Started
<1> QED BY <1>1, <1>3, <1>4 DEF ReceiverType

\* The reply says what the effect was.
LEMMA EffectAnswers ==
  ASSUME IInv, NEW c, Valid(c), NEW r \in ReplyType, r.cmd = c, Effect(c, r), UNCHANGED aux1
  PROVE  Answers(r)'
<1>1. /\ DOMAIN streams = 1..NStreams /\ DOMAIN config = Names
      /\ (c.op = "clear" => c.id \in 1..NStreams)
      /\ (c.op = "set" => c.name \in Names)
  BY DEF IInv, ReceiverType, Valid
<1>2. CASE Answered(c, r)
  BY <1>2 DEF Answered, Answers
<1>3. CASE RefusedBy(c, r)
  BY <1>3 DEF RefusedBy, Answers
<1>4. CASE Cleared(c, r)
  BY <1>1, <1>4 DEF Cleared, Answers
<1>5. CASE Started(c, r)
  BY <1>5 DEF Started, Answers
<1>6. CASE Set(c, r)
  BY <1>1, <1>6 DEF Set, Answers
<1> QED BY <1>2, <1>3, <1>4, <1>5, <1>6 DEF Effect

\* What is achieved stays so, and the command counts once it took effect.
LEMMA EffectAchieves ==
  ASSUME IInv, NEW m \in Nat, m + 1 \in 1..Len(Script), NEW c, c = Script[m + 1], NEW r,
         Effect(c, r), SettingsAfter(config, m), StreamsAfter(streams, m),
         NEW f, f = streams', NEW cf, cf = config', NEW n, n = IF r.ok THEN m + 1 ELSE m
  PROVE  SettingsAfter(cf, m) /\ StreamsAfter(f, n)
<1>1. settings.streams \in Seq(StreamEntry) /\ DOMAIN streams = 1..NStreams
      /\ config \in [Names -> {"old", "accepted", "applied"}]
  BY DEF IInv, Loaded, ReceiverType
<1>2. Kind(m + 1)
  BY <1>1, ScriptFacts
<1>3. CASE Answered(c, r)
  <2>1. c.op \notin {"clear", "stream"} /\ n = m + 1 /\ f = streams /\ cf = config
    BY <1>3 DEF Answered
  <2> QED BY <1>1, <2>1, StreamsNeutral
<1>4. CASE RefusedBy(c, r)
  BY <1>4 DEF RefusedBy
<1>5. CASE Cleared(c, r)
  <2>1. c.op = "clear" /\ n = m + 1 /\ f = [streams EXCEPT ![c.id] = 0] /\ cf = config
    BY <1>5 DEF Cleared
  <2>2. PICK t \in 1..NStreams : c = Cmd("clear", "stream", t)
    BY <1>2, <2>1, CmdFields DEF Kind, Caps
  <2>3. c.id = t
    BY <2>2, CmdFields
  <2>4. Script[m + 1] = Cmd("clear", "stream", t)
    BY <2>2
  <2>5. StreamsAfter([streams EXCEPT ![t] = 0], m + 1)
    BY <1>1, <2>4, StreamsCleared
  <2>6. f = [streams EXCEPT ![t] = 0]
    BY <2>1, <2>3
  <2> QED BY <2>1, <2>5, <2>6
<1>6. CASE Started(c, r)
  <2>1. /\ c.op = "stream" /\ n = m + 1 /\ cf = config
        /\ f = [streams EXCEPT ![settings.streams[c.id].id] =
                  IF settings.streams[c.id].interval = "off" THEN 0 ELSE c.id]
    BY <1>6 DEF Started
  <2>2. PICK k \in DOMAIN settings.streams : c = Cmd("stream", "entry", k)
    BY <1>2, <2>1, CmdFields DEF Kind, Caps
  <2>3. c.id = k
    BY <2>2, CmdFields
  <2>4. PICK v : v = IF settings.streams[k].interval = "off" THEN 0 ELSE k
    OBVIOUS
  <2>5. PICK t \in 1..NStreams : t = settings.streams[k].id
    BY DEF IInv, Loaded, CanBuild
  <2>6. f = [streams EXCEPT ![t] = v]
    BY <2>1, <2>3, <2>4, <2>5
  <2>7. Script[m + 1] = Cmd("stream", "entry", k)
    BY <2>2
  <2>8. StreamsAfter([streams EXCEPT ![t] = v], m + 1)
    BY <1>1, <2>4, <2>5, <2>7, StreamsStarted
  <2> QED BY <2>1, <2>6, <2>8
<1>7. CASE Set(c, r)
  <2>1. c.op = "set" /\ n = m + 1 /\ f = streams
    BY <1>7 DEF Set
  <2>2. PICK v \in {"accepted", "applied"} : cf = [config EXCEPT ![c.name] = v]
    BY <1>7 DEF Set
  <2>3. c.name \in Names
    BY <1>2, <2>1, CmdFields DEF Kind, Caps
  <2>4. SettingsAfter(cf, m)
    <3>1. PICK k \in Names : k = Script[m + 1].name
      BY <2>3
    <3>2. Script[m + 1].op = "set"
      BY <2>1
    <3>3. SettingsAfter([config EXCEPT ![k] = v], m)
      BY <1>1, <3>1, <3>2, SettingsKept
    <3>4. cf = [config EXCEPT ![k] = v]
      BY <2>2, <3>1
    <3> QED BY <3>3, <3>4
  <2>5. StreamsAfter(f, n)
    BY <1>1, <2>1, StreamsNeutral
  <2> QED BY <2>4, <2>5
<1> QED BY <1>3, <1>4, <1>5, <1>6, <1>7 DEF Effect

\* The receiver executes a command.
LEMMA ReceiverHandlesStep ==
  ASSUME IInv, ReceiverHandles
  PROVE  IInv'
<1>1. /\ to_receiver # <<>> /\ to_receiver' = Tail(to_receiver)
      /\ UNCHANGED <<pc, settings, addr, step, sent, g_stop, exit_code, ctrl_up, data_up, aux1,
                     signals>>
  BY DEF ReceiverHandles
<1>2. PICK q \in Seq(Command) : q = to_receiver /\ q # <<>>
  BY <1>1 DEF IInv, Channels
<1>3. PICK c : c = Head(q)
  OBVIOUS
<1>4. c = q[1] /\ 1 \in DOMAIN q /\ c \in Command
  BY <1>2, <1>3, HeadTailProperties, EmptySeq, LenProperties
<1>5. Valid(c)
  BY <1>2, <1>4 DEF IInv, Channels
<1>6. PICK r \in ReplyType : to_driver' = Append(to_driver, r) /\ r.cmd = c /\ Effect(c, r)
  BY <1>2, <1>3, <1>4, HandledEffect
<1>7. Script' = Script
  BY <1>1, ScriptFixed
<1>8. Flags'
  BY <1>1 DEF IInv, Flags
<1>9. Counters' /\ Places'
  BY <1>1 DEF IInv, Counters, Places
<1>10. StepType' /\ StepInv'
  BY <1>1, <1>7 DEF IInv, StepType, StepInv
<1>11. Loaded'
  BY <1>1 DEF IInv, Loaded
<1>12. ReceiverType'
  BY <1>1, <1>5, <1>6, EffectTypes
<1>13. Channels'
  <2>1. to_driver' \in Seq(ReplyType)
    BY <1>6, AppendProperties DEF IInv, Channels
  <2>2. PICK t \in Seq(Command) : t = to_receiver'
    BY <1>1, <1>2, HeadTailProperties
  <2>3. \A i \in DOMAIN t : i + 1 \in DOMAIN q /\ t[i] = q[i + 1]
    <3>1. PICK n \in Nat : n = Len(q) /\ DOMAIN q = 1..n /\ n > 0
      BY <1>2, EmptySeq, LenProperties
    <3>2. Len(t) = n - 1 /\ \A i \in 1..(n - 1) : t[i] = q[i + 1]
      BY <1>1, <1>2, <2>2, <3>1, HeadTailProperties
    <3>3. DOMAIN t = 1..(n - 1)
      BY <3>2, LenProperties
    <3> QED BY <3>1, <3>2, <3>3
  <2>4. \A i \in DOMAIN t : Valid(t[i])
    BY <1>2, <2>3 DEF IInv, Channels
  <2> QED BY <1>1, <2>1, <2>2, <2>4 DEF Channels, Valid
<1>14. Untouched'
  BY <1>1 DEF IInv, Untouched
<1>15. Progress'
  <2>1. CASE pc = "configure"
    <3>1. Flight
      BY <2>1 DEF IInv, Progress
    <3>2. q = <<Script[step]>> /\ to_driver = <<>> /\ sent
      BY <1>2, <3>1 DEF Flight
    <3>3. c = Script[step]
      BY <1>4, <3>2
    <3>4. step \in 1..Len(Script) /\ Len(Script) \in Nat
      BY <2>1, CurrentValid
    <3>5. PICK m \in Nat : m = step - 1 /\ m + 1 = step
      BY <3>4
    <3>6. to_receiver' = <<>> /\ to_driver' = <<r>>
      BY <1>1, <1>2, <1>6, <3>2
    <3>7. Len(to_driver') = 1 /\ to_driver'[1] = r
      BY <1>6, <3>6
    <3>8. Answers(r)'
      BY <1>1, <1>5, <1>6, EffectAnswers
    <3>9. Flight'
      BY <1>1, <1>6, <1>7, <3>2, <3>3, <3>6, <3>7, <3>8 DEF Flight, Answers
    <3>10. Done = m /\ Effective = m
      BY <2>1, <3>2, <3>5 DEF Done, Effective
    <3>11. Done' = m
      BY <1>1, <2>1, <3>5 DEF Done
    <3>12. PICK n : n = Effective' /\ n = IF r.ok THEN m + 1 ELSE m
      BY <3>6, <3>7, <3>11 DEF Effective
    <3>13. SettingsAfter(config, m) /\ StreamsAfter(streams, m)
      BY <2>1, <3>10 DEF IInv, Progress, Achieved
    <3>14. PICK f : f = streams'
      OBVIOUS
    <3>15. PICK cf : cf = config'
      OBVIOUS
    <3>16. SettingsAfter(cf, m) /\ StreamsAfter(f, n)
      BY <1>6, <3>3, <3>4, <3>5, <3>12, <3>13, <3>14, <3>15, EffectAchieves
    <3>17. Achieved'
      BY <1>1, <3>11, <3>12, <3>14, <3>15, <3>16, Transfer
    <3> QED BY <1>1, <2>1, <3>9, <3>17 DEF Progress, Recording
  <2>2. CASE pc # "configure"
    BY <1>1, <2>2 DEF IInv, Progress
  <2> QED BY <2>1, <2>2
<1> QED BY <1>8, <1>9, <1>10, <1>11, <1>12, <1>13, <1>14, <1>15 DEF IInv

-----------------------------------------------------------------------------
(* The theorems.                                                           *)

\* The invariant holds at first.
LEMMA InitInv == Init => IInv
<1> SUFFICES ASSUME Init PROVE IInv
  OBVIOUS
<1>1. settings.streams = <<>>
  BY DEF Init, NoSettings
<1>2. /\ settings.streams \in Seq(StreamEntry) /\ Len(settings.streams) = 0
      /\ DOMAIN settings.streams = {}
  BY <1>1
<1>3. Flags
  BY DEF Init, Flags
<1>4. Counters
  BY SessionAssumption DEF Init, Counters
<1>5. Places
  BY DEF Init, Places
<1>6. StepType
  BY <1>2, ScriptLength, ConfigAssumption DEF Init, StepType
<1>7. ReceiverType
  <2>1. \A x \in {0, -1} : x \in -1..0
    OBVIOUS
  <2>2. streams \in [1..NStreams -> -1..0]
    BY <2>1 DEF Init
  <2>3. config \in [Names -> {"old", "accepted", "applied"}]
    BY DEF Init
  <2> QED BY <1>2, <2>2, <2>3 DEF ReceiverType
<1>8. Loaded
  BY <1>2 DEF Loaded
<1>9. Channels
  BY DEF Init, Channels
<1>10. Untouched
  BY DEF Init, Untouched
<1>11. StepInv
  BY DEF Init, StepInv
<1>12. Progress
  BY DEF Init, Progress, Recording
<1> QED BY <1>3, <1>4, <1>5, <1>6, <1>7, <1>8, <1>9, <1>10, <1>11, <1>12 DEF IInv

\* Every step keeps it.
LEMMA NextInv == IInv /\ [Next]_vars => IInv'
<1> SUFFICES ASSUME IInv, [Next]_vars PROVE IInv'
  OBVIOUS
<1>1. CASE ParseArguments
  BY <1>1, ParseArgumentsStep
<1>2. CASE LoadConfig
  BY <1>2, LoadConfigStep
<1>3. CASE SetupLogging
  BY <1>3, SetupLoggingStep
<1>4. CASE Resolve
  BY <1>4, ResolveStep
<1>5. CASE Connected
  BY <1>5, ConnectedStep
<1>6. CASE AddressFails
  BY <1>6, AddressFailsStep
<1>7. CASE SendCommand
  BY <1>7, SendCommandStep
<1>8. CASE ReadReply
  BY <1>8, ReadReplyStep
<1>9. CASE ReadFails
  BY <1>9, ReadFailsStep
<1>10. CASE ReadInterrupted
  BY <1>10, ReadInterruptedStep
<1>11. CASE LoopTest
  BY <1>11, LoopTestStep
<1>12. CASE ReadData
  BY <1>12, ReadDataStep
<1>13. CASE ReadZero
  BY <1>13, ReadZeroStep
<1>14. CASE ReadError
  BY <1>14, ReadErrorStep
<1>15. CASE StopDone
  BY <1>15, StopDoneStep
<1>16. CASE ReceiverHandles
  BY <1>16, ReceiverHandlesStep
<1>17. CASE SignalKills
  BY <1>17, SignalKillsStep
<1>18. CASE Signal
  BY <1>18, SignalStep
<1>19. CASE CtrlCloses
  BY <1>19, CtrlClosesStep
<1>20. CASE DataCloses
  BY <1>20, DataClosesStep
<1>21. CASE UNCHANGED vars
  <2>1. UNCHANGED <<settings, to_receiver, to_driver, streams, config, aux1, pc, step, sent,
                    addr, g_stop, exit_code, ctrl_up, data_up, signals>>
    BY <1>21 DEF vars, channels, receiver
  <2>2. Loaded' /\ Channels' /\ ReceiverType' /\ Script' = Script /\ Progress'
    BY <2>1, Quiet
  <2>3. Flags'
    BY <2>1 DEF IInv, Flags
  <2>4. Counters' /\ Places'
    BY <2>1 DEF IInv, Counters, Places
  <2>5. StepType' /\ StepInv'
    BY <2>1, <2>2 DEF IInv, StepType, StepInv
  <2>6. Untouched'
    BY <2>1 DEF IInv, Untouched
  <2> QED BY <2>2, <2>3, <2>4, <2>5, <2>6 DEF IInv
<1> QED BY <1>1, <1>2, <1>3, <1>4, <1>5, <1>6, <1>7, <1>8, <1>9, <1>10, <1>11, <1>12,
  <1>13, <1>14, <1>15, <1>16, <1>17, <1>18, <1>19, <1>20, <1>21
  DEF Next, Driver

\* The inductive invariant holds in every state of a run: what main() takes the
\* receiver to be is what the receiver is.
THEOREM Inductive == Spec => []IInv
  BY InitInv, NextInv, PTL DEF Spec

\* It implies the type invariant.
LEMMA InvTypes == IInv => TypeOK
<1> SUFFICES ASSUME IInv PROVE TypeOK
  OBVIOUS
<1>1. pc = "configure" => Len(to_receiver) + Len(to_driver) <= 1
  <2> SUFFICES ASSUME pc = "configure" PROVE Len(to_receiver) + Len(to_driver) <= 1
    OBVIOUS
  <2>1. Flight
    BY DEF IInv, Progress
  <2>2. \/ Len(to_receiver) = 1 /\ Len(to_driver) = 0
        \/ Len(to_receiver) = 0 /\ Len(to_driver) = 0
        \/ Len(to_receiver) = 0 /\ Len(to_driver) = 1
    <3>1. Len(<<>>) = 0 /\ Len(<<Script[step]>>) = 1
      OBVIOUS
    <3> QED BY <2>1, <3>1 DEF Flight
  <2>3. PICK a, b : a = Len(to_receiver) /\ b = Len(to_driver)
    OBVIOUS
  <2>4. a \in 0..1 /\ b \in 0..1 /\ a + b <= 1
    BY <2>2, <2>3
  <2> QED BY <2>3, <2>4
<1>2. sent \in BOOLEAN /\ g_stop \in BOOLEAN
      /\ ctrl_up \in BOOLEAN /\ data_up \in BOOLEAN /\ aux1 \in BOOLEAN
  BY DEF IInv, Flags
<1>3. addr \in 0..MaxAddrs /\ signals \in 0..MaxSignals
  BY DEF IInv, Counters
<1> QED BY <1>1, <1>2, <1>3 DEF TypeOK, IInv, Places, StepType, ReceiverType

\* Every variable keeps its type, and while apply() runs at most one command
\* or reply is under way, so that read_until() gets the reply to its command.
THEOREM TypeCorrect == Spec => []TypeOK
  BY Inductive, InvTypes, PTL

\* Every entry was looked at before the first command.
LEMMA InvEarly == IInv => RejectedEarly
<1> SUFFICES ASSUME IInv PROVE RejectedEarly
  OBVIOUS
<1>1. exit_code = 2 => to_receiver = <<>> /\ config = [n \in Names |-> "old"]
  BY DEF IInv, Untouched
<1>2. pc = "configure" => Builds(Current)
  BY CurrentBuilds
<1> QED BY <1>1, <1>2 DEF RejectedEarly

\* validate_receiver_settings() has looked at every entry: apply() never gets
\* to a command it cannot build, and exit code 2 means an untouched receiver.
THEOREM Early == Spec => []RejectedEarly
  BY Inductive, InvEarly, PTL

\* The last entry for a stream is the one that decides.
LEMMA WantedIs ==
  ASSUME IInv, NEW s \in 1..NStreams, NEW m, m = Len(Script), NEW f, StreamAfter(f, s, m)
  PROVE  f[s] = StreamWanted(s)
<1> DEFINE entries == {i \in DOMAIN settings.streams : settings.streams[i].id = s}
           last == CHOOSE i \in entries : \A j \in entries : j <= i
<1>1. PICK n \in Nat : n = Len(settings.streams) /\ DOMAIN settings.streams = 1..n
  BY LenProperties DEF IInv, Loaded
<1>2. PICK fr \in Nat : fr = Front /\ m = fr + n
  BY <1>1, ScriptParts DEF IInv, Loaded
<1>3. \A k \in DOMAIN settings.streams : k \in Nat /\ fr + k <= m
  BY <1>1, <1>2
<1>4. StreamWanted(s) = IF entries = {} THEN 0
                        ELSE IF settings.streams[last].interval = "off" THEN 0 ELSE last
  BY DEF StreamWanted
<1>5. CASE entries = {}
  <2>1. ~\E k \in DOMAIN settings.streams : Decides(k, s, m)
    BY <1>5 DEF Decides
  <2>2. f[s] = 0
    BY <2>1 DEF StreamAfter
  <2> QED BY <1>4, <1>5, <2>2
<1>6. CASE entries # {}
  <2>1. \E k \in DOMAIN settings.streams : settings.streams[k].id = s
    BY <1>6
  <2>2. PICK k \in DOMAIN settings.streams :
          Decides(k, s, m) /\ f[s] = IF settings.streams[k].interval = "off" THEN 0 ELSE k
    BY <1>2, <1>3, <2>1 DEF StreamAfter
  <2>3. k \in entries /\ \A j \in entries : j <= k
    BY <1>2, <1>3, <2>2 DEF Decides
  <2>4. \A i \in entries : i \in Nat
    BY <1>3
  <2> HIDE DEF entries
  <2>5. last \in entries /\ \A j \in entries : j <= last
    BY <2>3
  <2>6. PICK l \in Nat : l = last
    BY <2>4, <2>5
  <2>7. l <= k /\ k <= l /\ k \in Nat
    BY <2>3, <2>4, <2>5, <2>6
  <2>8. l = k
    BY <2>6, <2>7
  <2> HIDE DEF last
  <2> QED BY <1>4, <1>6, <2>2, <2>6, <2>8
<1> QED BY <1>5, <1>6

\* When the script is through, all of it is achieved.
LEMMA InvConfigured == IInv => ConfiguredAsAsked
<1>1. SUFFICES ASSUME IInv, pc \in Recording
               PROVE  /\ \A n \in VerifiedNames : config[n] = "applied"
                      /\ \A n \in PlainNames : config[n] # "old"
                      /\ \A s \in 1..NStreams : streams[s] = StreamWanted(s)
                      /\ settings.require_aux1 => aux1
  BY DEF ConfiguredAsAsked, Recording
<1>2. settings.streams \in Seq(StreamEntry)
  BY <1>1 DEF IInv, Loaded
<1>3. PICK m : m = Len(Script)
  OBVIOUS
<1>4. Done = m /\ Effective = m
  BY <1>1, <1>3 DEF IInv, Progress, Recording, Done, Effective
<1>5. SettingsAfter(config, m) /\ StreamsAfter(streams, m)
  BY <1>1, <1>4 DEF IInv, Progress, Achieved
<1>6. ASSUME NEW n \in VerifiedNames PROVE config[n] = "applied"
  <2>1. PICK i \in 1..m : Script[i] = Cmd("get", n, 0)
    BY <1>2, <1>3, ScriptFacts
  <2>2. Script[i].op = "get" /\ Script[i].name = n
    BY <2>1, CmdFields
  <2> QED BY <1>5, <2>2 DEF SettingsAfter
<1>7. ASSUME NEW n \in PlainNames PROVE config[n] # "old"
  <2>1. PICK i \in 1..m : Script[i] = Cmd("set", n, 0)
    BY <1>2, <1>3, ScriptFacts
  <2>2. Script[i].op = "set" /\ Script[i].name = n
    BY <2>1, CmdFields
  <2> QED BY <1>5, <2>2 DEF SettingsAfter
<1>8. PICK fr, n \in Nat : fr = Front /\ m = fr + n /\ fr >= 2
  BY <1>2, <1>3, ScriptParts, LenProperties
<1>9. ASSUME NEW s \in 1..NStreams PROVE streams[s] = StreamWanted(s)
  <2>1. PICK i \in 1..fr : Script[i] = Cmd("clear", "stream", s)
    BY <1>2, <1>8, ScriptFacts
  <2>2. i \in 1..m
    BY <1>8, <2>1
  <2>3. StreamAfter(streams, s, m)
    BY <1>5, <2>1, <2>2 DEF StreamsAfter
  <2> QED BY <1>1, <1>3, <2>3, WantedIs
<1>10. settings.require_aux1 => aux1
  <2>1. PICK i \in 1..m : Script[i] = Caps
    BY <1>2, <1>3, ScriptFacts
  <2>2. Script[i].op = "caps"
    BY <2>1, CmdFields DEF Caps
  <2> QED BY <1>5, <2>2 DEF SettingsAfter
<1> QED BY <1>6, <1>7, <1>9, <1>10

\* While the driver records, what apply() reads back has its value, what it
\* only sets was accepted, the antenna it requires is there, and each stream
\* outputs what the last entry for it asks for, or nothing.
THEOREM Configured == Spec => []ConfiguredAsAsked
  BY Inductive, InvConfigured, PTL

-----------------------------------------------------------------------------
(* Stopping the streams.                                                   *)

\* Nothing but clearing of streams is under way.
OnlyClears == \A i \in DOMAIN to_receiver : to_receiver[i].op = "clear"

\* Stream s is off, or about to be.
Off(s) ==
  streams[s] = 0 \/ \E i \in DOMAIN to_receiver : to_receiver[i] = Cmd("clear", "stream", s)

\* The streams whose command stop_streams() has sent.
Passed == IF sent THEN step ELSE step - 1

\* stop_streams() has come to stream Passed, and at the end to the last one.
StopInv ==
  /\ pc = "stop" /\ ctrl_up => OnlyClears /\ \A s \in 1..NStreams : s <= Passed => Off(s)
  /\ exit_code = 0 /\ settings # NoSettings /\ ctrl_up =>
       OnlyClears /\ \A s \in 1..NStreams : Off(s)

\* Elsewhere in main(), and after other exits, there is nothing to show.
LEMMA StopElsewhere == pc # "stop" /\ exit_code # 0 => StopInv
BY DEF StopInv

\* The same in the next state.
LEMMA StopElsewhereNext == pc' # "stop" /\ exit_code' # 0 => StopInv'
BY DEF StopInv

\* Steps that neither begin nor end stop_streams().
LEMMA StopUntouched ==
  ASSUME IInv, StopInv,
         \/ LoadConfig \/ SetupLogging \/ Resolve \/ Connected \/ AddressFails \/ ReadData
         \/ SignalKills
  PROVE  StopInv'
<1>1. pc # "exit" /\ exit_code = -1
  <2>1. pc # "exit"
    BY DEF LoadConfig, SetupLogging, Resolve, Connected, AddressFails, ReadData, SignalKills
  <2> QED BY <2>1 DEF IInv, Places
<1>2. pc' # "stop" /\ exit_code' # 0
  BY <1>1 DEF LoadConfig, SetupLogging, Resolve, Connected, AddressFails, ReadData, SignalKills,
     Exit, Aborted, Interrupted
<1> QED BY <1>2, StopElsewhereNext

\* --help: nothing was loaded.
LEMMA StopAtHelp ==
  ASSUME IInv, ParseArguments
  PROVE  StopInv'
<1>1. pc' # "stop" /\ settings' = settings /\ pc = "start"
  BY DEF ParseArguments, Exit
<1>2. settings = NoSettings
  BY <1>1 DEF IInv, Untouched
<1>3. settings' = NoSettings' /\ pc' # "stop"
  BY <1>1, <1>2 DEF NoSettings
<1> QED BY <1>3 DEF StopInv

\* Nothing that matters changes.
LEMMA StopSame ==
  ASSUME StopInv,
         UNCHANGED <<pc, settings, step, sent, exit_code, to_receiver, ctrl_up, streams>>
  PROVE  StopInv'
BY DEF StopInv, OnlyClears, Off, Passed, NoSettings, Cmd

\* stop_streams() begins with nothing under way.
LEMMA StopBegins ==
  ASSUME IInv, pc \in {"loop", "read"}, EndLoop, UNCHANGED to_receiver
  PROVE  StopInv'
<1>1. to_receiver' = <<>> /\ sent' = FALSE /\ step' = 1 /\ exit_code' = -1
  <2>1. to_receiver = <<>> /\ sent = FALSE /\ exit_code = -1
    BY DEF IInv, Progress, Recording, Places, Flags
  <2> QED BY <2>1 DEF EndLoop
<1>2. OnlyClears'
  <2>1. DOMAIN to_receiver' = {}
    BY <1>1
  <2> QED BY <2>1 DEF OnlyClears
<1>3. \A s \in 1..NStreams : ~(s <= Passed')
  BY <1>1 DEF Passed
<1> QED BY <1>1, <1>2, <1>3 DEF StopInv

\* A command of stop_streams() is under way once it is sent.
LEMMA StopSends ==
  ASSUME IInv, StopInv, SendCommand
  PROVE  StopInv'
<1>1. /\ pc \in {"configure", "stop"} /\ exit_code = -1 /\ sent = FALSE
      /\ UNCHANGED <<settings, ctrl_up, streams>>
  BY DEF SendCommand, IInv, Places, Flags, receiver
<1>2. CASE pc = "configure"
  BY <1>1, <1>2, StopElsewhereNext DEF SendCommand, TcpFailure, SwallowsTcpError, Exit
<1>3. CASE pc = "stop" /\ ~ctrl_up
  <2>1. exit_code' # 0
    BY <1>1, <1>3 DEF SendCommand, TcpFailure, SwallowsTcpError, Exit, Advance
  <2> QED BY <1>1, <1>3, <2>1 DEF StopInv
<1>4. CASE pc = "stop" /\ ctrl_up
  <2>1. PICK c : c = Cmd("clear", "stream", step) /\ c.op = "clear" /\ c = Current
    BY <1>4, CmdFields DEF Current
  <2>2. Builds(c)
    BY <2>1 DEF Builds
  <2>3. /\ to_receiver' = Append(to_receiver, c) /\ sent' = TRUE
        /\ UNCHANGED <<pc, step, exit_code>>
    BY <1>4, <2>1, <2>2 DEF SendCommand
  <2>4. PICK q \in Seq(Command) : q = to_receiver
    BY DEF IInv, Channels
  <2>5. PICK p : p = Append(q, c)
    OBVIOUS
  <2>6. c \in Command
    <3>1. step \in Int
      BY <1>4 DEF IInv, StepInv
    <3>2. "clear" \in Ops /\ "stream" \in Titles
      BY DEF Ops, Titles
    <3> QED BY <2>1, <3>1, <3>2, CmdType
  <2>7. PICK n \in Nat : n = Len(q) /\ DOMAIN q = 1..n
    BY LenProperties
  <2>8. /\ DOMAIN p = 1..(n + 1) /\ p[n + 1] = c /\ \A i \in 1..n : p[i] = q[i]
    BY <2>5, <2>6, <2>7, AppendProperties, LenProperties
  <2>9. OnlyClears'
    <3> SUFFICES ASSUME NEW i \in 1..(n + 1) PROVE p[i].op = "clear"
      BY <2>3, <2>4, <2>5, <2>8 DEF OnlyClears
    <3>1. CASE i = n + 1
      BY <2>1, <2>8, <3>1
    <3>2. CASE i \in 1..n
      BY <1>4, <2>4, <2>7, <2>8, <3>2 DEF StopInv, OnlyClears
    <3> QED BY <3>1, <3>2
  <2>10. ASSUME NEW s \in 1..NStreams, s <= Passed' PROVE Off(s)'
    <3>1. s <= step
      BY <2>3, <2>10 DEF Passed
    <3>2. CASE s = step
      <4>1. p[n + 1] = Cmd("clear", "stream", s) /\ n + 1 \in DOMAIN p
        BY <2>1, <2>8, <3>2
      <4>2. \E i \in DOMAIN to_receiver' : to_receiver'[i] = Cmd("clear", "stream", s)
        BY <2>3, <2>4, <2>5, <4>1
      <4> QED BY <4>2 DEF Off, Cmd
    <3>3. CASE s # step
      <4>1. s <= Passed
        <5>1. step \in Nat
          BY <1>4 DEF IInv, StepInv
        <5> QED BY <1>1, <3>1, <3>3, <5>1 DEF Passed
      <4>2. Off(s)
        BY <1>4, <4>1 DEF StopInv
      <4>3. CASE streams[s] = 0
        BY <1>1, <4>3 DEF Off
      <4>4. CASE streams[s] # 0
        <5>1. PICK i \in 1..n : q[i] = Cmd("clear", "stream", s)
          BY <2>4, <2>7, <4>2, <4>4 DEF Off
        <5>2. p[i] = Cmd("clear", "stream", s) /\ i \in DOMAIN p
          BY <2>8, <5>1
        <5>3. \E j \in DOMAIN to_receiver' : to_receiver'[j] = Cmd("clear", "stream", s)
          BY <2>3, <2>4, <2>5, <5>2
        <5> QED BY <5>3 DEF Off, Cmd
      <4> QED BY <4>3, <4>4
    <3> QED BY <3>2, <3>3
  <2>11. exit_code' # 0
    BY <1>1, <2>3
  <2> QED BY <2>9, <2>10, <2>11 DEF StopInv
<1> QED BY <1>1, <1>2, <1>3, <1>4

\* A reply, a timeout or a closed channel: stop_streams() goes on.
LEMMA StopGoesOn ==
  ASSUME IInv, StopInv, sent, UNCHANGED <<settings, to_receiver, ctrl_up, streams>>,
         Advance \/ Exit(1)
  PROVE  StopInv'
<1>1. pc \in {"configure", "stop"} /\ exit_code = -1 /\ sent = TRUE
  BY DEF IInv, StepInv, Places, Flags
<1>2. CASE Exit(1)
  BY <1>2, StopElsewhereNext DEF Exit
<1>3. CASE Advance /\ pc = "configure"
  BY <1>1, <1>3, StopElsewhereNext DEF Advance
<1>4. CASE Advance /\ pc = "stop"
  <2>1. step \in Nat
    BY <1>4 DEF IInv, StepInv
  <2>2. Passed' = Passed /\ exit_code' = -1 /\ pc' = "stop"
    BY <1>1, <1>4, <2>1 DEF Advance, Passed
  <2>3. OnlyClears' = OnlyClears /\ \A s : Off(s)' = Off(s)
    BY DEF OnlyClears, Off, Cmd
  <2>4. ctrl_up' = ctrl_up
    OBVIOUS
  <2> QED BY <1>4, <2>2, <2>3, <2>4 DEF StopInv
<1> QED BY <1>1, <1>2, <1>3, <1>4

\* The last stream was the last to be stopped.
LEMMA StopEnds ==
  ASSUME IInv, StopInv, StopDone
  PROVE  StopInv'
<1>1. /\ pc = "stop" /\ sent = FALSE /\ step > NStreams /\ pc' = "exit"
      /\ UNCHANGED <<settings, to_receiver, ctrl_up, streams>>
  BY DEF StopDone, LastStop, Exit, channels, receiver, IInv, Flags
<1>2. step \in Nat /\ NStreams \in Nat
  BY <1>1, ConfigAssumption DEF IInv, StepInv
<1>3. \A s \in 1..NStreams : s <= Passed
  BY <1>1, <1>2 DEF Passed
<1>4. OnlyClears' = OnlyClears /\ \A s : Off(s)' = Off(s)
  BY <1>1 DEF OnlyClears, Off, Cmd
<1> QED BY <1>1, <1>3, <1>4 DEF StopInv

\* The receiver executes what stop_streams() sent.
LEMMA StopHandled ==
  ASSUME IInv, StopInv, ReceiverHandles
  PROVE  StopInv'
<1>1. /\ to_receiver # <<>> /\ to_receiver' = Tail(to_receiver) /\ ctrl_up
      /\ UNCHANGED <<pc, settings, step, sent, exit_code, ctrl_up>>
  BY DEF ReceiverHandles
<1>2. PICK q \in Seq(Command) : q = to_receiver /\ q # <<>>
  BY <1>1 DEF IInv, Channels
<1>3. PICK c : c = Head(q)
  OBVIOUS
<1>4. PICK n \in Nat : /\ Len(q) = n + 1 /\ DOMAIN q = 1..(n + 1) /\ c = q[1] /\ c \in Command
                       /\ DOMAIN Tail(q) = 1..n /\ \A i \in 1..n : Tail(q)[i] = q[i + 1]
  <2>1. PICK m \in Nat : m = Len(q) /\ m # 0 /\ DOMAIN q = 1..m
    BY <1>2, EmptySeq, LenProperties
  <2>2. /\ c = q[1] /\ c \in Command /\ Tail(q) \in Seq(Command) /\ Len(Tail(q)) = m - 1
        /\ \A i \in 1..(m - 1) : Tail(q)[i] = q[i + 1]
    BY <1>2, <1>3, <2>1, HeadTailProperties, ElementOfSeq
  <2>3. m - 1 \in Nat /\ (m - 1) + 1 = m /\ DOMAIN Tail(q) = 1..(m - 1)
    BY <2>1, <2>2, LenProperties
  <2> QED BY <2>1, <2>2, <2>3
<1>5. Valid(c)
  BY <1>2, <1>4 DEF IInv, Channels
<1>6. PICK r \in ReplyType : to_driver' = Append(to_driver, r) /\ r.cmd = c /\ Effect(c, r)
  BY <1>2, <1>3, <1>4, HandledEffect
<1>7. PICK p : p = to_receiver' /\ DOMAIN p = 1..n /\ \A i \in 1..n : p[i] = q[i + 1]
  BY <1>1, <1>2, <1>4
<1>8. ASSUME OnlyClears PROVE OnlyClears' /\ \A s \in 1..NStreams : Off(s) => Off(s)'
  <2>1. c.op = "clear" /\ c.id \in 1..NStreams
    BY <1>2, <1>4, <1>5, <1>8 DEF OnlyClears, Valid
  <2>2. streams \in [1..NStreams -> -1..Len(settings.streams)]
    BY DEF IInv, ReceiverType
  <2>3. streams'[c.id] = 0 /\ \A s \in 1..NStreams : streams[s] = 0 => streams'[s] = 0
    BY <1>6, <2>1, <2>2 DEF Effect, Answered, RefusedBy, Cleared, Started, Set
  <2>4. OnlyClears'
    <3> SUFFICES ASSUME NEW i \in 1..n PROVE p[i].op = "clear"
      BY <1>7 DEF OnlyClears
    <3>1. i + 1 \in DOMAIN q
      BY <1>4
    <3> QED BY <1>2, <1>7, <1>8, <3>1 DEF OnlyClears
  <2>5. ASSUME NEW s \in 1..NStreams, Off(s) PROVE Off(s)'
    <3>1. CASE streams[s] = 0
      BY <2>3, <3>1 DEF Off
    <3>2. CASE streams[s] # 0
      <4>1. PICK i \in 1..(n + 1) : q[i] = Cmd("clear", "stream", s)
        BY <1>2, <1>4, <2>5, <3>2 DEF Off
      <4>2. CASE i = 1
        <5>1. c.id = s
          BY <1>4, <4>1, <4>2, CmdFields
        <5> QED BY <2>3, <5>1 DEF Off
      <4>3. CASE i # 1
        <5>1. PICK j \in 1..n : j + 1 = i
          <6>1. i - 1 \in 1..n /\ (i - 1) + 1 = i
            BY <4>3
          <6> QED BY <6>1
        <5>2. p[j] = Cmd("clear", "stream", s)
          BY <1>7, <4>1, <5>1
        <5>3. \E k \in DOMAIN to_receiver' : to_receiver'[k] = Cmd("clear", "stream", s)
          BY <1>7, <5>2
        <5> QED BY <5>3 DEF Off, Cmd
      <4> QED BY <4>2, <4>3
    <3> QED BY <3>1, <3>2
  <2> QED BY <2>4, <2>5
<1>9. Passed' = Passed /\ NoSettings' = NoSettings
  BY <1>1 DEF Passed, NoSettings
<1> QED BY <1>1, <1>8, <1>9 DEF StopInv

\* Every step.
LEMMA NextStop == IInv /\ StopInv /\ [Next]_vars => StopInv'
<1> SUFFICES ASSUME IInv, StopInv, [Next]_vars PROVE StopInv'
  OBVIOUS
<1>1. CASE \/ LoadConfig \/ SetupLogging \/ Resolve \/ Connected \/ AddressFails \/ ReadData
           \/ SignalKills
  BY <1>1, StopUntouched
<1>2. CASE ParseArguments
  BY <1>2, StopAtHelp
<1>3. CASE LoopTest
  <2>1. CASE EndLoop
    BY <1>3, <2>1, StopBegins DEF LoopTest, channels
  <2>2. CASE ~EndLoop
    <3>1. pc' = "read" /\ exit_code' = -1
      BY <1>3, <2>2 DEF LoopTest, IInv, Places
    <3> QED BY <3>1, StopElsewhereNext
  <2> QED BY <2>1, <2>2
<1>4. CASE ReadZero \/ ReadError
  BY <1>4, StopBegins DEF ReadZero, ReadError, channels
<1>5. CASE SendCommand
  BY <1>5, StopSends
<1>6. CASE ReadReply
  <2>1. sent /\ UNCHANGED <<settings, to_receiver, ctrl_up, streams>>
    BY <1>6 DEF ReadReply, receiver
  <2>2. Advance \/ Exit(1)
    BY <1>6 DEF ReadReply
  <2> QED BY <2>1, <2>2, StopGoesOn
<1>7. CASE ReadFails \/ ReadInterrupted
  <2>1. sent /\ UNCHANGED <<settings, to_receiver, ctrl_up, streams>>
    BY <1>7 DEF ReadFails, ReadInterrupted, receiver, channels
  <2>2. Advance \/ Exit(1)
    BY <1>7 DEF ReadFails, ReadInterrupted, TcpFailure
  <2> QED BY <2>1, <2>2, StopGoesOn
<1>8. CASE StopDone
  BY <1>8, StopEnds
<1>9. CASE ReceiverHandles
  BY <1>9, StopHandled
<1>10. CASE Signal \/ DataCloses \/ UNCHANGED vars
  <2>1. UNCHANGED <<pc, settings, step, sent, exit_code, to_receiver, ctrl_up, streams>>
    BY <1>10 DEF Signal, DataCloses, vars, channels, receiver
  <2> QED BY <2>1, StopSame
<1>11. CASE CtrlCloses
  <2>1. ~ctrl_up'
    BY <1>11 DEF CtrlCloses
  <2> QED BY <2>1 DEF StopInv
<1> QED BY <1>1, <1>2, <1>3, <1>4, <1>5, <1>6, <1>7, <1>8, <1>9, <1>10, <1>11 DEF Next, Driver

\* A run that recorded and exits with 0 has sent the command to stop each stream,
\* whatever replies to the others were late, refusals or missing.
THEOREM Stopped == Spec => []StopsSent
<1>1. Init => StopInv
  BY StopElsewhere DEF Init
<1>2. StopInv => StopsSent
  BY DEF StopInv, StopsSent, OnlyClears, Off
<1> QED BY <1>1, <1>2, NextStop, Inductive, PTL DEF Spec

=============================================================================
