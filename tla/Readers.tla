------------------------------ MODULE Readers ------------------------------
(***************************************************************************)
(* How travelmoded reads what others write: a packet from the queue, a     *)
(* line of /proc/net/nf_conntrack, /etc/passwd, its own configuration and  *)
(* NetworkManager's connections.  Each reader is an operator, next to it   *)
(* what it is expected to return.  A step reads one input; the two loops   *)
(* that gather an answer take a step for every word, and for every         *)
(* connection, they look at.                                               *)
(***************************************************************************)
EXTENDS Integers, SequencesExt

CONSTANTS Ports16,     \* ports, as 16-bit numbers
          HeaderWords, \* IPv4 header lengths, in 32-bit words
          Bytes,       \* byte counters
          Nil,         \* Rust's None
          MaxLines     \* bound: lines of a file, connections, devices

Networks == {"home", "cafe"}
ASSUME ReadersAssumption ==
  /\ \A p \in Ports16 : p \in Nat /\ p < 65536
  /\ HeaderWords \subseteq 0..15 /\ Bytes \subseteq Nat /\ MaxLines \in Nat
  /\ Nil \notin Nat \cup Networks \cup {"yes", "no"}

VARIABLE reading       \* the reader, what it read and what it returned; within a
                       \* loop what it read, where it is and what it has got
readVars == <<reading>>
Reads(fn, in, out) == reading' = [fn |-> fn, in |-> in, out |-> out]
Loops(fn, in, at, got) == reading' = [fn |-> fn, in |-> in, at |-> at, got |-> got]
ReadInit == reading = [fn |-> "start", in |-> Nil, out |-> Nil]
Lines(S) == UNION {[1..n -> S] : n \in 0..MaxLines}

-----------------------------------------------------------------------------
(* A packet *)

Transports == {1, 6, 17}
Headers == [v : {4, 5, 6}, words : HeaderWords, proto : Transports, sport : Ports16, dport : Ports16]
PortsAt(h) == IF h.v = 6 THEN 40 ELSE 4 * h.words

\* The first cut bytes of the packet with this header, every byte that does not
\* matter 77.
Packet(h, cut) ==
  [n \in 1..cut |->
     LET at == n - 1
         l4 == at - PortsAt(h)
     IN IF at = 0 THEN 16 * h.v + (IF h.v = 4 THEN h.words ELSE 0)
        ELSE IF l4 \in 0..3 THEN <<h.sport \div 256, h.sport % 256, h.dport \div 256, h.dport % 256>>[l4 + 1]
        ELSE IF at = (IF h.v = 6 THEN 6 ELSE 9) THEN h.proto
        ELSE IF at \in (IF h.v = 6 THEN 24..39 ELSE 16..19) THEN at
        ELSE 77]

ByteAt(p, at) == IF at < Len(p) THEN p[at + 1] ELSE -1
Port16(p, at) == 256 * ByteAt(p, at) + ByteAt(p, at + 1)

\* Faulty variant of HeaderLength: IPv4 options are not reckoned with.
HeaderLength_NoOptions(p) == IF ByteAt(p, 0) \div 16 = 4 THEN 20 ELSE 40

HeaderLength(p) == IF ByteAt(p, 0) \div 16 = 4 THEN 4 * (ByteAt(p, 0) % 16) ELSE 40

ParsePacket(p) ==
  LET version == ByteAt(p, 0) \div 16
      l4      == HeaderLength(p)
      whole   == \/ version = 4 /\ l4 >= 20 /\ Len(p) >= l4 + 4
                 \/ version = 6 /\ Len(p) >= 44
      proto   == ByteAt(p, IF version = 4 THEN 9 ELSE 6)
      dst     == IF version = 4 THEN SubSeq(p, 17, 20) ELSE SubSeq(p, 25, 40)
  IN IF p # <<>> /\ whole /\ proto \in {6, 17}
     THEN <<proto, Port16(p, l4), dst, Port16(p, l4 + 2)>> ELSE Nil

ExpectPacket(h, cut) ==
  IF /\ h.proto # 1 /\ cut >= PortsAt(h) + 4
     /\ h.v = 6 \/ (h.v = 4 /\ h.words >= 5)
  THEN <<h.proto, h.sport, IF h.v = 4 THEN <<16, 17, 18, 19>> ELSE [n \in 1..16 |-> 23 + n], h.dport>>
  ELSE Nil

ReadPacket ==
  \E h \in Headers : \E cut \in 0..(PortsAt(h) + 5) :
    Reads("packet", <<h, cut>>, ParsePacket(Packet(h, cut)))

-----------------------------------------------------------------------------
(* A conntrack line: five words of header, a state for tcp, two tuples *)

Flows == [proto : {"tcp", "udp", "icmp"}, sport : Ports16, dport : Ports16,
          sent : Bytes, recv : Bytes, acct : BOOLEAN, replied : BOOLEAN, nat : BOOLEAN]

Word(w) == [k |-> "", v |-> w]
Pair(k, v) == [k |-> k, v |-> v]
Tuple(e, src, dst, sport, dport, bytes) ==
  << Pair("src", src), Pair("dst", dst),
     Pair(IF e.proto = "icmp" THEN "type" ELSE "sport", sport),
     Pair(IF e.proto = "icmp" THEN "code" ELSE "dport", dport),
     Pair("packets", 1), Pair("bytes", bytes) >>

\* Without accounting a tuple ends at its ports.
TupleLen(e) == IF e.acct THEN 6 ELSE 4
OrigAt(e)   == IF e.proto = "tcp" THEN 7 ELSE 6
ReplyAt(e)  == OrigAt(e) + TupleLen(e) + (IF e.replied THEN 0 ELSE 1)
EndAt(e)    == ReplyAt(e) + TupleLen(e) + 2
Received(e) == IF e.replied THEN e.recv ELSE 0

ConntrackLine(e) ==
  LET orig  == Tuple(e, "here", "there", e.sport, e.dport, e.sent)
      reply == Tuple(e, "there", IF e.nat THEN "router" ELSE "here", e.dport, e.sport, Received(e))
  IN [n \in 1..EndAt(e) |->
        CASE n = 3                                             -> Word(e.proto)
          [] n \in OrigAt(e)..(OrigAt(e) + TupleLen(e) - 1)   -> orig[n - OrigAt(e) + 1]
          [] n \in ReplyAt(e)..(ReplyAt(e) + TupleLen(e) - 1) -> reply[n - ReplyAt(e) + 1]
          [] n > EndAt(e) - 2                                  -> Pair("mark", 0)
          [] OTHER                                             -> Word("text")]

NoFields == [orig |-> [k \in {} |-> 0], reply |-> FALSE, sent |-> Nil, recv |-> Nil]
SetOnce(f, k, v) == [x \in DOMAIN f \cup {k} |-> IF x \in DOMAIN f THEN f[x] ELSE v]

\* A word without = is passed over.  The second src begins the reply; the first
\* value of a key counts.
Field(s, t) ==
  LET reply == s.reply \/ (t.k = "src" /\ "src" \in DOMAIN s.orig)
      bytes(n, mine) == IF mine /\ t.k = "bytes" /\ n = Nil THEN t.v ELSE n
  IN IF t.k = "" THEN s
     ELSE [reply |-> reply, sent |-> bytes(s.sent, ~reply), recv |-> bytes(s.recv, reply),
           orig  |-> IF reply \/ t.k = "bytes" THEN s.orig ELSE SetOnce(s.orig, t.k, t.v)]

ReadLine ==
  \E e \in Flows :
    LET line   == ConntrackLine(e)
        proto  == line[3].v
        stated == proto = "tcp" /\ Len(line) > 5 /\ line[6].k = ""
    IN IF Len(line) >= 5 /\ proto \in {"tcp", "udp"}
       THEN Loops("fields", e, IF stated THEN 7 ELSE 6, NoFields)
       ELSE Reads("line", e, Nil)

ParsedFlow(proto, s) ==
  LET bytes(n) == IF n = Nil THEN 0 ELSE n
  IN IF {"src", "dst", "sport", "dport"} \subseteq DOMAIN s.orig
     THEN [proto |-> proto, local |-> <<s.orig["src"], s.orig["sport"]>>,
           remote |-> <<s.orig["dst"], s.orig["dport"]>>,
           sent |-> bytes(s.sent), recv |-> bytes(s.recv)]
     ELSE Nil

NextField ==
  /\ reading.fn = "fields"
  /\ LET line == ConntrackLine(reading.in)
     IN IF reading.at <= Len(line)
        THEN Loops("fields", reading.in, reading.at + 1, Field(reading.got, line[reading.at]))
        ELSE Reads("line", reading.in, ParsedFlow(line[3].v, reading.got))

ExpectLine(e) ==
  IF e.proto = "icmp" THEN Nil
  ELSE [proto |-> e.proto, local |-> <<"here", e.sport>>, remote |-> <<"there", e.dport>>,
        sent |-> IF e.acct THEN e.sent ELSE 0,
        recv |-> IF e.acct THEN Received(e) ELSE 0]

-----------------------------------------------------------------------------
(* The user of a uid: lines of /etc/passwd *)

PasswdLine == [user : {"root", "me"}, uid : {0, 1}] \cup {[user |-> "+", uid |-> Nil]}

\* Only lines up to the first one without a number as third field are looked at.
FindUser(file, uid) ==
  LET stop == SelectInSeq(file, LAMBDA l : l.uid \in {uid, Nil})
  IN IF stop # 0 /\ file[stop].uid = uid THEN file[stop].user ELSE Nil

ExpectUser(file, uid) ==
  LET hits == {n \in DOMAIN file : /\ file[n].uid = uid
                                   /\ \A m \in 1..n : file[m].uid # Nil /\ (m < n => file[m].uid # uid)}
  IN IF hits = {} THEN Nil ELSE file[CHOOSE n \in hits : TRUE].user

ReadPasswd == \E file \in Lines(PasswdLine), uid \in {0, 1} :
                Reads("user", <<file, uid>>, FindUser(file, uid))

-----------------------------------------------------------------------------
(* The configuration: two of its keys stand for all of them *)

Defaults == [fail_open |-> "default", queue_num |-> "default"]
ConfigFile == [there : BOOLEAN, readable : BOOLEAN, toml : BOOLEAN,
               set : SUBSET {"fail_open", "queue_num", "unknown"}]

LoadConfig(f) ==
  IF f.there /\ f.readable /\ f.toml /\ "unknown" \notin f.set
  THEN [k \in DOMAIN Defaults |-> IF k \in f.set THEN "given" ELSE Defaults[k]]
  ELSE Defaults

ReadConfig == \E f \in ConfigFile : Reads("config", f, LoadConfig(f))

-----------------------------------------------------------------------------
(* NetworkManager: its active connections and their devices, in its order *)

\* A device is silent when a property of it cannot be read, or it is at no
\* access point.
Connection == [type : {"wifi", "other", "error"}, metered : {"yes", "no", "error"},
               devices : Lines(Networks \cup {"silent"})]

FirstNetwork(devices) ==
  LET n == SelectInSeq(devices, LAMBDA d : d \in Networks) IN IF n = 0 THEN Nil ELSE devices[n]

\* A connection whose type cannot be read is passed over.
AskConnection(s, c) ==
  IF c.type = "error" THEN s
  ELSE [ssid    |-> IF s.ssid = Nil /\ c.type = "wifi" THEN FirstNetwork(c.devices) ELSE s.ssid,
        metered |-> IF s.metered = Nil /\ c.metered # "error" THEN c.metered ELSE s.metered]

\* The first network of the first connection that has one.
ExpectManager(cs) ==
  LET readable == {n \in DOMAIN cs : cs[n].type # "error"}
      at(n)    == {d \in DOMAIN cs[n].devices : cs[n].devices[d] \in Networks}
      seen     == {n \in readable : cs[n].type = "wifi" /\ at(n) # {}}
      told     == {n \in readable : cs[n].metered # "error"}
  IN [ssid    |-> IF seen = {} THEN Nil ELSE cs[Min(seen)].devices[Min(at(Min(seen)))],
      metered |-> IF told = {} THEN Nil ELSE cs[Min(told)].metered]

NoAnswers == [ssid |-> Nil, metered |-> Nil]
ReadManager == \E cs \in Lines(Connection) : Loops("connections", cs, 1, NoAnswers)

NextConnection ==
  /\ reading.fn = "connections"
  /\ IF reading.at <= Len(reading.in)
     THEN Loops("connections", reading.in, reading.at + 1,
                AskConnection(reading.got, reading.in[reading.at]))
     ELSE Reads("manager", reading.in, reading.got)

\* When NetworkManager is not there, or goes away half-way, nothing is known.
ManagerFails == /\ reading.fn \in {"start", "connections"}
                /\ Reads("no manager", <<>>, NoAnswers)

-----------------------------------------------------------------------------
ReadNext ==
  \/ /\ reading.fn = "start"
     /\ ReadPacket \/ ReadLine \/ ReadPasswd \/ ReadConfig \/ ReadManager
  \/ NextField \/ NextConnection \/ ManagerFails
ReadSpec == ReadInit /\ [][ReadNext]_readVars

-----------------------------------------------------------------------------
(* Properties *)

\* What is read is what was written, for every truncation of a packet, with and
\* without options, accounting, replies and NAT; what cannot be read is refused,
\* never taken for something else; a configuration counts as a whole or not at
\* all, and an answer that fails does not hide the others (firewall.rs:290-340,
\* conntrack.rs:133-209, procs.rs:123-134, config.rs:79-112, netinfo.rs:226-282).
ReadersAreExact ==
  CASE reading.fn = "packet"  -> reading.out = ExpectPacket(reading.in[1], reading.in[2])
    [] reading.fn = "line"    -> reading.out = ExpectLine(reading.in)
    [] reading.fn = "user"    -> reading.out = ExpectUser(reading.in[1], reading.in[2])
    [] reading.fn = "config"  -> \/ \A k \in DOMAIN Defaults : (reading.out[k] = "given") = (k \in reading.in.set)
                                 \/ reading.out = Defaults
    [] reading.fn = "manager" -> reading.out = ExpectManager(reading.in)
    [] OTHER                  -> TRUE
=============================================================================
