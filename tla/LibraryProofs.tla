---------------------------- MODULE LibraryProofs ----------------------------
(***************************************************************************)
(* What holds of a handle of the library for any sizes, forwards, hosts    *)
(* and requests, any number of sets and of faults: its status, the copies  *)
(* of every setting, the running guest, what the handle remembers, what    *)
(* its owner asked for, and what a setter that fails puts back.            *)
(***************************************************************************)
EXTENDS Library, SequenceTheorems, TLAPS

-------------------------------------------------------------------------------
(* Lists of writes.  What a list makes of the files can be told from the   *)
(* last write to each of them.                                             *)

Entry == [file : {"mem"}, to : MemValues] \cup [file : {"cores"}, to : CoreValues]
         \cup [file : {"net"}, to : NetNames] \cup [file : {"port"}, to : PortValues]
         \cup [file : {"conf", "args"}, to : Confs]
         \cup [file : {"sync"}, to : {Absent}]

Plain == {"mem", "cores", "net", "port"}
Remakes == {"sync", "args"}

Free(s, f) == \A i \in 1 .. Len(s) : s[i].file # f
Last(s, f, v) ==
  \E i \in 1 .. Len(s) : /\ s[i].file = f /\ s[i].to = v
                         /\ \A j \in 1 .. Len(s) : j > i => s[j].file # f
Lands(s, d, f, v) == (Free(s, f) /\ d[f] = v) \/ Last(s, f, v)

LEMMA FreeEmpty == \A f : Free(<<>>, f)
  BY DEF Free

LEMMA OneWrite ==
  ASSUME NEW f, NEW v
  PROVE  /\ Last(Write(f, v), f, v)
         /\ \A e : e # f => Free(Write(f, v), e)
         /\ Len(Write(f, v)) = 1 /\ Write(f, v)[1] = [file |-> f, to |-> v]
  BY DEF Last, Free, Write

LEMMA FreeBoth ==
  ASSUME NEW s \in Seq(Entry), NEW t \in Seq(Entry), NEW f,
         Free(s, f), Free(t, f)
  PROVE  Free(s \o t, f)
  BY DEF Free

LEMMA LastLeft ==
  ASSUME NEW s \in Seq(Entry), NEW t \in Seq(Entry), NEW f, NEW v,
         Last(s, f, v), Free(t, f)
  PROVE  Last(s \o t, f, v)
  BY DEF Free, Last

LEMMA LastRight ==
  ASSUME NEW s \in Seq(Entry), NEW t \in Seq(Entry), NEW f, NEW v,
         Last(t, f, v)
  PROVE  Last(s \o t, f, v)
  <1>1. PICK i \in 1 .. Len(t) : /\ t[i].file = f /\ t[i].to = v
                                 /\ \A j \in 1 .. Len(t) : j > i => t[j].file # f
    BY DEF Last
  <1>2. Len(s) + i \in 1 .. Len(s \o t) /\ (s \o t)[Len(s) + i] = t[i]
    OBVIOUS
  <1>3. \A j \in 1 .. Len(s \o t) :
          j > Len(s) + i => j - Len(s) \in 1 .. Len(t) /\ j - Len(s) > i
                            /\ (s \o t)[j] = t[j - Len(s)]
    OBVIOUS
  <1> QED BY <1>1, <1>2, <1>3 DEF Last

\* The first write of a list, and the others.
LEMMA FirstWrite ==
  ASSUME NEW s \in Seq(Entry), s # <<>>
  PROVE  /\ Head(s) = s[1] /\ Head(s) \in Entry /\ Tail(s) \in Seq(Entry)
         /\ Len(s) \in Nat \ {0} /\ Len(Tail(s)) = Len(s) - 1
         /\ \A i \in 1 .. Len(s) - 1 : Tail(s)[i] = s[i + 1]
  <1>1. Head(s) \in Entry /\ Tail(s) \in Seq(Entry) /\ Len(Tail(s)) = Len(s) - 1
    BY HeadTailProperties
  <1>2. Head(s) = s[1] /\ Len(s) \in Nat \ {0}
    BY EmptySeq
  <1>3. \A i \in 1 .. Len(s) - 1 : Tail(s)[i] = s[i + 1]
    BY <1>1, HeadTailProperties
  <1> QED BY <1>1, <1>2, <1>3

LEMMA FreeRest ==
  ASSUME NEW s \in Seq(Entry), s # <<>>, NEW f, Free(s, f)
  PROVE  Free(Tail(s), f) /\ Head(s).file # f
  BY FirstWrite DEF Free

LEMMA LastRest ==
  ASSUME NEW s \in Seq(Entry), s # <<>>, NEW f, NEW v, Last(s, f, v)
  PROVE  \/ Last(Tail(s), f, v)
         \/ Free(Tail(s), f) /\ Head(s).file = f /\ Head(s).to = v
  <1>1. PICK i \in 1 .. Len(s) : /\ s[i].file = f /\ s[i].to = v
                                 /\ \A j \in 1 .. Len(s) : j > i => s[j].file # f
    BY DEF Last
  <1>2. CASE i = 1
    BY <1>1, <1>2, FirstWrite DEF Free
  <1>3. CASE i # 1
    <2>1. i - 1 \in 1 .. Len(Tail(s)) /\ Tail(s)[i - 1] = s[i]
      BY <1>3, FirstWrite
    <2>2. \A j \in 1 .. Len(Tail(s)) : j > i - 1 =>
            j + 1 \in 1 .. Len(s) /\ j + 1 > i /\ Tail(s)[j] = s[j + 1]
      BY FirstWrite
    <2> QED BY <1>1, <2>1, <2>2 DEF Last
  <1> QED BY <1>2, <1>3

\* The disk g that a list of writes makes of d.  The last of the list may
\* make the args again.
Reaches(s, d, g) ==
  /\ \A f \in Plain : Lands(s, d, f, g[f])
  /\ \/ Free(s, "sync") /\ Free(s, "args") /\ Lands(s, d, "conf", g.conf)
     \/ \E k \in Confs :
          /\ Lands(s, d, "conf", k)
          /\ g.conf = [k EXCEPT !.args = [mem |-> k.mem, port |-> g.port]]
          /\ s # <<>>
          /\ \A i \in 1 .. Len(s) : s[i].file \in Remakes <=> i = Len(s)
          /\ s[Len(s)].file = "sync" => k.mem = g.mem /\ k.cores \in {Absent, g.cores}
          /\ s[Len(s)].file = "args" => s[Len(s)].to = k

LEMMA DisksEqual ==
  ASSUME NEW d \in Disks, NEW e \in Disks,
         d.mem = e.mem, d.cores = e.cores, d.net = e.net, d.port = e.port,
         d.conf = e.conf
  PROVE  d = e
  BY DEF Disks

LEMMA NothingLeft ==
  ASSUME NEW d \in Disks, NEW g \in Disks, Reaches(<<>>, d, g)
  PROVE  d = g
  <1>1. \A f, v : ~Last(<<>>, f, v)
    BY DEF Last
  <1>2. d.mem = g.mem /\ d.cores = g.cores /\ d.net = g.net /\ d.port = g.port
    BY <1>1 DEF Reaches, Lands, Plain
  <1>3. d.conf = g.conf
    BY <1>1 DEF Reaches, Lands
  <1> QED BY <1>2, <1>3, DisksEqual

LEMMA EntryFields ==
  ASSUME NEW e \in Entry
  PROVE  /\ e.file \in Plain \cup Remakes \cup {"conf"}
         /\ e.file = "mem" => e.to \in MemValues
         /\ e.file = "cores" => e.to \in CoreValues
         /\ e.file = "net" => e.to \in NetNames
         /\ e.file = "port" => e.to \in PortValues
         /\ e.file \in {"conf", "args"} => e.to \in Confs
  BY DEF Entry, Plain, Remakes

LEMMA ConfTyped ==
  ASSUME NEW k \in Confs, NEW p \in PortValues
  PROVE  [k EXCEPT !.args = [mem |-> k.mem, port |-> p]] \in Confs
  BY DEF Confs

LEMMA DoneTyped ==
  ASSUME NEW d \in Disks, NEW e \in Entry
  PROVE  Done(d, e) \in Disks
  <1>0. d.conf \in Confs /\ d.conf.mem \in MemValues /\ d.port \in PortValues
        /\ d.conf.cores \in CoreValues
    BY DEF Disks, Confs
  <1>1. CASE e.file = "sync"
    <2>1. Args(d, d.conf) \in Confs
      BY <1>0, ConfTyped DEF Args
    <2> QED BY <1>0, <1>1, <2>1 DEF Done, Disks
  <1>2. CASE e.file = "args"
    <2>1. Args(d, e.to) \in Confs
      BY <1>0, <1>2, EntryFields, ConfTyped DEF Args
    <2> QED BY <1>2, <2>1 DEF Done, Disks
  <1>3. CASE e.file \notin Remakes
    BY <1>3, EntryFields DEF Done, Disks, Plain, Remakes
  <1> QED BY <1>1, <1>2, <1>3 DEF Remakes

LEMMA LandsRest ==
  ASSUME NEW s \in Seq(Entry), s # <<>>, NEW d \in Disks,
         NEW f \in Plain \cup {"conf"}, NEW v,
         Head(s).file \notin Remakes, Lands(s, d, f, v)
  PROVE  Lands(Tail(s), Done(d, Head(s)), f, v)
  <1> DEFINE e == Head(s)
  <1>1. e \in Entry /\ e.file \in Plain \cup {"conf"}
    BY FirstWrite, EntryFields
  <1>2. Done(d, e) = [d EXCEPT ![e.file] = e.to]
    BY DEF Done, Remakes
  <1>3. DOMAIN d = Plain \cup {"conf"}
    BY DEF Disks, Plain
  <1>4. CASE Free(s, f) /\ d[f] = v
    <2>1. Free(Tail(s), f) /\ e.file # f
      BY <1>4, FreeRest
    <2> QED BY <1>1, <1>2, <1>3, <1>4, <2>1 DEF Lands
  <1>5. CASE Last(s, f, v)
    <2>1. CASE Last(Tail(s), f, v)
      BY <2>1 DEF Lands
    <2>2. CASE Free(Tail(s), f) /\ e.file = f /\ e.to = v
      BY <1>1, <1>2, <1>3, <2>2 DEF Lands
    <2> QED BY <1>5, <2>1, <2>2, LastRest
  <1> QED BY <1>4, <1>5 DEF Lands

\* A write leaves the disk where the list leads.
LEMMA StillReaches ==
  ASSUME NEW s \in Seq(Entry), s # <<>>, NEW d \in Disks, NEW g \in Disks,
         Reaches(s, d, g)
  PROVE  Reaches(Tail(s), Done(d, Head(s)), g)
  <1> DEFINE e == Head(s)
             t == Tail(s)
             n == Len(s)
  <1>1. /\ e = s[1] /\ e \in Entry /\ t \in Seq(Entry) /\ n \in Nat \ {0}
        /\ Len(t) = n - 1 /\ \A i \in 1 .. n - 1 : t[i] = s[i + 1]
    BY FirstWrite
  <1>2. CASE Free(s, "sync") /\ Free(s, "args") /\ Lands(s, d, "conf", g.conf)
    <2>1. e.file \notin Remakes
      BY <1>2, FreeRest DEF Remakes
    <2>2. \A f \in Plain : Lands(t, Done(d, e), f, g[f])
      BY <2>1, LandsRest DEF Reaches
    <2>3. Lands(t, Done(d, e), "conf", g.conf)
      BY <1>2, <2>1, LandsRest
    <2> QED BY <1>2, <2>2, <2>3, FreeRest DEF Reaches
  <1>3. ASSUME NEW k \in Confs, Lands(s, d, "conf", k),
               g.conf = [k EXCEPT !.args = [mem |-> k.mem, port |-> g.port]],
               \A i \in 1 .. n : s[i].file \in Remakes <=> i = n,
               s[n].file = "sync" => k.mem = g.mem /\ k.cores \in {Absent, g.cores},
               s[n].file = "args" => s[n].to = k
        PROVE  Reaches(t, Done(d, e), g)
    <2>1. CASE n > 1
      <3>1. e.file \notin Remakes
        BY <1>1, <1>3, <2>1
      <3>2. \A f \in Plain : Lands(t, Done(d, e), f, g[f])
        BY <3>1, LandsRest DEF Reaches
      <3>3. Lands(t, Done(d, e), "conf", k)
        BY <1>3, <3>1, LandsRest
      <3>4. t # <<>> /\ t[Len(t)] = s[n]
        <4>1. Len(t) # 0 /\ Len(t) \in 1 .. n - 1 /\ Len(t) + 1 = n
          BY <1>1, <2>1
        <4> HIDE DEF t, n
        <4> QED BY <1>1, <4>1, EmptySeq
      <3>5. \A i \in 1 .. Len(t) : t[i].file \in Remakes <=> i = Len(t)
        <4> TAKE i \in 1 .. Len(t)
        <4>1. i + 1 \in 1 .. n /\ t[i] = s[i + 1] /\ (i = Len(t) <=> i + 1 = n)
          BY <1>1
        <4> QED BY <1>3, <4>1
      <3> QED BY <1>3, <3>2, <3>3, <3>4, <3>5 DEF Reaches
    <2>2. CASE n = 1
      <3>0. t = <<>>
        <4> HIDE DEF t, n
        <4> QED BY <1>1, <2>2, EmptySeq
      <3>1. e.file \in Remakes /\ t = <<>>
        BY <1>1, <1>3, <2>2, <3>0
      <3>2. \A f \in Plain \cup {"conf"} : \A v : ~Last(s, f, v)
        BY <1>1, <2>2, <3>1 DEF Last, Plain, Remakes
      <3>3. (\A f \in Plain : d[f] = g[f]) /\ d.conf = k
        BY <1>3, <3>2 DEF Reaches, Lands
      <3>4. d.mem = g.mem /\ d.cores = g.cores /\ d.net = g.net /\ d.port = g.port
        BY <3>3 DEF Plain
      <3>5. Args(d, k) = g.conf
        BY <1>3, <3>4 DEF Args
      <3>6. Done(d, e) = g
        <4>1. CASE e.file = "sync"
          <5>1. /\ Done(d, e).mem = k.mem /\ Done(d, e).conf = Args(d, k)
                /\ Done(d, e).cores = IF k.cores = Absent THEN d.cores ELSE k.cores
                /\ Done(d, e).net = d.net /\ Done(d, e).port = d.port
            BY <3>3, <4>1 DEF Done, Disks
          <5>2. k.mem = g.mem /\ k.cores \in {Absent, g.cores}
            BY <1>1, <1>3, <2>2, <4>1
          <5> QED BY <1>1, <3>4, <3>5, <5>1, <5>2, DoneTyped, DisksEqual
        <4>2. CASE e.file = "args"
          <5>1. e.to = k
            BY <1>1, <1>3, <2>2, <4>2
          <5>2. /\ Done(d, e).mem = d.mem /\ Done(d, e).conf = Args(d, e.to)
                /\ Done(d, e).cores = d.cores
                /\ Done(d, e).net = d.net /\ Done(d, e).port = d.port
            BY <4>2 DEF Done, Disks
          <5> QED BY <1>1, <3>4, <3>5, <5>1, <5>2, DoneTyped, DisksEqual
        <4> QED BY <3>1, <4>1, <4>2 DEF Remakes
      <3>7. Reaches(<<>>, g, g)
        BY FreeEmpty DEF Reaches, Lands
      <3> QED BY <3>1, <3>6, <3>7
    <2> QED BY <1>1, <2>1, <2>2
  <1> QED BY <1>2, <1>3 DEF Reaches

LEMMA WholeReaches ==
  ASSUME NEW d PROVE Reaches(<<>>, d, d)
  BY FreeEmpty DEF Reaches, Lands

-------------------------------------------------------------------------------
(* What set writes, and where it leads. *)

Request == [mem : Mems \cup {0, Keep}, cores : Cores \cup {0, HostCpus, Keep},
            net : NetNames \cup {Keep}, port : PortValues \cup {Keep}]

PortAfter(m, d, r) ==
  IF GivesNet(r) /\ IsVm(m) /\ NewNet(d, r) # "usermode" THEN Absent
  ELSE Either(r.port, d.port)
ConfAfter(m, d, r) ==
  IF m = "vm" THEN d.conf
  ELSE IF m = "pve-vm" /\ (r.mem # Keep \/ GivesNet(r))
  THEN [Content(d, r) EXCEPT !.args = [mem |-> Content(d, r).mem,
                                       port |-> PortAfter(m, d, r)]]
  ELSE Content(d, r)
After(m, d, r) ==
  [mem |-> Either(r.mem, d.mem), cores |-> Either(r.cores, d.cores),
   net |-> NewNet(d, r), port |-> PortAfter(m, d, r), conf |-> ConfAfter(m, d, r)]

\* The two marks are no values.
LEMMA KeepApart ==
  /\ Keep \notin MemValues /\ Keep \notin CoreValues /\ Keep \notin NetNames
  /\ Keep \notin PortValues /\ Keep # Absent /\ Keep # 0 /\ Keep \notin Nat
  /\ Absent \notin NetNames /\ Absent \notin Nat /\ Absent # 0
  <1>1. Keep \in {Absent, Keep} /\ Absent \in {Absent, Keep}
    OBVIOUS
  <1>2. /\ Keep \notin Nat /\ Keep \notin NetNames /\ Keep # Absent
        /\ Absent \notin Nat /\ Absent \notin NetNames
    BY <1>1, SettingsAssumption
  <1>3. Keep \notin Ports /\ Mems \subseteq Nat /\ Cores \subseteq Nat
        /\ HostCpus \in Nat /\ 0 \in Nat
    BY SettingsAssumption
  <1> QED BY <1>2, <1>3 DEF MemValues, CoreValues, PortValues

LEMMA DiskFields ==
  ASSUME NEW d \in Disks
  PROVE  /\ d.mem \in MemValues /\ d.cores \in CoreValues /\ d.net \in NetNames
         /\ d.port \in PortValues /\ d.conf \in Confs
         /\ d.conf.mem \in MemValues /\ d.conf.cores \in CoreValues
         /\ d.conf.net \in NetNames \cup {Absent}
         /\ d.conf.args.mem \in MemValues /\ d.conf.args.port \in PortValues
  BY DEF Disks, Confs

LEMMA RequestFields ==
  ASSUME NEW r \in Request
  PROVE  /\ r.mem # Keep => r.mem \in MemValues
         /\ r.cores # Keep => r.cores \in CoreValues
         /\ r.net # Keep => r.net \in NetNames
         /\ r.port # Keep => r.port \in PortValues
  BY DEF Request, MemValues, CoreValues

LEMMA ContentIs ==
  ASSUME NEW d \in Disks, NEW r \in Request
  PROVE  /\ Content(d, r) \in Confs
         /\ Content(d, r).mem = Either(r.mem, d.conf.mem)
         /\ Content(d, r).cores = Either(r.cores, d.conf.cores)
         /\ Content(d, r).net = IF GivesNet(r) THEN ConfNet(NewNet(d, r)) ELSE d.conf.net
         /\ Content(d, r).args = d.conf.args
  <1>1. NewNet(d, r) \in NetNames /\ ConfNet(NewNet(d, r)) \in NetNames
    BY DiskFields, RequestFields DEF NewNet, KeepsNet, ConfNet, NetNames
  <1>2. Either(r.mem, d.conf.mem) \in MemValues
        /\ Either(r.cores, d.conf.cores) \in CoreValues
    BY DiskFields, RequestFields DEF Either
  <1> HIDE DEF Either, NewNet, ConfNet
  <1>3. d.conf \in Confs
    BY DiskFields
  <1> QED BY <1>1, <1>2, <1>3 DEF Content, Confs

LEMMA AfterTyped ==
  ASSUME NEW m \in Modes, NEW d \in Disks, NEW r \in Request
  PROVE  After(m, d, r) \in Disks
  <1>1. PortAfter(m, d, r) \in PortValues
    BY DiskFields, RequestFields DEF PortAfter, Either, PortValues
  <1>2. ConfAfter(m, d, r) \in Confs
    BY <1>1, ContentIs, DiskFields, ConfTyped DEF ConfAfter
  <1>3. NewNet(d, r) \in NetNames /\ Either(r.mem, d.mem) \in MemValues
        /\ Either(r.cores, d.cores) \in CoreValues
    BY DiskFields, RequestFields DEF NewNet, KeepsNet, Either
  <1> QED BY <1>1, <1>2, <1>3 DEF After, Disks

LEMMA LandsLeft ==
  ASSUME NEW s \in Seq(Entry), NEW t \in Seq(Entry), NEW d, NEW f, NEW v,
         Lands(s, d, f, v), Free(t, f)
  PROVE  Lands(s \o t, d, f, v)
  BY FreeBoth, LastLeft DEF Lands

LEMMA LandsRight ==
  ASSUME NEW s \in Seq(Entry), NEW t \in Seq(Entry), NEW d, NEW f, NEW v,
         Free(s, f), Lands(t, d, f, v)
  PROVE  Lands(s \o t, d, f, v)
  BY FreeBoth, LastRight DEF Lands

LEMMA WriteTyped ==
  /\ <<>> \in Seq(Entry)
  /\ \A v \in MemValues : Write("mem", v) \in Seq(Entry)
  /\ \A v \in CoreValues : Write("cores", v) \in Seq(Entry)
  /\ \A v \in NetNames : Write("net", v) \in Seq(Entry)
  /\ \A v \in PortValues : Write("port", v) \in Seq(Entry)
  /\ \A v \in Confs : Write("conf", v) \in Seq(Entry) /\ Write("args", v) \in Seq(Entry)
  /\ Write("sync", Absent) \in Seq(Entry)
  BY DEF Write, Entry

LEMMA GivenWrite ==
  ASSUME NEW f, NEW x, NEW d, Write(f, x) \in Seq(Entry) \/ x = Keep
  PROVE  /\ Given(x, Write(f, x)) \in Seq(Entry)
         /\ Lands(Given(x, Write(f, x)), d, f, Either(x, d[f]))
         /\ \A e : e # f => Free(Given(x, Write(f, x)), e)
  BY OneWrite, FreeEmpty, WriteTyped DEF Given, Either, Lands

LEMMA SizeWritesDo ==
  ASSUME NEW d \in Disks, NEW r \in Request
  PROVE  /\ SizeWrites(r) \in Seq(Entry)
         /\ Lands(SizeWrites(r), d, "mem", Either(r.mem, d.mem))
         /\ Lands(SizeWrites(r), d, "cores", Either(r.cores, d.cores))
         /\ \A f \in {"net", "port", "conf", "sync", "args"} : Free(SizeWrites(r), f)
  <1> DEFINE s == Given(r.mem, Write("mem", r.mem))
             t == Given(r.cores, Write("cores", r.cores))
  <1>1. /\ s \in Seq(Entry) /\ Lands(s, d, "mem", Either(r.mem, d["mem"]))
        /\ \A e : e # "mem" => Free(s, e)
    BY RequestFields, WriteTyped, GivenWrite
  <1>2. /\ t \in Seq(Entry) /\ Lands(t, d, "cores", Either(r.cores, d["cores"]))
        /\ \A e : e # "cores" => Free(t, e)
    BY RequestFields, WriteTyped, GivenWrite
  <1>3. SizeWrites(r) = s \o t
    BY DEF SizeWrites
  <1> HIDE DEF s, t
  <1>4. Lands(s \o t, d, "mem", Either(r.mem, d.mem))
    BY <1>1, <1>2, LandsLeft
  <1>5. Lands(s \o t, d, "cores", Either(r.cores, d.cores))
    BY <1>1, <1>2, LandsRight
  <1>6. \A f \in {"net", "port", "conf", "sync", "args"} : Free(s \o t, f)
    BY <1>1, <1>2, FreeBoth
  <1>7. s \o t \in Seq(Entry)
    BY <1>1, <1>2, ConcatProperties
  <1> QED BY <1>3, <1>4, <1>5, <1>6, <1>7

LEMMA NetWritesDo ==
  ASSUME NEW m \in Modes, NEW d \in Disks, NEW r \in Request
  PROVE  /\ NetWrites(m, d, r) \in Seq(Entry)
         /\ Lands(NetWrites(m, d, r), d, "net", NewNet(d, r))
         /\ Lands(NetWrites(m, d, r), d, "port", PortAfter(m, d, r))
         /\ \A f \in {"mem", "cores", "conf", "sync", "args"} :
              Free(NetWrites(m, d, r), f)
  <1> DEFINE s == Given(r.port, Write("port", r.port))
             clear == IsVm(m) /\ NewNet(d, r) # "usermode"
             t == IF clear THEN Write("port", Absent) ELSE <<>>
             u == Write("net", NewNet(d, r))
  <1>1. CASE ~GivesNet(r)
    <2>1. NetWrites(m, d, r) = <<>> /\ NewNet(d, r) = d.net
          /\ PortAfter(m, d, r) = d.port
      BY <1>1 DEF NetWrites, NewNet, KeepsNet, PortAfter, Either, GivesNet
    <2> QED BY <2>1, FreeEmpty, WriteTyped DEF Lands
  <1>2. CASE GivesNet(r)
    <2>1. /\ s \in Seq(Entry) /\ Lands(s, d, "port", Either(r.port, d["port"]))
          /\ \A e : e # "port" => Free(s, e)
      BY RequestFields, WriteTyped, GivenWrite
    <2>2. /\ t \in Seq(Entry) /\ (\A e : e # "port" => Free(t, e))
          /\ (clear => Last(t, "port", Absent)) /\ (~clear => Free(t, "port"))
      <3>1. Absent \in PortValues
        BY DEF PortValues
      <3> QED BY <3>1, OneWrite, FreeEmpty, WriteTyped
    <2>3. /\ u \in Seq(Entry) /\ (\A e : e # "net" => Free(u, e))
          /\ Last(u, "net", NewNet(d, r))
      <3>1. NewNet(d, r) \in NetNames
        BY DiskFields, RequestFields DEF NewNet, KeepsNet
      <3> QED BY <3>1, OneWrite, WriteTyped
    <2>4. NetWrites(m, d, r) = s \o t \o u
      BY <1>2 DEF NetWrites
    <2>5. PortAfter(m, d, r) = IF clear THEN Absent ELSE Either(r.port, d.port)
      BY <1>2 DEF PortAfter
    <2> HIDE DEF s, t, u, clear
    <2>6. s \o t \in Seq(Entry) /\ s \o t \o u \in Seq(Entry)
      BY <2>1, <2>2, <2>3, ConcatProperties
    <2>7. Lands(s \o t, d, "port", PortAfter(m, d, r))
      <3>1. CASE clear
        BY <2>1, <2>2, <2>5, <3>1, LastRight DEF Lands
      <3>2. CASE ~clear
        BY <2>1, <2>2, <2>5, <3>2, LandsLeft
      <3> QED BY <3>1, <3>2
    <2>8. Lands(s \o t \o u, d, "port", PortAfter(m, d, r))
      <3>1. Free(u, "port")
        BY <2>3
      <3> QED BY <2>3, <2>6, <2>7, <3>1, LandsLeft
    <2>9. Lands(s \o t \o u, d, "net", NewNet(d, r))
      BY <2>3, <2>6, LastRight DEF Lands
    <2>10. \A f \in {"mem", "cores", "conf", "sync", "args"} : Free(s \o t \o u, f)
      BY <2>1, <2>2, <2>3, <2>6, FreeBoth
    <2> QED BY <2>4, <2>6, <2>8, <2>9, <2>10
  <1> QED BY <1>1, <1>2

\* The files and then the interface, or in the other order.
LEMMA FileWrites ==
  ASSUME NEW m \in Modes, NEW d \in Disks, NEW r \in Request,
         NEW s, s \in {SizeWrites(r) \o NetWrites(m, d, r),
                       NetWrites(m, d, r) \o SizeWrites(r)}
  PROVE  /\ s \in Seq(Entry)
         /\ \A f \in Plain : Lands(s, d, f, After(m, d, r)[f])
         /\ \A f \in {"conf", "sync", "args"} : Free(s, f)
  <1> DEFINE z == SizeWrites(r)
             n == NetWrites(m, d, r)
  <1>1. /\ z \in Seq(Entry)
        /\ Lands(z, d, "mem", Either(r.mem, d.mem))
        /\ Lands(z, d, "cores", Either(r.cores, d.cores))
        /\ \A f \in {"net", "port", "conf", "sync", "args"} : Free(z, f)
    BY SizeWritesDo
  <1>2. /\ n \in Seq(Entry)
        /\ Lands(n, d, "net", NewNet(d, r))
        /\ Lands(n, d, "port", PortAfter(m, d, r))
        /\ \A f \in {"mem", "cores", "conf", "sync", "args"} : Free(n, f)
    BY NetWritesDo
  <1>3. s = z \o n \/ s = n \o z
    OBVIOUS
  <1> HIDE DEF z, n
  <1>4. s \in Seq(Entry)
    BY <1>1, <1>2, <1>3, ConcatProperties
  <1>5. /\ Lands(s, d, "mem", Either(r.mem, d.mem))
        /\ Lands(s, d, "cores", Either(r.cores, d.cores))
    BY <1>1, <1>2, <1>3, LandsLeft, LandsRight
  <1>6. /\ Lands(s, d, "net", NewNet(d, r))
        /\ Lands(s, d, "port", PortAfter(m, d, r))
    BY <1>1, <1>2, <1>3, LandsLeft, LandsRight
  <1>7. \A f \in {"conf", "sync", "args"} : Free(s, f)
    BY <1>1, <1>2, <1>3, FreeBoth
  <1> QED BY <1>4, <1>5, <1>6, <1>7 DEF After, Plain

LEMMA WritesReach ==
  ASSUME NEW m \in Modes, NEW d \in Disks, NEW r \in Request,
         m = "pve-vm" /\ r.mem # Keep /\ r.cores = Keep =>
           d.conf.cores \in {Absent, d.cores}
  PROVE  /\ Writes(m, d, r) \in Seq(Entry)
         /\ Reaches(Writes(m, d, r), d, After(m, d, r))
  <1> DEFINE g == After(m, d, r)
             k == Content(d, r)
             c == Write("conf", k)
             a == ArgsWrites(d, r)
  <1>1. k \in Confs /\ c \in Seq(Entry) /\ Last(c, "conf", k)
        /\ \A e : e # "conf" => Free(c, e)
    BY ContentIs, WriteTyped, OneWrite
  <1>2. g.conf = ConfAfter(m, d, r) /\ g.port = PortAfter(m, d, r)
        /\ g.mem = Either(r.mem, d.mem) /\ g.cores = Either(r.cores, d.cores)
    BY DEF After
  <1>3. CASE m = "vm"
    <2> DEFINE s == SizeWrites(r) \o NetWrites(m, d, r)
    <2>1. Writes(m, d, r) = s
      BY <1>3 DEF Writes
    <2>2. g.conf = d.conf
      BY <1>2, <1>3 DEF ConfAfter
    <2> QED BY <2>1, <2>2, FileWrites DEF Reaches, Lands
  <1>4. CASE m \in {"lxc", "pve"}
    <2> DEFINE s == SizeWrites(r) \o NetWrites(m, d, r)
    <2>1. Writes(m, d, r) = s \o c
      BY <1>4 DEF Writes
    <2>2. g.conf = k
      BY <1>2, <1>4 DEF ConfAfter
    <2>3. /\ s \in Seq(Entry)
          /\ \A f \in Plain : Lands(s, d, f, g[f])
          /\ \A f \in {"conf", "sync", "args"} : Free(s, f)
      BY FileWrites
    <2> HIDE DEF s, c, g, k
    <2>4. \A f \in Plain : Lands(s \o c, d, f, g[f])
      BY <1>1, <2>3, LandsLeft DEF Plain
    <2>5. Free(s \o c, "sync") /\ Free(s \o c, "args")
      BY <1>1, <2>3, FreeBoth
    <2>6. Lands(s \o c, d, "conf", g.conf)
      BY <1>1, <2>2, <2>3, LastRight DEF Lands
    <2>7. s \o c \in Seq(Entry)
      BY <1>1, <2>3, ConcatProperties
    <2> QED BY <2>1, <2>4, <2>5, <2>6, <2>7 DEF Reaches, g
  <1>5. CASE m = "pve-vm"
    <2> DEFINE s == NetWrites(m, d, r) \o SizeWrites(r)
    <2>1. Writes(m, d, r) = s \o c \o a
      BY <1>5 DEF Writes
    <2>2. g.conf = IF r.mem # Keep \/ GivesNet(r)
                   THEN [k EXCEPT !.args = [mem |-> k.mem, port |-> g.port]] ELSE k
      BY <1>2, <1>5 DEF ConfAfter
    <2>3. /\ s \in Seq(Entry)
          /\ \A f \in Plain : Lands(s, d, f, g[f])
          /\ \A f \in {"conf", "sync", "args"} : Free(s, f)
      BY FileWrites
    <2>4. k.mem = Either(r.mem, d.conf.mem) /\ k.cores = Either(r.cores, d.conf.cores)
      BY ContentIs
    <2>5. \/ r.mem # Keep /\ a = Write("sync", Absent)
          \/ r.mem = Keep /\ GivesNet(r) /\ a = Write("args", k)
          \/ r.mem = Keep /\ ~GivesNet(r) /\ a = <<>>
      BY DEF ArgsWrites
    <2>6. r.mem # Keep => k.mem = g.mem /\ k.cores \in {Absent, g.cores}
      BY <1>2, <1>5, <2>4 DEF Either
    <2> HIDE DEF s, c, g, k, a
    <2> DEFINE t == s \o c
    <2>7. t \in Seq(Entry)
      BY <1>1, <2>3, ConcatProperties
    <2>8. \A f \in Plain : Lands(t, d, f, g[f])
      BY <1>1, <2>3, LandsLeft DEF Plain
    <2>9. Free(t, "sync") /\ Free(t, "args")
      BY <1>1, <2>3, FreeBoth
    <2>10. Lands(t, d, "conf", k)
      BY <1>1, <2>3, LastRight DEF Lands
    <2> HIDE DEF t
    <2>11. CASE a = <<>>
      <3>1. g.conf = k
        <4>1. \A f, v : Write(f, v) # <<>>
          BY DEF Write
        <4> QED BY <2>2, <2>5, <2>11, <4>1
      <3>2. t \o a = t
        BY <2>7, <2>11, ConcatEmptySeq
      <3> QED BY <2>1, <2>7, <2>8, <2>9, <2>10, <3>1, <3>2 DEF Reaches, g, t
    <2>12. ASSUME NEW f \in Remakes, NEW v, a = Write(f, v), a \in Seq(Entry),
                  r.mem # Keep \/ GivesNet(r), f = "sync" => r.mem # Keep,
                  f = "args" => v = k
           PROVE  t \o a \in Seq(Entry) /\ Reaches(t \o a, d, g)
      <3>1. Len(a) = 1 /\ a[1] = [file |-> f, to |-> v] /\ \A e : e # f => Free(a, e)
        BY <2>12, OneWrite
      <3>2. /\ t \o a \in Seq(Entry) /\ t \o a # <<>> /\ Len(t \o a) = Len(t) + 1
            /\ Len(t) \in Nat /\ (t \o a)[Len(t) + 1] = [file |-> f, to |-> v]
            /\ \A i \in 1 .. Len(t) : (t \o a)[i] = t[i]
        <4>1. t \o a \in Seq(Entry) /\ Len(t \o a) = Len(t) + Len(a)
              /\ Len(t) \in Nat
          BY <2>7, <2>12, ConcatProperties, LenProperties
        <4>2. \A i \in 1 .. Len(t) + Len(a) :
                (t \o a)[i] = IF i <= Len(t) THEN t[i] ELSE a[i - Len(t)]
          BY <2>7, <2>12, ConcatProperties
        <4>3. Len(t) + 1 \in 1 .. Len(t) + Len(a) /\ ~(Len(t) + 1 <= Len(t))
              /\ (Len(t) + 1) - Len(t) = 1
          BY <3>1, <4>1
        <4>4. t \o a # <<>>
          BY <3>1, <4>1, EmptySeq
        <4>5. \A i \in 1 .. Len(t) : i \in 1 .. Len(t) + Len(a) /\ i <= Len(t)
          BY <3>1, <4>1
        <4> QED BY <3>1, <4>1, <4>2, <4>3, <4>4, <4>5
      <3>3. \A e \in Plain : Lands(t \o a, d, e, g[e])
        BY <2>7, <2>8, <2>12, <3>1, LandsLeft DEF Plain, Remakes
      <3>4. Lands(t \o a, d, "conf", k)
        BY <2>7, <2>10, <2>12, <3>1, LandsLeft DEF Remakes
      <3>5. \A i \in 1 .. Len(t \o a) : (t \o a)[i].file \in Remakes <=> i = Len(t \o a)
        BY <2>9, <2>12, <3>2 DEF Free, Remakes
      <3>6. g.conf = [k EXCEPT !.args = [mem |-> k.mem, port |-> g.port]]
        BY <2>2, <2>12
      <3>7. (t \o a)[Len(t \o a)].file = f /\ (t \o a)[Len(t \o a)].to = v
        BY <3>2
      <3>8. k \in Confs
        BY <1>1
      <3> QED BY <2>6, <2>12, <3>2, <3>3, <3>4, <3>5, <3>6, <3>7, <3>8 DEF Reaches
    <2>13. CASE a = Write("sync", Absent) /\ r.mem # Keep
      BY <2>1, <2>12, <2>13, WriteTyped DEF t, g, Remakes
    <2>14. CASE a = Write("args", k) /\ GivesNet(r)
      BY <1>1, <2>1, <2>12, <2>14, WriteTyped DEF t, g, Remakes
    <2> QED BY <2>5, <2>11, <2>13, <2>14
  <1> QED BY <1>3, <1>4, <1>5 DEF Modes

-------------------------------------------------------------------------------
(* A list of writes that leads to a disk whose copies agree. *)

Key == {"mem", "cores"}

Ready(m, d, r) ==
  /\ m # "vm" =>
       /\ \A k \in Key : r[k] = Keep => d.conf[k] = d[k]
       /\ ~GivesNet(r) => d.conf.net = ConfNet(d.net)
  /\ m = "pve-vm" /\ r.mem = Keep /\ ~GivesNet(r) =>
       d.conf.args = [mem |-> d.mem, port |-> d.port]
  /\ IsVm(m) /\ ~GivesNet(r) /\ d.net # "usermode" => d.port = Absent

LEMMA AgreeingIsReady ==
  ASSUME NEW m \in Modes, NEW d \in Disks, NEW r \in Request, Agree(m, d)
  PROVE  Ready(m, d, r)
  BY DEF Ready, Agree, Key

LEMMA ReadyReaches ==
  ASSUME NEW m \in Modes, NEW d \in Disks, NEW r \in Request, Ready(m, d, r)
  PROVE  /\ Writes(m, d, r) \in Seq(Entry) /\ After(m, d, r) \in Disks
         /\ Reaches(Writes(m, d, r), d, After(m, d, r))
         /\ Agree(m, After(m, d, r))
  <1>1. /\ Writes(m, d, r) \in Seq(Entry)
        /\ Reaches(Writes(m, d, r), d, After(m, d, r))
    <2>1. m = "pve-vm" /\ r.mem # Keep /\ r.cores = Keep => d.conf.cores = d.cores
      BY DEF Ready, Key
    <2> QED BY <2>1, WritesReach
  <1> DEFINE g == After(m, d, r)
             k == Content(d, r)
  <1>2. /\ k.mem = Either(r.mem, d.conf.mem) /\ k.cores = Either(r.cores, d.conf.cores)
        /\ k.net = (IF GivesNet(r) THEN ConfNet(NewNet(d, r)) ELSE d.conf.net)
        /\ k.args = d.conf.args /\ k \in Confs
    BY ContentIs
  <1>3. /\ g.conf = ConfAfter(m, d, r) /\ g.port = PortAfter(m, d, r)
        /\ g.net = NewNet(d, r)
        /\ g.mem = Either(r.mem, d.mem) /\ g.cores = Either(r.cores, d.cores)
    BY DEF After
  <1>4. ~GivesNet(r) => NewNet(d, r) = d.net /\ g.port = d.port
    BY <1>3 DEF GivesNet, NewNet, KeepsNet, PortAfter, Either
  <1>5. IsVm(m) /\ g.net # "usermode" => g.port = Absent
    BY <1>3, <1>4 DEF Ready, PortAfter
  <1>6. m # "vm" => k.mem = g.mem /\ k.cores = g.cores /\ k.net = ConfNet(g.net)
    BY <1>2, <1>3, <1>4 DEF Ready, Key, Either
  <1>7. ASSUME m # "vm"
        PROVE  g.conf.mem = k.mem /\ g.conf.cores = k.cores /\ g.conf.net = k.net
    <2> HIDE DEF k
    <2>1. g.conf = k \/ g.conf = [k EXCEPT !.args = [mem |-> k.mem, port |-> g.port]]
      BY <1>3, <1>7 DEF ConfAfter, k
    <2> HIDE DEF g
    <2> QED BY <1>2, <2>1 DEF Confs
  <1>8. ASSUME m = "pve-vm"
        PROVE  g.conf.args = [mem |-> g.mem, port |-> g.port]
    <2>1. CASE r.mem # Keep \/ GivesNet(r)
      <3>1. g.conf = [k EXCEPT !.args = [mem |-> k.mem, port |-> g.port]]
        BY <1>3, <1>8, <2>1 DEF ConfAfter
      <3>2. k.mem = g.mem
        BY <1>6, <1>8
      <3> HIDE DEF g, k
      <3> QED BY <1>2, <3>1, <3>2 DEF Confs
    <2>2. CASE r.mem = Keep /\ ~GivesNet(r)
      <3>1. g.conf = k
        BY <1>3, <1>8, <2>2 DEF ConfAfter
      <3>2. d.conf.args = [mem |-> d.mem, port |-> d.port]
        BY <1>8, <2>2 DEF Ready
      <3>3. g.mem = d.mem
        BY <1>3, <2>2 DEF Either
      <3> QED BY <1>2, <1>4, <2>2, <3>1, <3>2, <3>3
    <2> QED BY <2>1, <2>2
  <1>9. Agree(m, g)
    <2> HIDE DEF g, k
    <2> QED BY <1>5, <1>6, <1>7, <1>8 DEF Agree
  <1> QED BY <1>1, <1>9, AfterTyped
-------------------------------------------------------------------------------
(* A set that is half done: d differs from the disk b it began with at     *)
(* most in what the request w gives.                                       *)

Within(m, d, b, w) ==
  /\ w.mem = Keep => /\ d.mem = b.mem /\ d.conf.mem = b.conf.mem
                     /\ d.conf.args.mem = b.conf.args.mem
  /\ w.cores = Keep => d.cores = b.cores /\ d.conf.cores = b.conf.cores
  /\ w.net = Keep => /\ d.net = b.net /\ d.conf.net = b.conf.net
                     /\ d.port = b.port /\ d.conf.args.port = b.conf.args.port
  /\ d.port = b.port \/ (IsVm(m) /\ d.port = Absent)
  /\ m = "vm" => d.conf = b.conf
  /\ m # "pve-vm" => d.conf.args = b.conf.args

\* A write that a set of w makes.
Allowed(m, e, b, w) ==
  /\ e.file = "mem" => w.mem # Keep
  /\ e.file = "cores" => w.cores # Keep
  /\ e.file \in {"net", "port", "args"} => w.net # Keep
  /\ e.file = "port" => IsVm(m) /\ e.to = Absent
  /\ e.file = "sync" => w.mem # Keep
  /\ e.file = "args" => w.mem = Keep
  /\ e.file \in Remakes => m = "pve-vm"
  /\ e.file \in {"conf", "args"} =>
       /\ m # "vm" /\ e.to.args = b.conf.args
       /\ w.mem = Keep => e.to.mem = b.conf.mem
       /\ w.cores = Keep => e.to.cores = b.conf.cores
       /\ w.net = Keep => e.to.net = b.conf.net
AllAllowed(m, s, b, w) == \A i \in 1 .. Len(s) : Allowed(m, s[i], b, w)

LEMMA StaysWithin ==
  ASSUME NEW m \in Modes, NEW d \in Disks, NEW b \in Disks, NEW w \in Request,
         NEW e \in Entry, Agree(m, b), Within(m, d, b, w), Allowed(m, e, b, w)
  PROVE  Within(m, Done(d, e), b, w)
  <1> DEFINE x == Done(d, e)
  <1> SUFFICES Within(m, x, b, w)
    OBVIOUS
  <1>0. d.conf \in Confs /\ (e.file = "args" => e.to \in Confs)
    BY DiskFields, EntryFields
  <1>1. CASE e.file = "sync"
    <2>1. /\ x.mem = d.conf.mem /\ x.net = d.net /\ x.port = d.port
          /\ x.cores = (IF d.conf.cores = Absent THEN d.cores ELSE d.conf.cores)
          /\ x.conf = [d.conf EXCEPT !.args = [mem |-> d.conf.mem, port |-> d.port]]
      BY <1>1 DEF Done, Args, Disks
    <2>2. /\ x.conf.mem = d.conf.mem /\ x.conf.cores = d.conf.cores
          /\ x.conf.net = d.conf.net /\ x.conf.args.port = d.port
          /\ x.conf.args.mem = d.conf.mem
      BY <1>0, <2>1 DEF Confs
    <2>3. m = "pve-vm" /\ w.mem # Keep
      BY <1>1 DEF Allowed, Remakes
    <2>4. b.conf.args = [mem |-> b.mem, port |-> b.port] /\ b.conf.cores = b.cores
      BY <2>3 DEF Agree
    <2>5. w.cores = Keep => x.cores = b.cores
      BY <2>1, <2>4 DEF Within
    <2> HIDE DEF x
    <2> QED BY <2>1, <2>2, <2>3, <2>4, <2>5 DEF Within
  <1>2. CASE e.file = "args"
    <2>1. /\ x.mem = d.mem /\ x.net = d.net /\ x.port = d.port /\ x.cores = d.cores
          /\ x.conf = [e.to EXCEPT !.args = [mem |-> e.to.mem, port |-> d.port]]
      BY <1>2 DEF Done, Args, Disks
    <2>2. /\ x.conf.mem = e.to.mem /\ x.conf.cores = e.to.cores
          /\ x.conf.net = e.to.net /\ x.conf.args.port = d.port
          /\ x.conf.args.mem = e.to.mem
      BY <1>0, <1>2, <2>1 DEF Confs
    <2>3. m = "pve-vm" /\ w.mem = Keep /\ w.net # Keep
          /\ e.to.mem = b.conf.mem
          /\ (w.cores = Keep => e.to.cores = b.conf.cores)
      BY <1>2 DEF Allowed, Remakes
    <2>4. b.conf.args = [mem |-> b.mem, port |-> b.port] /\ b.conf.mem = b.mem
      BY <2>3 DEF Agree
    <2> HIDE DEF x
    <2> QED BY <2>1, <2>2, <2>3, <2>4 DEF Within
  <1>3. CASE e.file = "conf"
    <2>1. /\ x.mem = d.mem /\ x.net = d.net /\ x.port = d.port /\ x.cores = d.cores
          /\ x.conf = e.to
      BY <1>3 DEF Done, Disks
    <2>2. m # "vm" /\ e.to.args = b.conf.args
          /\ (w.mem = Keep => e.to.mem = b.conf.mem)
          /\ (w.cores = Keep => e.to.cores = b.conf.cores)
          /\ (w.net = Keep => e.to.net = b.conf.net)
      BY <1>3 DEF Allowed
    <2> HIDE DEF x
    <2> QED BY <2>1, <2>2 DEF Within
  <1>4. CASE e.file \in Plain
    <2>1. x = [d EXCEPT ![e.file] = e.to] /\ x.conf = d.conf
      BY <1>4 DEF Done, Disks, Plain
    <2>2. /\ e.file # "mem" => x.mem = d.mem
          /\ e.file # "cores" => x.cores = d.cores
          /\ e.file # "net" => x.net = d.net
          /\ e.file # "port" => x.port = d.port
          /\ e.file = "port" => x.port = e.to
      BY <1>4, <2>1 DEF Disks, Plain
    <2>3. /\ e.file = "mem" => w.mem # Keep
          /\ e.file = "cores" => w.cores # Keep
          /\ e.file \in {"net", "port"} => w.net # Keep
          /\ e.file = "port" => IsVm(m) /\ e.to = Absent
      BY DEF Allowed
    <2> HIDE DEF x
    <2> QED BY <1>4, <2>1, <2>2, <2>3 DEF Within, Plain
  <1> QED BY <1>1, <1>2, <1>3, <1>4, EntryFields DEF Plain, Remakes

LEMMA AllowedWrite ==
  ASSUME NEW m, NEW b, NEW w, NEW f, NEW v, Allowed(m, [file |-> f, to |-> v], b, w)
  PROVE  AllAllowed(m, Write(f, v), b, w)
  BY OneWrite DEF AllAllowed

LEMMA AllowedNone ==
  ASSUME NEW m, NEW b, NEW w PROVE AllAllowed(m, <<>>, b, w)
  BY DEF AllAllowed

LEMMA AllowedBoth ==
  ASSUME NEW m, NEW b, NEW w, NEW s \in Seq(Entry), NEW t \in Seq(Entry),
         AllAllowed(m, s, b, w), AllAllowed(m, t, b, w)
  PROVE  AllAllowed(m, s \o t, b, w) /\ s \o t \in Seq(Entry)
  <1>1. \A i \in 1 .. Len(s \o t) :
          \/ i \in 1 .. Len(s) /\ (s \o t)[i] = s[i]
          \/ i - Len(s) \in 1 .. Len(t) /\ (s \o t)[i] = t[i - Len(s)]
    OBVIOUS
  <1> QED BY <1>1, ConcatProperties DEF AllAllowed

LEMMA AllowedRest ==
  ASSUME NEW m, NEW b, NEW w, NEW s \in Seq(Entry), s # <<>>,
         AllAllowed(m, s, b, w)
  PROVE  Allowed(m, Head(s), b, w) /\ AllAllowed(m, Tail(s), b, w)
  <1>1. 1 \in 1 .. Len(s) /\ \A i \in 1 .. Len(Tail(s)) : i + 1 \in 1 .. Len(s)
    BY FirstWrite
  <1> QED BY <1>1, FirstWrite DEF AllAllowed

LEMMA SizeWritesAllowed ==
  ASSUME NEW m \in Modes, NEW b, NEW w \in Request
  PROVE  AllAllowed(m, SizeWrites(w), b, w) /\ SizeWrites(w) \in Seq(Entry)
  <1> DEFINE s == Given(w.mem, Write("mem", w.mem))
             t == Given(w.cores, Write("cores", w.cores))
  <1>1. AllAllowed(m, s, b, w) /\ s \in Seq(Entry)
    <2>1. CASE w.mem = Keep
      BY <2>1, AllowedNone, WriteTyped DEF Given
    <2>2. CASE w.mem # Keep
      <3>1. Allowed(m, [file |-> "mem", to |-> w.mem], b, w)
        BY <2>2 DEF Allowed, Remakes
      <3> QED BY <2>2, <3>1, AllowedWrite, WriteTyped, RequestFields DEF Given
    <2> QED BY <2>1, <2>2
  <1>2. AllAllowed(m, t, b, w) /\ t \in Seq(Entry)
    <2>1. CASE w.cores = Keep
      BY <2>1, AllowedNone, WriteTyped DEF Given
    <2>2. CASE w.cores # Keep
      <3>1. Allowed(m, [file |-> "cores", to |-> w.cores], b, w)
        BY <2>2 DEF Allowed, Remakes
      <3> QED BY <2>2, <3>1, AllowedWrite, WriteTyped, RequestFields DEF Given
    <2> QED BY <2>1, <2>2
  <1>3. SizeWrites(w) = s \o t
    BY DEF SizeWrites
  <1> HIDE DEF s, t
  <1> QED BY <1>1, <1>2, <1>3, AllowedBoth

LEMMA NetWritesAllowed ==
  ASSUME NEW m \in Modes, NEW d \in Disks, NEW b, NEW w \in Request, w.port = Keep
  PROVE  AllAllowed(m, NetWrites(m, d, w), b, w) /\ NetWrites(m, d, w) \in Seq(Entry)
  <1> DEFINE t == IF IsVm(m) /\ NewNet(d, w) # "usermode"
                  THEN Write("port", Absent) ELSE <<>>
             u == Write("net", NewNet(d, w))
  <1>1. CASE ~GivesNet(w)
    BY <1>1, AllowedNone, WriteTyped DEF NetWrites
  <1>2. CASE GivesNet(w)
    <2>0. w.net # Keep
      BY <1>2 DEF GivesNet
    <2>1. AllAllowed(m, t, b, w) /\ t \in Seq(Entry)
      <3>1. CASE IsVm(m)
        <4>1. Allowed(m, [file |-> "port", to |-> Absent], b, w)
          BY <2>0, <3>1 DEF Allowed, Remakes
        <4>2. Absent \in PortValues
          BY DEF PortValues
        <4> QED BY <4>1, <4>2, AllowedWrite, AllowedNone, WriteTyped
      <3>2. CASE ~IsVm(m)
        BY <3>2, AllowedNone, WriteTyped
      <3> QED BY <3>1, <3>2
    <2>2. AllAllowed(m, u, b, w) /\ u \in Seq(Entry)
      <3>1. Allowed(m, [file |-> "net", to |-> NewNet(d, w)], b, w)
        BY <2>0 DEF Allowed, Remakes
      <3>2. NewNet(d, w) \in NetNames
        BY DiskFields, RequestFields DEF NewNet, KeepsNet
      <3> QED BY <3>1, <3>2, AllowedWrite, WriteTyped
    <2>3. NetWrites(m, d, w) = <<>> \o t \o u
      BY <1>2 DEF NetWrites, Given
    <2> HIDE DEF t, u
    <2>4. AllAllowed(m, <<>> \o t, b, w) /\ <<>> \o t \in Seq(Entry)
      BY <2>1, WriteTyped, AllowedNone, AllowedBoth
    <2> QED BY <2>2, <2>3, <2>4, AllowedBoth
  <1> QED BY <1>1, <1>2

\* A set that is made anew on what an earlier one left half done.
LEMMA WritesAllowed ==
  ASSUME NEW m \in Modes, NEW d \in Disks, NEW b \in Disks, NEW w \in Request,
         w.port = Keep, Within(m, d, b, w), d.conf.args = b.conf.args
  PROVE  AllAllowed(m, Writes(m, d, w), b, w) /\ Writes(m, d, w) \in Seq(Entry)
  <1> DEFINE z == SizeWrites(w)
             n == NetWrites(m, d, w)
             k == Content(d, w)
             c == Write("conf", k)
             a == ArgsWrites(d, w)
  <1>1. AllAllowed(m, z, b, w) /\ z \in Seq(Entry)
        /\ AllAllowed(m, n, b, w) /\ n \in Seq(Entry)
    BY SizeWritesAllowed, NetWritesAllowed
  <1>2. /\ k \in Confs /\ k.args = d.conf.args
        /\ w.mem = Keep => k.mem = b.conf.mem
        /\ w.cores = Keep => k.cores = b.conf.cores
        /\ w.net = Keep => k.net = b.conf.net
    BY ContentIs DEF Within, Either, GivesNet
  <1>3. CASE m = "vm"
    <2>1. Writes(m, d, w) = z \o n
      BY <1>3 DEF Writes
    <2> HIDE DEF z, n
    <2> QED BY <1>1, <2>1, AllowedBoth
  <1>4. ASSUME m # "vm"
        PROVE  AllAllowed(m, c, b, w) /\ c \in Seq(Entry)
    <2>1. Allowed(m, [file |-> "conf", to |-> k], b, w)
      <3> HIDE DEF k
      <3> QED BY <1>2, <1>4 DEF Allowed, Remakes
    <2> QED BY <1>2, <2>1, AllowedWrite, WriteTyped
  <1>5. CASE m \in {"lxc", "pve"}
    <2>1. Writes(m, d, w) = z \o n \o c
      BY <1>5 DEF Writes
    <2>2. AllAllowed(m, c, b, w) /\ c \in Seq(Entry)
      BY <1>4, <1>5
    <2> HIDE DEF z, n, c
    <2>3. AllAllowed(m, z \o n, b, w) /\ z \o n \in Seq(Entry)
      BY <1>1, AllowedBoth
    <2>4. AllAllowed(m, (z \o n) \o c, b, w) /\ (z \o n) \o c \in Seq(Entry)
      BY <2>2, <2>3, AllowedBoth
    <2> QED BY <2>1, <2>4
  <1>6. CASE m = "pve-vm"
    <2>1. Writes(m, d, w) = n \o z \o c \o a
      BY <1>6 DEF Writes
    <2>2. AllAllowed(m, c, b, w) /\ c \in Seq(Entry)
      BY <1>4, <1>6
    <2>3. AllAllowed(m, a, b, w) /\ a \in Seq(Entry)
      <3>1. CASE w.mem # Keep
        <4>1. Allowed(m, [file |-> "sync", to |-> Absent], b, w)
          BY <1>6, <3>1 DEF Allowed, Remakes
        <4> QED BY <3>1, <4>1, AllowedWrite, WriteTyped DEF ArgsWrites
      <3>2. CASE w.mem = Keep /\ GivesNet(w)
        <4>1. w.net # Keep
          BY <3>2 DEF GivesNet
        <4>2. Allowed(m, [file |-> "args", to |-> k], b, w)
          <5> HIDE DEF k
          <5> QED BY <1>2, <1>6, <3>2, <4>1 DEF Allowed, Remakes
        <4> QED BY <1>2, <3>2, <4>2, AllowedWrite, WriteTyped DEF ArgsWrites
      <3>3. CASE w.mem = Keep /\ ~GivesNet(w)
        BY <3>3, AllowedNone, WriteTyped DEF ArgsWrites
      <3> QED BY <3>1, <3>2, <3>3
    <2> HIDE DEF z, n, c, a
    <2>4. AllAllowed(m, n \o z, b, w) /\ n \o z \in Seq(Entry)
      BY <1>1, AllowedBoth
    <2>5. AllAllowed(m, (n \o z) \o c, b, w) /\ (n \o z) \o c \in Seq(Entry)
      BY <2>2, <2>4, AllowedBoth
    <2>6. AllAllowed(m, ((n \o z) \o c) \o a, b, w)
          /\ ((n \o z) \o c) \o a \in Seq(Entry)
      BY <2>3, <2>5, AllowedBoth
    <2> QED BY <2>1, <2>6
  <1> QED BY <1>3, <1>5, <1>6 DEF Modes

\* Disks that differ at most in the forwards.
Restored(d, b) ==
  /\ d.mem = b.mem /\ d.cores = b.cores /\ d.net = b.net
  /\ d.conf.mem = b.conf.mem /\ d.conf.cores = b.conf.cores
  /\ d.conf.net = b.conf.net /\ d.conf.args.mem = b.conf.args.mem

LEMMA RestoredEqual ==
  ASSUME NEW d \in Disks, NEW b \in Disks, Restored(d, b)
  PROVE  [d EXCEPT !.port = Absent, !.conf.args.port = Absent]
         = [b EXCEPT !.port = Absent, !.conf.args.port = Absent]
  <1> DEFINE A(x) == [x.conf.args EXCEPT !.port = Absent]
             C(x) == [x.conf EXCEPT !.args = A(x)]
  <1>1. A(d) = A(b)
    BY DEF Restored, Disks, Confs
  <1>2. C(d) = C(b)
    <2> HIDE DEF A
    <2> QED BY <1>1 DEF Restored, Disks, Confs
  <1>3. \A x \in Disks : [x EXCEPT !.port = Absent, !.conf.args.port = Absent]
                         = [x EXCEPT !.port = Absent, !.conf = C(x)]
    BY DEF Disks, Confs
  <1> HIDE DEF C
  <1>4. [d EXCEPT !.port = Absent, !.conf = C(d)]
        = [b EXCEPT !.port = Absent, !.conf = C(b)]
    BY <1>2 DEF Restored, Disks
  <1> QED BY <1>3, <1>4

\* The way back: the request r gives what w gave, with the values of b.
LEMMA WayBack ==
  ASSUME NEW m \in Modes, NEW d \in Disks, NEW b \in Disks, NEW w \in Request,
         NEW r \in Request, Agree(m, b), Within(m, d, b, w),
         r.mem = b.mem \/ (r.mem = Keep /\ w.mem = Keep),
         r.cores = b.cores \/ (r.cores = Keep /\ w.cores = Keep),
         r.net = b.net \/ (r.net = Keep /\ w.net = Keep), r.net # "unnamed",
         r.port = Keep
  PROVE  /\ Ready(m, d, r) /\ Restored(After(m, d, r), b)
         /\ w.net = Keep => After(m, d, r).port = b.port
  <1> DEFINE g == After(m, d, r)
             k == Content(d, r)
  <1>0. b.mem # Keep /\ b.cores # Keep /\ b.net # Keep
    BY KeepApart, DiskFields
  <1>1. /\ k.mem = Either(r.mem, d.conf.mem) /\ k.cores = Either(r.cores, d.conf.cores)
        /\ k.net = (IF GivesNet(r) THEN ConfNet(NewNet(d, r)) ELSE d.conf.net)
        /\ k.args = d.conf.args /\ k \in Confs
    BY ContentIs
  <1>2. /\ g.conf = ConfAfter(m, d, r) /\ g.port = PortAfter(m, d, r)
        /\ g.net = NewNet(d, r)
        /\ g.mem = Either(r.mem, d.mem) /\ g.cores = Either(r.cores, d.cores)
    BY DEF After
  <1>3. GivesNet(r) <=> r.net # Keep
    BY DEF GivesNet
  <1>4. NewNet(d, r) = b.net
    BY <1>0 DEF Within, NewNet, KeepsNet
  <1>5. g.mem = b.mem /\ g.cores = b.cores /\ g.net = b.net
    BY <1>0, <1>2, <1>4 DEF Within, Either
  <1>6. Ready(m, d, r)
    <2>1. m # "vm" => /\ r.mem = Keep => d.conf.mem = d.mem
                      /\ r.cores = Keep => d.conf.cores = d.cores
                      /\ r.net = Keep => d.conf.net = ConfNet(d.net)
      BY <1>0 DEF Within, Agree
    <2>2. m = "pve-vm" /\ r.mem = Keep /\ r.net = Keep =>
            d.conf.args = [mem |-> d.mem, port |-> d.port]
      <3> SUFFICES ASSUME m = "pve-vm", r.mem = Keep, r.net = Keep
                   PROVE  d.conf.args = [mem |-> d.mem, port |-> d.port]
        OBVIOUS
      <3>1. b.conf.args = [mem |-> b.mem, port |-> b.port]
        BY DEF Agree
      <3>2. d.conf.args.mem = d.mem /\ d.conf.args.port = d.port
        BY <1>0, <3>1 DEF Within
      <3>3. d.conf.args = [mem |-> d.conf.args.mem, port |-> d.conf.args.port]
        BY DEF Disks, Confs
      <3> QED BY <3>2, <3>3
    <2>3. IsVm(m) /\ r.net = Keep /\ d.net # "usermode" => d.port = Absent
      BY <1>0 DEF Within, Agree
    <2> QED BY <1>3, <2>1, <2>2, <2>3 DEF Ready, Key
  <1>7. w.net = Keep => g.port = b.port
    BY <1>0, <1>2, <1>3, <1>4 DEF Within, PortAfter, Either, Agree
  <1>8. CASE m = "vm"
    <2>1. g.conf = b.conf
      BY <1>2, <1>8 DEF ConfAfter, Within
    <2> HIDE DEF g
    <2> QED BY <1>5, <1>6, <1>7, <2>1 DEF Restored, g
  <1>9. CASE m # "vm"
    <2>1. k.mem = b.conf.mem /\ k.cores = b.conf.cores
      BY <1>0, <1>1, <1>9 DEF Within, Either, Agree
    <2>2. k.net = b.conf.net
      BY <1>0, <1>1, <1>3, <1>4, <1>9 DEF Within, Agree
    <2>3. \/ m # "pve-vm" /\ g.conf = k
          \/ m = "pve-vm" /\ r.mem = Keep /\ r.net = Keep /\ g.conf = k
          \/ m = "pve-vm" /\ g.conf = [k EXCEPT !.args = [mem |-> k.mem, port |-> g.port]]
      BY <1>2, <1>3, <1>9 DEF ConfAfter
    <2>4. m = "pve-vm" => b.conf.args.mem = b.conf.mem
      BY DEF Agree
    <2>5. k.args.mem = b.conf.args.mem
          \/ (m = "pve-vm" /\ (r.mem # Keep \/ r.net # Keep))
      BY <1>0, <1>1 DEF Within
    <2> HIDE DEF g, k
    <2>6. /\ g.conf.mem = k.mem /\ g.conf.cores = k.cores /\ g.conf.net = k.net
          /\ g.conf.args.mem = b.conf.args.mem
      BY <1>1, <2>1, <2>3, <2>4, <2>5 DEF Confs
    <2>7. Restored(g, b)
      BY <1>5, <2>1, <2>2, <2>6 DEF Restored
    <2> QED BY <1>6, <1>7, <2>7 DEF g
  <1> QED BY <1>8, <1>9

-------------------------------------------------------------------------------
(* Types. *)

Limits == [mem : MemValues, cores : CoreValues, port : PortValues]
Started == [disk : Disks, live : Limits]
CallType ==
  [at : {"idle", "probe", "set", "write", "reverse", "rewrite", "live", "keep",
         "unlive", "unkeep", "wait"},
   op : {"", "resources", "network", "ask", "force", "kill"},
   want : Request, todo : Seq(Entry), live : Seq(Key), undo : Seq(Key),
   before : Started \cup {NoConf},
   alone : BOOLEAN, sure : BOOLEAN]
HandleType ==
  [res : [mem : MemValues, cores : CoreValues], net : NetworkModes,
   status : {"RUNNING", "STOPPED", "SUSPENDED"}, dead : BOOLEAN]
GuestType == [up : BOOLEAN, paused : BOOLEAN, live : Limits]
WishType == [network : NetworkModes \cup {Absent}, mem : MemValues,
             cores : CoreValues, port : PortValues]

Types ==
  /\ mode \in Modes /\ disk \in Disks /\ guest \in GuestType
  /\ h \in HandleType /\ call \in CallType /\ cli \in Seq(Entry)
  /\ asked \in WishType

InCall == Setting \/ call.at \in {"probe", "set"}
LivePath == call.at \in {"live", "keep", "unlive", "unkeep"}

\* A guest that is down has no limits and is not paused, and a container
\* cannot be paused; a destroyed handle has no call under way.
GuestShape ==
  /\ ~guest.up => guest = Down
  /\ guest.paused => IsVm(mode)
  /\ h.dead => call = NoCall /\ ~guest.up

\* Which call is at work on what, and what it has left to do.
CallShape ==
  /\ call.at = "idle" => call = NoCall
  /\ call.todo # <<>> => Writing
  /\ InCall => /\ call.op \in {"network", "resources"}
               /\ call.before \in Started /\ call.want.port = Keep
               /\ call.want.mem # Absent /\ call.want.cores # Absent
               /\ call.op = "network" =>
                    /\ asked.port = Absent /\ call.want.net # Keep
                    /\ call.want.mem = Keep /\ call.want.cores = Keep
               /\ call.op = "resources" => call.want.net = Keep
  /\ LivePath => call.op = "resources" /\ ~IsVm(mode)
  /\ \A i \in 1 .. Len(call.live) : call.want[call.live[i]] # Keep
  /\ \A i \in 1 .. Len(call.undo) : /\ call.want[call.undo[i]] # Keep
                                    /\ h.res[call.undo[i]] # Absent
  /\ call.at = "unkeep" => call.undo = <<>>

Shape == GuestShape /\ CallShape

LEMMA NetworkNames ==
  /\ \A n \in NetworkModes : NetworkParam(n) \in NetNames /\ ResolveNetMode(NetworkParam(n)) = n
  /\ \A t \in NetNames : ResolveNetMode(t) \in NetworkModes /\ NetworkParam(ResolveNetMode(t)) = t
  <1>1. /\ NetworkParam("DHCP") = "bridge" /\ NetworkParam("USER") = "usermode"
        /\ NetworkParam("HOST") = "host" /\ NetworkParam("DISABLED") = "none"
        /\ NetworkParam("UNNAMED") = "unnamed"
    BY DEF NetworkParam, NetworkModes
  <1>2. \A n \in NetworkModes : NetworkParam(n) \in NetNames
    BY <1>1 DEF NetworkModes, NetNames
  <1>3. \A n, o \in NetworkModes : NetworkParam(n) = NetworkParam(o) => n = o
    BY <1>1 DEF NetworkModes
  <1>4. \A t \in NetNames : \E n \in NetworkModes : NetworkParam(n) = t
    BY <1>1 DEF NetworkModes, NetNames
  <1>5. \A t \in NetNames : ResolveNetMode(t) \in NetworkModes
                            /\ NetworkParam(ResolveNetMode(t)) = t
    BY <1>4 DEF ResolveNetMode
  <1> QED BY <1>2, <1>3, <1>5

LEMMA ClampedIs ==
  /\ \A m \in Modes, c \in CoreValues :
       /\ Clamped(m, c) \in CoreValues
       /\ Clamped(m, c) # Absent <=> c # Absent
       /\ ~IsVm(m) => Clamped(m, c) = c
  /\ \A m \in Modes : Clamped(m, Keep) = Keep
  <1>1. HostCpus \in CoreValues /\ HostCpus \in Nat
    BY SettingsAssumption DEF CoreValues
  <1> QED BY <1>1, KeepApart DEF Clamped

LEMMA ClampTyped ==
  ASSUME NEW m \in Modes, NEW r \in Request
  PROVE  /\ ClampVmCapacity(m, r) \in Request
         /\ ClampVmCapacity(m, r).mem = r.mem /\ ClampVmCapacity(m, r).net = r.net
         /\ ClampVmCapacity(m, r).port = r.port
         /\ ClampVmCapacity(m, r).cores = Clamped(m, r.cores)
         /\ ClampVmCapacity(m, r).cores = Keep <=> r.cores = Keep
  <1>1. Clamped(m, r.cores) \in Cores \cup {0, HostCpus, Keep}
        /\ (Clamped(m, r.cores) = Keep <=> r.cores = Keep)
    <2>1. r.cores \in Cores \cup {0, HostCpus, Keep}
      BY DEF Request
    <2>2. HostCpus # Keep
      BY KeepApart, SettingsAssumption
    <2> QED BY <2>1, <2>2, ClampedIs, KeepApart DEF Clamped
  <1> HIDE DEF Clamped
  <1> QED BY <1>1 DEF ClampVmCapacity, Request

LEMMA NothingTyped == Nothing \in Request
  BY DEF Nothing, Request

LEMMA RequestsTyped == Requests \subseteq Request
  <1>1. [mem : Mems \cup {0, Keep}, cores : Cores \cup {0, Keep},
         net : NetNames \cup {Keep}, port : Ports \cup {Absent, Keep}] \subseteq Request
    BY DEF Request, PortValues
  <1> QED BY <1>1, LibraryAssumption

LEMMA BagTyped ==
  ASSUME NEW b \in [mem : MemValues, cores : CoreValues]
  PROVE  /\ BagRequest(b) \in Request
         /\ BagRequest(b).mem = Named(b.mem) /\ BagRequest(b).cores = Named(b.cores)
         /\ BagRequest(b).net = Keep /\ BagRequest(b).port = Keep
  <1>1. Named(b.mem) \in Mems \cup {0, Keep}
        /\ Named(b.cores) \in Cores \cup {0, HostCpus, Keep}
    BY DEF Named, MemValues, CoreValues
  <1> QED BY <1>1, NothingTyped DEF BagRequest, Request, Nothing

LEMMA BagsTyped == Bags \subseteq [mem : MemValues, cores : CoreValues]
  <1>1. [mem : Mems \cup {0, Absent}, cores : Cores \cup {0, Absent}]
        \subseteq [mem : MemValues, cores : CoreValues]
    BY DEF MemValues, CoreValues
  <1> QED BY <1>1, LibraryAssumption

LEMMA NetTyped ==
  ASSUME NEW n \in NetworkModes
  PROVE  /\ NetRequest(n) \in Request /\ NetRequest(n).net = NetworkParam(n)
         /\ NetRequest(n).mem = Keep /\ NetRequest(n).cores = Keep
         /\ NetRequest(n).port = Keep
  <1>1. NetworkParam(n) \in NetNames
    BY NetworkNames
  <1> QED BY <1>1, NothingTyped DEF NetRequest, Request, Nothing

LEMMA OldTyped ==
  ASSUME Types
  PROVE  /\ OldParams \in Request /\ OldParams.port = Keep
         /\ call.op = "network" =>
              /\ OldParams.net = NetworkParam(h.net)
              /\ OldParams.mem = Keep /\ OldParams.cores = Keep
         /\ call.op # "network" =>
              /\ OldParams.net = Keep /\ OldParams.mem = Named(h.res.mem)
              /\ OldParams.cores = Named(h.res.cores)
  <1>1. h.net \in NetworkModes /\ h.res \in [mem : MemValues, cores : CoreValues]
    BY DEF Types, HandleType
  <1> QED BY <1>1, BagTyped, NetTyped DEF OldParams

LEMMA WritesTyped ==
  ASSUME NEW m \in Modes, NEW d \in Disks, NEW r \in Request
  PROVE  Writes(m, d, r) \in Seq(Entry) /\ SetCmd(m, d, r) \in Seq(Entry)
  <1>1. ASSUME NEW q \in Request PROVE Writes(m, d, q) \in Seq(Entry)
    <2> DEFINE z == SizeWrites(q)
               n == NetWrites(m, d, q)
               c == Write("conf", Content(d, q))
               a == ArgsWrites(d, q)
    <2>1. z \in Seq(Entry) /\ n \in Seq(Entry)
      BY <1>1, SizeWritesDo, NetWritesDo
    <2>2. c \in Seq(Entry) /\ a \in Seq(Entry)
      BY <1>1, ContentIs, WriteTyped DEF ArgsWrites
    <2>3. Writes(m, d, q) \in {z \o n, n \o z \o c \o a, z \o n \o c}
      BY DEF Writes
    <2> HIDE DEF z, n, c, a
    <2>4. z \o n \in Seq(Entry) /\ n \o z \in Seq(Entry)
      BY <2>1, ConcatProperties
    <2>5. n \o z \o c \in Seq(Entry) /\ z \o n \o c \in Seq(Entry)
      BY <2>2, <2>4, ConcatProperties
    <2>6. n \o z \o c \o a \in Seq(Entry)
      BY <2>2, <2>5, ConcatProperties
    <2> QED BY <2>3, <2>4, <2>5, <2>6
  <1> QED BY <1>1, ClampTyped DEF SetCmd

LEMMA CreatedTyped ==
  ASSUME NEW host \in Hosts, NEW ask \in Creations,
         Creatable(host, CreateKwargs(ask))
  PROVE  LET kw == CreateKwargs(ask)  m == Promoted(host, kw)
             d == CreateDisk(host, kw)  n == ResolveNetwork(host, m, kw)
         IN  /\ m \in Modes /\ d \in Disks /\ Agree(m, d)
             /\ d.net = n /\ d.mem = Sizes(m, kw).mem /\ d.cores = Sizes(m, kw).cores
             /\ d.port = CreatePort(m, n, kw)
  <1> DEFINE kw == CreateKwargs(ask)
             m == Promoted(host, kw)
             d == CreateDisk(host, kw)
             n == ResolveNetwork(host, m, kw)
             z == Sizes(m, kw)
             p == CreatePort(m, n, kw)
  <1>1. /\ ask.kind \in {"lxc", "vm"} /\ ask.network \in NetworkModes \cup {Absent}
        /\ ask.mem \in Mems \cup {0, Absent} /\ ask.cores \in Cores \cup {0, Absent}
        /\ ask.port \in PortValues
    BY LibraryAssumption DEF Asks, PortValues
  <1>2. /\ kw.mode = ask.kind /\ kw.mem = ask.mem /\ kw.cores = ask.cores
        /\ kw.port = ask.port
        /\ kw.net = IF ask.network = Absent THEN Absent ELSE NetworkParam(ask.network)
    BY DEF CreateKwargs
  <1>3. m \in Modes
    BY <1>1, <1>2 DEF Promoted, Modes
  <1>4. kw.net \in NetNames \cup {Absent}
    BY <1>1, <1>2, NetworkNames
  <1> HIDE DEF kw
  <1>5. n \in NetNames
    BY <1>4 DEF ResolveNetwork, NetNames
  <1>6. z.mem \in MemValues /\ z.cores \in CoreValues
    <2>1. DefaultSize.mem \in MemValues /\ DefaultSize.cores \in CoreValues
      BY TypedAssumption DEF MemValues, CoreValues
    <2>2. kw.mem \in MemValues /\ kw.cores \in CoreValues
      BY <1>1, <1>2 DEF MemValues, CoreValues
    <2> HIDE DEF m
    <2> QED BY <1>3, <2>1, <2>2, ClampedIs DEF Sizes
  <1>7. p \in PortValues /\ (IsVm(m) /\ n # "usermode" => p = Absent)
    BY <1>1, <1>2, TypedAssumption DEF CreatePort, PortValues
  <1>8. d = Created(m, z.mem, z.cores, n, p)
    BY DEF CreateDisk, kw
  <1> HIDE DEF m, n, z, p, d
  <1>9. d.conf = (IF m = "vm" THEN NoConf
                  ELSE [mem |-> z.mem, cores |-> z.cores, net |-> ConfNet(n),
                        args |-> IF m = "pve-vm" THEN [mem |-> z.mem, port |-> p]
                                 ELSE NoArgs])
        /\ d.mem = z.mem /\ d.cores = z.cores /\ d.net = n /\ d.port = p
    BY <1>8 DEF Created
  <1>10. ConfNet(n) \in NetNames /\ Absent \in MemValues \cap CoreValues \cap PortValues
    BY <1>5 DEF ConfNet, NetNames, MemValues, CoreValues, PortValues
  <1>11. NoConf \in Confs
    BY <1>10 DEF NoConf, NoArgs, Confs
  <1>12. d.conf \in Confs
    <2>1. NoArgs \in [mem : MemValues, port : PortValues]
      BY <1>10 DEF NoArgs
    <2> QED BY <1>6, <1>7, <1>9, <1>10, <1>11, <2>1 DEF Confs
  <1>13. d \in Disks
    <2>1. d = [mem |-> d.mem, cores |-> d.cores, net |-> d.net, port |-> d.port,
               conf |-> d.conf]
      BY <1>8 DEF Created
    <2> QED BY <1>5, <1>6, <1>7, <1>9, <1>12, <2>1 DEF Disks
  <1>14. Agree(m, d)
    BY <1>7, <1>9 DEF Agree
  <1> QED BY <1>3, <1>9, <1>13, <1>14 DEF d, m, n, z, p, kw

LEMMA LoadedTyped ==
  ASSUME NEW d \in Disks, NEW g \in GuestType
  PROVE  /\ Loaded(d, g) \in HandleType /\ ~Loaded(d, g).dead
         /\ Loaded(d, g).res = [mem |-> d.mem, cores |-> d.cores]
         /\ Loaded(d, g).net = ResolveNetMode(d.net)
         /\ Loaded(d, g).status = Status(g) /\ Status(g) \in {"RUNNING", "STOPPED"}
  <1>1. ResolveNetMode(d.net) \in NetworkModes
    BY DiskFields, NetworkNames
  <1> QED BY <1>1, DiskFields DEF Loaded, HandleType, Status

LEMMA DownTyped == /\ Down \in GuestType /\ Down.up = FALSE /\ Down.paused = FALSE
                   /\ \A k \in Key : Down.live[k] = Absent
  BY DEF Down, GuestType, Limits, MemValues, CoreValues, PortValues, Key

LEMMA NoCallTyped ==
  /\ NoCall \in CallType /\ NoCall.at = "idle" /\ NoCall.todo = <<>>
  /\ NoCall.live = <<>> /\ NoCall.undo = <<>> /\ NoCall.alone = FALSE
  /\ NoCall.op = "" /\ NoCall.sure = FALSE
  <1>1. <<>> \in Seq(Entry) /\ <<>> \in Seq(Key)
    BY EmptySeq
  <1> QED BY <1>1, NothingTyped DEF NoCall, CallType

LEMMA InitTyped == Init => Types /\ Shape
  <1> SUFFICES ASSUME Init PROVE Types /\ Shape
    OBVIOUS
  <1>1. PICK host \in Hosts, ask \in Creations :
          /\ Creatable(host, CreateKwargs(ask))
          /\ mode = Promoted(host, CreateKwargs(ask))
          /\ disk = CreateDisk(host, CreateKwargs(ask))
          /\ asked = [k \in {"network", "mem", "cores", "port"} |-> ask[k]]
    BY DEF Init
  <1>2. mode \in Modes /\ disk \in Disks
    BY <1>1, CreatedTyped
  <1>3. asked \in WishType
    BY <1>1, LibraryAssumption DEF Asks, WishType, MemValues, CoreValues, PortValues
  <1>4. guest = Down /\ call = NoCall /\ cli = <<>> /\ h = Loaded(disk, Down)
    BY DEF Init
  <1>5. h \in HandleType /\ ~h.dead
    BY <1>2, <1>4, DownTyped, LoadedTyped
  <1>6. Types
    BY <1>2, <1>3, <1>4, <1>5, DownTyped, NoCallTyped, EmptySeq DEF Types
  <1>7. ~InCall /\ ~LivePath /\ ~Writing
    BY <1>4, NoCallTyped DEF InCall, Setting, Writing, LivePath
  <1>8. /\ Len(call.live) = 0 /\ Len(call.undo) = 0 /\ call.todo = <<>>
        /\ call.at = "idle"
    BY <1>4, NoCallTyped
  <1>9. guest = Down /\ guest.paused = FALSE /\ h.dead = FALSE
    BY <1>4, <1>5, DownTyped DEF HandleType
  <1>10. Shape
    <2> HIDE DEF Init
    <2> QED BY <1>4, <1>7, <1>8, <1>9 DEF Shape, GuestShape, CallShape
  <1> QED BY <1>6, <1>10

Ats == {"idle", "probe", "set", "write", "reverse", "rewrite", "live", "keep",
        "unlive", "unkeep", "wait"}

\* The ways the record of a call changes.
LEMMA CallChanges ==
  ASSUME NEW c \in CallType
  PROVE  /\ \A a \in Ats, s \in Seq(Entry) : [c EXCEPT !.at = a, !.todo = s] \in CallType
         /\ \A s \in Seq(Entry) : [c EXCEPT !.todo = s] \in CallType
         /\ [c EXCEPT !.alone = FALSE] \in CallType
         /\ \A s \in Seq(Key) : [c EXCEPT !.at = "live", !.live = s] \in CallType
         /\ \A s, t \in Seq(Key) : [c EXCEPT !.live = s, !.undo = t] \in CallType
         /\ \A s \in Seq(Key) : [c EXCEPT !.undo = s] \in CallType
  BY DEF CallType, Ats

LEMMA CallFields ==
  ASSUME NEW c \in CallType
  PROVE  /\ \A a, s : /\ [c EXCEPT !.at = a, !.todo = s].at = a
                      /\ [c EXCEPT !.at = a, !.todo = s].todo = s
                      /\ [c EXCEPT !.at = a, !.todo = s].op = c.op
                      /\ [c EXCEPT !.at = a, !.todo = s].want = c.want
                      /\ [c EXCEPT !.at = a, !.todo = s].live = c.live
                      /\ [c EXCEPT !.at = a, !.todo = s].undo = c.undo
                      /\ [c EXCEPT !.at = a, !.todo = s].before = c.before
                      /\ [c EXCEPT !.at = a, !.todo = s].alone = c.alone
                      /\ [c EXCEPT !.at = a, !.todo = s].sure = c.sure
  BY DEF CallType

LEMMA KeySequences ==
  /\ <<>> \in Seq(Key)
  /\ \A r : ChangedKeys(r) \in Seq(Key)
  /\ \A s \in Seq(Key), k \in Key : <<k>> \o s \in Seq(Key)
  /\ \A s \in Seq(Key) : s # <<>> => Head(s) \in Key /\ Tail(s) \in Seq(Key)
  <1>1. <<>> \in Seq(Key) /\ \A k \in Key : <<k>> \in Seq(Key)
    BY DEF Key
  <1>2. \A r : ChangedKeys(r) \in Seq(Key)
    <2> TAKE r
    <2>1. Changed("mem", r) \in Seq(Key) /\ Changed("cores", r) \in Seq(Key)
      BY <1>1 DEF Changed, Key
    <2> QED BY <2>1, ConcatProperties DEF ChangedKeys
  <1>3. \A s \in Seq(Key), k \in Key : <<k>> \o s \in Seq(Key)
    BY <1>1, ConcatProperties
  <1>4. \A s \in Seq(Key) : s # <<>> => Head(s) \in Key /\ Tail(s) \in Seq(Key)
    BY HeadTailProperties
  <1> QED BY <1>1, <1>2, <1>3, <1>4

LEMMA GuestTyped ==
  ASSUME NEW m \in Modes, NEW y \in GuestType, NEW d \in Disks
  PROVE  /\ Booted(m, d) \in Limits
         /\ [up |-> TRUE, paused |-> FALSE, live |-> Booted(m, d)] \in GuestType
         /\ \A p \in BOOLEAN : [y EXCEPT !.paused = p] \in GuestType
         /\ \A v \in MemValues : [y EXCEPT !.live["mem"] = v] \in GuestType
         /\ \A v \in CoreValues : [y EXCEPT !.live["cores"] = v] \in GuestType
         /\ \A v \in MemValues : [d EXCEPT !.conf["mem"] = v] \in Disks
         /\ \A v \in CoreValues : [d EXCEPT !.conf["cores"] = v] \in Disks
  <1>1. Booted(m, d) \in Limits
    <2>1. Absent \in PortValues
      BY DEF PortValues
    <2> QED BY <2>1, DiskFields DEF Booted, Limits
  <1> HIDE DEF Booted
  <1> QED BY <1>1 DEF GuestType, Limits, Disks, Confs

LEMMA HandleTyped ==
  ASSUME NEW x \in HandleType
  PROVE  /\ \A t \in {"RUNNING", "STOPPED", "SUSPENDED"} : [x EXCEPT !.status = t] \in HandleType
         /\ [x EXCEPT !.dead = TRUE] \in HandleType
         /\ \A n \in NetworkModes : [x EXCEPT !.net = n] \in HandleType
         /\ \A r \in [Key -> MemValues \cup CoreValues] :
              r["mem"] \in MemValues /\ r["cores"] \in CoreValues =>
                [x EXCEPT !.res = r] \in HandleType
  <1>1. \A r \in [Key -> MemValues \cup CoreValues] :
          r["mem"] \in MemValues /\ r["cores"] \in CoreValues =>
            r \in [mem : MemValues, cores : CoreValues]
    BY DEF Key
  <1> QED BY <1>1 DEF HandleType

\* The steps of a call that make it hold another list of writes.
LEMMA ListsTyped ==
  ASSUME Types
  PROVE  /\ SetCmd(mode, disk, call.want) \in Seq(Entry)
         /\ SetCmd(mode, disk, OldParams) \in Seq(Entry)
         /\ Persist(call.want) \in Seq(Entry) /\ Persist(OldParams) \in Seq(Entry)
         /\ \A r \in Requests : SetCmd(mode, disk, r) \in Seq(Entry)
  <1>1. call.want \in Request /\ mode \in Modes /\ disk \in Disks
    BY DEF Types, CallType
  <1> QED BY <1>1, OldTyped, WritesTyped, RequestsTyped, EmptySeq DEF Persist

LEMMA RemembersTyped ==
  ASSUME Types, Shape, call.at \in {"write", "keep"}
  PROVE  /\ Remembers => /\ h' \in HandleType /\ h'.dead = h.dead /\ h'.status = h.status
                         /\ call.op = "network" =>
                              h'.res = h.res /\ h'.net = ResolveNetMode(call.want.net)
                         /\ call.op # "network" =>
                              /\ h'.net = h.net
                              /\ h'.res.mem = (IF call.want.mem = Keep THEN Absent ELSE call.want.mem)
                              /\ h'.res.cores = (IF call.want.cores = Keep THEN Absent ELSE call.want.cores)
         /\ Granted => /\ asked' \in WishType
                       /\ call.op = "network" =>
                            /\ asked'.network = ResolveNetMode(call.want.net)
                            /\ asked'.mem = asked.mem /\ asked'.cores = asked.cores
                            /\ asked'.port = asked.port
                       /\ call.op # "network" =>
                            /\ asked'.network = asked.network /\ asked'.port = asked.port
                            /\ asked'.mem = (IF call.want.mem = Keep THEN asked.mem ELSE call.want.mem)
                            /\ asked'.cores = (IF call.want.cores = Keep THEN asked.cores ELSE call.want.cores)
  <1>1. /\ call.want \in Request /\ h \in HandleType /\ asked \in WishType
        /\ call.op = "network" => ResolveNetMode(call.want.net) \in NetworkModes
    <2>1. InCall
      BY DEF InCall, Setting, Writing
    <2> QED BY <2>1, RequestFields, NetworkNames DEF Types, Shape, CallShape, CallType
  <1>2. Absent \in MemValues \cap CoreValues
    BY DEF MemValues, CoreValues
  <1>3. /\ call.want.mem # Keep => call.want.mem \in MemValues
        /\ call.want.cores # Keep => call.want.cores \in CoreValues
    BY <1>1, RequestFields
  <1>4. ASSUME Remembers
        PROVE  /\ h' \in HandleType /\ h'.dead = h.dead /\ h'.status = h.status
               /\ call.op = "network" =>
                    h'.res = h.res /\ h'.net = ResolveNetMode(call.want.net)
               /\ call.op # "network" =>
                    /\ h'.net = h.net
                    /\ h'.res.mem = (IF call.want.mem = Keep THEN Absent ELSE call.want.mem)
                    /\ h'.res.cores = (IF call.want.cores = Keep THEN Absent ELSE call.want.cores)
    <2>1. CASE call.op = "network"
      BY <1>1, <1>4, <2>1 DEF Remembers, HandleType
    <2>2. CASE call.op # "network"
      <3> DEFINE r == [k \in {"mem", "cores"} |->
                         IF call.want[k] = Keep THEN Absent ELSE call.want[k]]
      <3>1. h' = [h EXCEPT !.res = r]
        BY <1>4, <2>2 DEF Remembers
      <3>2. r \in [Key -> MemValues \cup CoreValues]
            /\ r["mem"] = (IF call.want.mem = Keep THEN Absent ELSE call.want.mem)
            /\ r["cores"] = (IF call.want.cores = Keep THEN Absent ELSE call.want.cores)
        BY <1>2, <1>3 DEF Key
      <3>3. r["mem"] \in MemValues /\ r["cores"] \in CoreValues
        BY <1>2, <1>3, <3>2
      <3> HIDE DEF r
      <3>4. h' \in HandleType
        BY <1>1, <3>1, <3>2, <3>3, HandleTyped
      <3> QED BY <1>1, <2>2, <3>1, <3>2, <3>4 DEF HandleType
    <2> QED BY <2>1, <2>2
  <1>5. ASSUME Granted
        PROVE  /\ asked' \in WishType
               /\ call.op = "network" =>
                    /\ asked'.network = ResolveNetMode(call.want.net)
                    /\ asked'.mem = asked.mem /\ asked'.cores = asked.cores
                    /\ asked'.port = asked.port
               /\ call.op # "network" =>
                    /\ asked'.network = asked.network /\ asked'.port = asked.port
                    /\ asked'.mem = (IF call.want.mem = Keep THEN asked.mem ELSE call.want.mem)
                    /\ asked'.cores = (IF call.want.cores = Keep THEN asked.cores ELSE call.want.cores)
    <2>1. CASE call.op = "network"
      BY <1>1, <1>5, <2>1 DEF Granted, WishType
    <2>2. CASE call.op # "network"
      BY <1>1, <1>3, <1>5, <2>2 DEF Granted, WishType
    <2> QED BY <2>1, <2>2
  <1> QED BY <1>4, <1>5

LEMMA BegunTyped ==
  ASSUME Types, NEW op \in {"resources", "network"}, NEW r \in Request, Begin(op, r)
  PROVE  Types'
  <1>1. NoCall \in CallType /\ [disk |-> disk, live |-> guest.live] \in Started
    BY NoCallTyped DEF Types, GuestType, Started
  <1>2. (cli = <<>>) \in BOOLEAN /\ (synced /\ plain) \in BOOLEAN
        /\ (synced /\ plain /\ Covers(r)) \in BOOLEAN
    OBVIOUS
  <1>3. call' \in CallType
    <2>1. ASSUME NEW b \in Started, NEW x \in BOOLEAN, NEW y \in BOOLEAN
          PROVE  [NoCall EXCEPT !.at = "probe", !.op = op, !.want = r, !.before = b,
                                !.alone = x, !.sure = y] \in CallType
      BY <1>1 DEF CallType
    <2> QED BY <1>1, <1>2, <2>1 DEF Begin
  <1>4. asked' \in WishType
    BY DEF Begin, Types, WishType, PortValues
  <1> QED BY <1>3, <1>4 DEF Begin, Types

LEMMA TypesKept == Types /\ Shape /\ [Next]_vars => Types'
  <1> SUFFICES ASSUME Types, Shape, [Next]_vars PROVE Types'
    OBVIOUS
  <1>0. /\ call \in CallType /\ NoCall \in CallType /\ guest \in GuestType
        /\ Down \in GuestType /\ mode \in Modes /\ disk \in Disks
        /\ h \in HandleType /\ cli \in Seq(Entry) /\ asked \in WishType
        /\ call.todo \in Seq(Entry) /\ <<>> \in Seq(Entry)
        /\ call.live \in Seq(Key) /\ call.undo \in Seq(Key)
    BY NoCallTyped, DownTyped, EmptySeq DEF Types, CallType
  <1>1. \A ok : Returns(ok) => call' \in CallType
    BY <1>0 DEF Returns
  <1>2. Overlaps => call' \in CallType
    BY <1>0, CallChanges DEF Overlaps
  <1>3. \A at \in Ats : Goes(at) => call' \in CallType
    <2> TAKE at \in Ats
    <2>1. [call EXCEPT !.at = at, !.todo = <<>>] \in CallType
      BY <1>0, CallChanges
    <2> QED BY <2>1 DEF Goes
  <1>4. \A y \in GuestType : Seen(y) => h' \in HandleType
    BY <1>0, HandleTyped DEF Seen, Status
  <1>5. ASSUME NEW s \in Seq(Entry), s # <<>>
        PROVE  Tail(s) \in Seq(Entry) /\ Done(disk, Head(s)) \in Disks
    BY <1>0, <1>5, FirstWrite, DoneTyped
  <1>6. ASSUME NEW k \in Key, NEW v, Limit(k, v),
               (k = "mem" => v \in MemValues) /\ (k = "cores" => v \in CoreValues)
        PROVE  guest' \in GuestType /\ disk' \in Disks
    BY <1>0, <1>6, GuestTyped DEF Limit, Key
  <1>10. CASE SetProbe
    <2>1. CASE call' = [call EXCEPT !.at = "live", !.live = ChangedKeys(call.want)]
      BY <1>0, <1>10, <2>1, CallChanges, KeySequences DEF SetProbe, Types
    <2> QED BY <1>0, <1>1, <1>3, <1>10, <2>1 DEF SetProbe, Types, Ats
  <1>11. CASE SetCheck
    <2>1. CASE call' = [call EXCEPT !.at = "write", !.todo = SetCmd(mode, disk, call.want)]
      BY <1>0, <1>11, <2>1, CallChanges, ListsTyped DEF SetCheck, Types, Ats
    <2> QED BY <1>0, <1>3, <1>11, <2>1 DEF SetCheck, Types, Ats
  <1>12. CASE SetWrite
    <2>1. disk' \in Disks /\ Tail(call.todo) \in Seq(Entry)
      BY <1>0, <1>5, <1>12 DEF SetWrite
    <2> QED BY <1>0, <1>12, <2>1, CallChanges DEF SetWrite, Types
  <1>13. CASE SetWriteFails
    BY <1>0, <1>1, <1>3, <1>13 DEF SetWriteFails, Types, Ats
  <1>14. CASE SetDone
    BY <1>0, <1>1, <1>14, RemembersTyped DEF SetDone, Types
  <1>15. CASE SetReverse
    <2>1. CASE call' = [call EXCEPT !.at = "rewrite", !.todo = SetCmd(mode, disk, OldParams)]
      BY <1>0, <1>15, <2>1, CallChanges, ListsTyped DEF SetReverse, Types, Ats
    <2> QED BY <1>0, <1>1, <1>15, <2>1 DEF SetReverse, Reverse, Types
  <1>16. CASE SetReversed
    BY <1>0, <1>1, <1>16 DEF SetReversed, Types
  <1>17. CASE LiveApply
    <2> DEFINE k == Head(call.live)
    <2>1. k \in Key /\ Tail(call.live) \in Seq(Key) /\ <<k>> \o call.undo \in Seq(Key)
          /\ Limit(k, call.want[k])
      BY <1>0, <1>17, KeySequences DEF LiveApply
    <2>2. call.want[k] # Keep
      BY <1>17 DEF LiveApply, Shape, CallShape
    <2>3. /\ k = "mem" => call.want[k] \in MemValues
          /\ k = "cores" => call.want[k] \in CoreValues
      BY <2>2, RequestFields DEF Types, CallType
    <2>4. call' \in CallType
      BY <1>0, <1>17, <2>1, CallChanges DEF LiveApply
    <2> HIDE DEF k
    <2> QED BY <1>0, <1>6, <1>17, <2>1, <2>3, <2>4 DEF LiveApply, Types
  <1>18. CASE LiveFails
    BY <1>0, <1>3, <1>18 DEF LiveFails, Types, Ats
  <1>19. CASE LiveKeep
    BY <1>0, <1>19, CallChanges, ListsTyped DEF LiveKeep, Types, Ats
  <1>20. CASE LiveKept
    BY <1>0, <1>1, <1>20, RemembersTyped DEF LiveKept, Types
  <1>21. CASE LiveUndo
    <2> DEFINE k == Head(call.undo)
    <2>1. k \in Key /\ Tail(call.undo) \in Seq(Key)
      BY <1>0, <1>21, KeySequences DEF LiveUndo
    <2>2. /\ k = "mem" => h.res[k] \in MemValues
          /\ k = "cores" => h.res[k] \in CoreValues
      BY <1>0 DEF HandleType
    <2>3. call' \in CallType
      BY <1>0, <1>21, <2>1, CallChanges DEF LiveUndo
    <2>4. Limit(k, h.res[k]) \/ UNCHANGED <<disk, guest>>
      BY <1>21 DEF LiveUndo
    <2>5. guest' \in GuestType /\ disk' \in Disks
      <3> HIDE DEF k
      <3> QED BY <1>0, <1>6, <2>1, <2>2, <2>4
    <2> QED BY <1>0, <1>21, <2>3, <2>5 DEF LiveUndo, Types
  <1>22. CASE LiveUnkeep
    BY <1>0, <1>22, CallChanges, ListsTyped DEF LiveUnkeep, Types, Ats
  <1>23. CASE StopWaited
    BY <1>0, <1>1, <1>4, <1>23 DEF StopWaited, Types
  <1>24. CASE StopExpires
    BY <1>0, <1>1, <1>4, <1>24 DEF StopExpires, Kill, Types
  <1>25. CASE \E b \in Bags : SetResources(b)
    BY <1>25, BagsTyped, BagTyped, BegunTyped DEF SetResources
  <1>26. CASE \E n \in Nets : SetNetwork(n)
    BY <1>26, LibraryAssumption, NetTyped, BegunTyped DEF SetNetwork
  <1>27. CASE \E op \in {"ask", "force", "kill"} : HandleStop(op)
    <2>1. PICK op \in {"ask", "force", "kill"} : HandleStop(op)
      BY <1>27
    <2>2. [NoCall EXCEPT !.at = "wait", !.op = op] \in CallType
      BY <1>0 DEF CallType
    <2> QED BY <1>0, <1>4, <2>1, <2>2 DEF HandleStop, Kill, Types
  <1>28. CASE \E b \in BOOLEAN : HandleDestroy(b)
    BY <1>0, <1>28, HandleTyped DEF HandleDestroy, Types
  <1>29. CASE \E b \in BOOLEAN : HandlePause(b)
    <2>1. PICK b \in BOOLEAN : HandlePause(b)
      BY <1>29
    <2>2. guest' \in GuestType
      BY <1>0, <2>1, GuestTyped DEF HandlePause
    <2>3. h' \in HandleType
      BY <1>0, <2>1, HandleTyped DEF HandlePause
    <2> QED BY <1>0, <2>1, <2>2, <2>3 DEF HandlePause, Types
  <1>30. CASE HandleStart
    <2>1. guest' \in GuestType
      BY <1>0, <1>30, GuestTyped DEF HandleStart, Up
    <2> QED BY <1>0, <1>4, <1>30, <2>1 DEF HandleStart, Types
  <1>31. CASE HandleRefresh
    BY <1>0, <1>31, LoadedTyped DEF HandleRefresh, Types
  <1>32. CASE HandleScrub
    <2>1. disk' \in Disks
      <3>1. Done(disk, [file |-> "sync"]) = Done(disk, [file |-> "sync", to |-> Absent])
        BY DEF Done
      <3>2. [file |-> "sync", to |-> Absent] \in Entry
        BY DEF Entry
      <3> QED BY <1>0, <1>32, <3>1, <3>2, DoneTyped DEF HandleScrub
    <2> QED BY <1>0, <1>4, <1>32, <2>1 DEF HandleScrub, Types
  <1>33. CASE \E r \in Requests : CliSet(r)
    <2>1. cli' \in Seq(Entry)
      BY <1>33, ListsTyped DEF CliSet
    <2>2. asked' \in WishType
      BY <1>0, <1>33 DEF CliSet, WishType, MemValues, CoreValues, PortValues
    <2> QED BY <1>0, <1>2, <1>33, <2>1, <2>2 DEF CliSet, Types
  <1>34. CASE CliWrite
    BY <1>0, <1>2, <1>5, <1>34 DEF CliWrite, Types
  <1>35. CASE CliDies
    BY <1>0, <1>2, <1>35 DEF CliDies, Types
  <1>36. CASE CliStart
    BY <1>0, <1>2, <1>36, GuestTyped DEF CliStart, Up, Types
  <1>37. CASE GoesDown
    BY <1>0, <1>2, <1>37 DEF GoesDown, Types
  <1>38. CASE \E b \in BOOLEAN : CliPause(b)
    BY <1>0, <1>2, <1>38, GuestTyped DEF CliPause, Types
  <1>39. CASE UNCHANGED vars
    BY <1>39 DEF vars, Types
  <1> QED BY <1>10, <1>11, <1>12, <1>13, <1>14, <1>15, <1>16, <1>17, <1>18,
             <1>19, <1>20, <1>21, <1>22, <1>23, <1>24, <1>25, <1>26, <1>27,
             <1>28, <1>29, <1>30, <1>31, <1>32, <1>33, <1>34, <1>35, <1>36,
             <1>37, <1>38, <1>39
          DEF Next, Step, SetStep, LiveStep, Handle, Others

LEMMA GuestShapeKept == Types /\ Shape /\ [Next]_vars => GuestShape'
  <1> SUFFICES ASSUME Types, Shape, [Next]_vars PROVE GuestShape'
    OBVIOUS
  <1>0. /\ Down.up = FALSE /\ Down.paused = FALSE /\ call \in CallType
        /\ h \in HandleType /\ guest \in GuestType /\ disk \in Disks
        /\ GuestShape /\ CallShape
    BY DownTyped DEF Types, Shape
  <1>1. (\A ok : Returns(ok) => call' = NoCall) /\ (h.dead => call.at = "idle")
    BY <1>0, NoCallTyped DEF Returns, GuestShape
  <1>2. \A y : Seen(y) => h'.dead = h.dead
    BY <1>0 DEF Seen, HandleType
  <1>3. Overlaps /\ call = NoCall => call' = NoCall
    <2>1. \A c \in CallType : c.alone = FALSE => [c EXCEPT !.alone = FALSE] = c
      BY DEF CallType
    <2> QED BY <2>1, NoCallTyped DEF Overlaps
  <1>4. h.dead => call = NoCall /\ ~guest.up /\ call.at = "idle"
    BY <1>0, NoCallTyped DEF GuestShape
  <1>5. ASSUME call.at # "idle", h'.dead = h.dead \/ h' = h, UNCHANGED <<guest, mode>>
        PROVE  GuestShape'
    BY <1>0, <1>4, <1>5 DEF GuestShape
  <1>6. ASSUME call.at # "idle", NEW k \in Key, NEW v, h' = h, mode' = mode,
               Limit(k, v) \/ guest' = guest
        PROVE  GuestShape'
    BY <1>0, <1>4, <1>6 DEF GuestShape, Limit, GuestType
  <1>10. CASE SetProbe \/ SetCheck \/ SetWrite \/ SetWriteFails \/ SetReverse
              \/ SetReversed \/ LiveFails \/ LiveKeep \/ LiveUnkeep
    BY <1>5, <1>10 DEF SetProbe, SetCheck, SetWrite, SetWriteFails, SetReverse,
                       SetReversed, LiveFails, LiveKeep, LiveUnkeep, Writing
  <1>11. CASE SetDone \/ LiveKept
    BY <1>5, <1>11, RemembersTyped DEF SetDone, LiveKept
  <1>12. CASE LiveApply
    BY <1>6, <1>12, KeySequences DEF LiveApply, Types, CallType
  <1>13. CASE LiveUndo
    BY <1>6, <1>13, KeySequences DEF LiveUndo, Types, CallType
  <1>14. CASE StopWaited
    BY <1>2, <1>5, <1>14 DEF StopWaited
  <1>15. CASE StopExpires
    BY <1>0, <1>1, <1>2, <1>4, <1>15 DEF StopExpires, Kill, GuestShape
  <1>16. CASE (\E b \in Bags : SetResources(b)) \/ (\E n \in Nets : SetNetwork(n))
    BY <1>0, <1>16 DEF SetResources, SetNetwork, Begin, Idle, GuestShape
  <1>17. CASE \E op \in {"ask", "force", "kill"} : HandleStop(op)
    BY <1>0, <1>2, <1>17 DEF HandleStop, Kill, Idle, GuestShape
  <1>18. CASE \E b \in BOOLEAN : HandleDestroy(b)
    BY <1>0, <1>18 DEF HandleDestroy, Idle, GuestShape, CallShape
  <1>19. CASE \E b \in BOOLEAN : HandlePause(b)
    BY <1>0, <1>19 DEF HandlePause, Idle, GuestShape, GuestType, HandleType
  <1>20. CASE HandleStart
    BY <1>0, <1>2, <1>20 DEF HandleStart, Idle, GuestShape, Up
  <1>21. CASE HandleRefresh
    BY <1>0, <1>21, LoadedTyped DEF HandleRefresh, Idle, GuestShape
  <1>22. CASE HandleScrub
    BY <1>0, <1>2, <1>22 DEF HandleScrub, Idle, GuestShape
  <1>23. CASE (\E r \in Requests : CliSet(r)) \/ CliWrite \/ CliDies
    BY <1>0, <1>3, <1>23 DEF CliSet, CliWrite, CliDies, GuestShape
  <1>24. CASE CliStart
    BY <1>0, <1>24 DEF CliStart, Up, GuestShape
  <1>25. CASE GoesDown
    BY <1>0, <1>3, <1>25 DEF GoesDown, GuestShape
  <1>26. CASE \E b \in BOOLEAN : CliPause(b)
    BY <1>0, <1>26 DEF CliPause, GuestShape, GuestType
  <1>27. CASE UNCHANGED vars
    BY <1>0, <1>27 DEF vars, GuestShape
  <1> QED BY <1>10, <1>11, <1>12, <1>13, <1>14, <1>15, <1>16, <1>17, <1>18,
             <1>19, <1>20, <1>21, <1>22, <1>23, <1>24, <1>25, <1>26, <1>27
          DEF Next, Step, SetStep, LiveStep, Handle, Others

\* The steps of a setter or a live change that only go on with the call.
LEMMA CallGoesOn ==
  ASSUME Types, CallShape, InCall, call' \in CallType,
         call'.op = call.op, call'.want = call.want, call'.before = call.before,
         call'.live = call.live, call'.undo = call.undo,
         call'.at # "idle", call'.todo # <<>> => Writing', LivePath' => LivePath,
         call'.at = "unkeep" => call.undo = <<>>,
         UNCHANGED <<mode, h, asked>>
  PROVE  CallShape'
  BY DEF CallShape

LEMMA CallOver ==
  ASSUME call' = NoCall
  PROVE  CallShape'
  <1>1. /\ call'.at = "idle" /\ call'.todo = <<>> /\ Len(call'.live) = 0
        /\ Len(call'.undo) = 0
    BY NoCallTyped
  <1>2. ~InCall' /\ ~LivePath'
    BY <1>1 DEF InCall, LivePath, Setting, Writing
  <1> QED BY <1>1, <1>2 DEF CallShape

\* What somebody else does, and the calls of a single step.
LEMMA CallStands ==
  ASSUME Types, CallShape, Overlaps \/ UNCHANGED call, UNCHANGED mode,
         call = NoCall \/ h'.res = h.res,
         asked'.port = asked.port \/ asked'.port = Absent
  PROVE  CallShape'
  <1>1. CASE call = NoCall
    <2>1. call' = NoCall
      <3>1. \A c \in CallType : c.alone = FALSE => [c EXCEPT !.alone = FALSE] = c
        BY DEF CallType
      <3> QED BY <1>1, <3>1, NoCallTyped DEF Overlaps
    <2> QED BY <2>1, CallOver
  <1>2. CASE call # NoCall
    <2>1. /\ call'.at = call.at /\ call'.op = call.op /\ call'.want = call.want
          /\ call'.todo = call.todo /\ call'.live = call.live
          /\ call'.undo = call.undo /\ call'.before = call.before
      BY DEF Overlaps, Types, CallType
    <2>2. (InCall' <=> InCall) /\ (LivePath' <=> LivePath) /\ (Writing' <=> Writing)
          /\ h'.res = h.res /\ call.at # "idle"
      BY <1>2, <2>1 DEF InCall, LivePath, Writing, Setting, CallShape
    <2> QED BY <2>1, <2>2 DEF CallShape
  <1> QED BY <1>1, <1>2

LEMMA CallBegins ==
  ASSUME Types, NEW op \in {"resources", "network"}, NEW r \in Request, Begin(op, r),
         r.port = Keep, r.mem # Absent, r.cores # Absent,
         op = "network" => r.net # Keep /\ r.mem = Keep /\ r.cores = Keep,
         op = "resources" => r.net = Keep
  PROVE  CallShape'
  <1>1. [disk |-> disk, live |-> guest.live] \in Started
    BY DEF Types, GuestType, Started
  <1>2. /\ call'.at = "probe" /\ call'.op = op /\ call'.want = r
        /\ call'.todo = <<>> /\ Len(call'.live) = 0 /\ Len(call'.undo) = 0
        /\ call'.before \in Started
    BY <1>1 DEF Begin, NoCall
  <1>3. op = "network" => asked'.port = Absent
    BY DEF Begin, Types, WishType
  <1> QED BY <1>2, <1>3 DEF CallShape, InCall, LivePath, Setting, Writing

In(k, s) == \E i \in 1 .. Len(s) : s[i] = k

LEMMA ChangedKeysAre ==
  ASSUME NEW r
  PROVE  /\ \A i \in 1 .. Len(ChangedKeys(r)) : r[ChangedKeys(r)[i]] # Keep
         /\ \A k \in Key : ~In(k, ChangedKeys(r)) => r[k] = Keep \/ r[k] = h.res[k]
  <1> DEFINE s == Changed("mem", r)
             t == Changed("cores", r)
  <1>1. /\ s = <<>> \/ (s = <<"mem">> /\ r["mem"] # Keep)
        /\ t = <<>> \/ (t = <<"cores">> /\ r["cores"] # Keep)
        /\ s = <<>> => r["mem"] = Keep \/ r["mem"] = h.res["mem"]
        /\ t = <<>> => r["cores"] = Keep \/ r["cores"] = h.res["cores"]
    BY DEF Changed
  <1>2. ChangedKeys(r) = s \o t
    BY DEF ChangedKeys
  <1> HIDE DEF s, t
  <1>3. CASE s = <<>> /\ t = <<>>
    BY <1>1, <1>2, <1>3 DEF Key
  <1>4. CASE s = <<>> /\ t = <<"cores">>
    <2>1. s \o t = <<"cores">>
      BY <1>4
    <2> QED BY <1>1, <1>2, <1>4, <2>1 DEF Key, In
  <1>5. CASE s = <<"mem">> /\ t = <<>>
    <2>1. s \o t = <<"mem">>
      BY <1>5
    <2> QED BY <1>1, <1>2, <1>5, <2>1 DEF Key, In
  <1>6. CASE s = <<"mem">> /\ t = <<"cores">>
    <2>1. /\ s \in Seq(Key) /\ t \in Seq(Key) /\ Len(s) = 1 /\ Len(t) = 1
          /\ s[1] = "mem" /\ t[1] = "cores"
      BY <1>6 DEF Key
    <2>2. /\ Len(s \o t) = 2
          /\ \A i \in 1 .. 2 : (s \o t)[i] = IF i <= 1 THEN s[i] ELSE t[i - 1]
      BY <2>1, ConcatProperties
    <2>3. /\ Len(s \o t) = 2 /\ (s \o t)[1] = "mem" /\ (s \o t)[2] = "cores"
      BY <2>1, <2>2
    <2>4. \A i \in 1 .. Len(s \o t) : i = 1 \/ i = 2
      BY <2>3
    <2>5. In("mem", s \o t) /\ In("cores", s \o t)
      BY <2>3 DEF In
    <2> QED BY <1>1, <1>2, <1>6, <2>3, <2>4, <2>5 DEF Key
  <1> QED BY <1>1, <1>3, <1>4, <1>5, <1>6

LEMMA KeyRest ==
  ASSUME NEW s \in Seq(Key), s # <<>>
  PROVE  /\ Head(s) = s[1] /\ Len(s) \in Nat \ {0} /\ Len(Tail(s)) = Len(s) - 1
         /\ \A i \in 1 .. Len(Tail(s)) : i + 1 \in 1 .. Len(s) /\ Tail(s)[i] = s[i + 1]
         /\ \A k : In(k, s) => k = Head(s) \/ In(k, Tail(s))
  <1>1. Tail(s) \in Seq(Key) /\ Len(Tail(s)) = Len(s) - 1 /\ Head(s) = s[1]
        /\ Len(s) \in Nat \ {0} /\ \A i \in 1 .. Len(Tail(s)) : Tail(s)[i] = s[i + 1]
    BY HeadTailProperties, EmptySeq
  <1>2. ASSUME NEW k, NEW i \in 1 .. Len(s), s[i] = k, i # 1
        PROVE  In(k, Tail(s))
    <2>1. i - 1 \in 1 .. Len(Tail(s)) /\ Tail(s)[i - 1] = s[i]
      BY <1>1, <1>2
    <2> QED BY <1>2, <2>1 DEF In
  <1>3. \A k : In(k, s) => k = Head(s) \/ In(k, Tail(s))
    BY <1>1, <1>2 DEF In
  <1> QED BY <1>1, <1>3

LEMMA KeyFirst ==
  ASSUME NEW s \in Seq(Key), NEW k \in Key
  PROVE  /\ \A j : In(j, s) => In(j, <<k>> \o s)
         /\ In(k, <<k>> \o s)
         /\ \A i \in 1 .. Len(<<k>> \o s) :
              (<<k>> \o s)[i] = k \/ \E j \in 1 .. Len(s) : (<<k>> \o s)[i] = s[j]
  <1>1. <<k>> \in Seq(Key) /\ Len(<<k>>) = 1 /\ <<k>>[1] = k /\ Len(s) \in Nat
    BY LenProperties
  <1>2. /\ Len(<<k>> \o s) = Len(s) + 1
        /\ \A i \in 1 .. Len(s) + 1 :
             (<<k>> \o s)[i] = IF i <= 1 THEN <<k>>[i] ELSE s[i - 1]
    BY <1>1, ConcatProperties
  <1>3. (<<k>> \o s)[1] = k /\ \A i \in 1 .. Len(s) : (<<k>> \o s)[i + 1] = s[i]
    BY <1>1, <1>2
  <1>4. In(k, <<k>> \o s)
    BY <1>1, <1>2, <1>3 DEF In
  <1>5. \A j : In(j, s) => In(j, <<k>> \o s)
    <2> SUFFICES ASSUME NEW i \in 1 .. Len(s) PROVE In(s[i], <<k>> \o s)
      BY DEF In
    <2>1. i + 1 \in 1 .. Len(<<k>> \o s) /\ (<<k>> \o s)[i + 1] = s[i]
      BY <1>1, <1>2, <1>3
    <2> QED BY <2>1 DEF In
  <1>6. \A i \in 1 .. Len(<<k>> \o s) :
          (<<k>> \o s)[i] = k \/ \E j \in 1 .. Len(s) : (<<k>> \o s)[i] = s[j]
    <2> TAKE i \in 1 .. Len(<<k>> \o s)
    <2>1. CASE i = 1
      BY <1>3, <2>1
    <2>2. CASE i # 1
      <3>1. i - 1 \in 1 .. Len(s) /\ (<<k>> \o s)[i] = s[i - 1]
        BY <1>1, <1>2, <2>2
      <3> QED BY <3>1
    <2> QED BY <2>1, <2>2
  <1> QED BY <1>4, <1>5, <1>6

LEMMA CallShapeKept == Types /\ Shape /\ [Next]_vars => CallShape'
  <1> SUFFICES ASSUME Types, Shape, [Next]_vars PROVE CallShape'
    OBVIOUS
  <1>0. /\ GuestShape /\ CallShape /\ call \in CallType /\ call' \in CallType
        /\ call.live \in Seq(Key) /\ call.undo \in Seq(Key) /\ h \in HandleType
    BY TypesKept DEF Types, Shape, CallType
  <1>1. \A ok : Returns(ok) => CallShape'
    BY CallOver DEF Returns
  <1>2. ASSUME NEW a \in {"set", "reverse", "unlive"}, Goes(a), InCall,
               a = "unlive" => LivePath, UNCHANGED <<mode, h, asked>>
        PROVE  CallShape'
    <2>1. /\ call'.at = a /\ call'.todo = <<>> /\ call'.op = call.op
          /\ call'.want = call.want /\ call'.before = call.before
          /\ call'.live = call.live /\ call'.undo = call.undo
      BY <1>0, <1>2, CallFields DEF Goes
    <2>2. LivePath' => LivePath
      BY <1>2, <2>1 DEF LivePath
    <2> QED BY <1>0, <1>2, <2>1, <2>2, CallGoesOn
  <1>3. ASSUME NEW a \in {"write", "rewrite", "keep", "unkeep"}, NEW s,
               call' = [call EXCEPT !.at = a, !.todo = s], InCall,
               a \in {"keep", "unkeep"} => LivePath,
               a = "unkeep" => call.undo = <<>>, UNCHANGED <<mode, h, asked>>
        PROVE  CallShape'
    <2>1. /\ call'.at = a /\ call'.todo = s /\ call'.op = call.op
          /\ call'.want = call.want /\ call'.before = call.before
          /\ call'.live = call.live /\ call'.undo = call.undo
      BY <1>0, <1>3, CallFields
    <2>2. Writing' /\ (LivePath' => LivePath)
      BY <1>3, <2>1 DEF Writing, LivePath
    <2> QED BY <1>0, <1>3, <2>1, <2>2, CallGoesOn
  <1>4. h.dead => call = NoCall /\ call.at = "idle"
    BY <1>0, NoCallTyped DEF GuestShape
  <1>5. call.at = "idle" => call = NoCall
    BY <1>0 DEF CallShape
  <1>10. CASE SetProbe
    <2>1. CASE call' = [call EXCEPT !.at = "live", !.live = ChangedKeys(call.want)]
               /\ call.op # "network" /\ ~IsVm(mode)
      <3>1. /\ call'.at = "live" /\ call'.live = ChangedKeys(call.want)
            /\ call'.op = call.op /\ call'.want = call.want /\ call'.todo = call.todo
            /\ call'.before = call.before /\ call'.undo = call.undo
        BY <1>0, <2>1 DEF CallType
      <3>2. InCall /\ call.todo = <<>>
        BY <1>0, <1>10 DEF SetProbe, InCall, CallShape, Writing
      <3> QED BY <1>0, <1>10, <2>1, <3>1, <3>2, ChangedKeysAre
              DEF SetProbe, CallShape
    <2>2. CASE Goes("set")
      BY <1>2, <1>10, <2>2 DEF SetProbe, InCall
    <2> QED BY <1>1, <1>10, <2>1, <2>2 DEF SetProbe
  <1>11. CASE SetCheck
    BY <1>2, <1>3, <1>11 DEF SetCheck, InCall
  <1>12. CASE SetWrite
    <2>1. /\ call'.at = call.at /\ call'.todo = Tail(call.todo) /\ call'.op = call.op
          /\ call'.want = call.want /\ call'.before = call.before
          /\ call'.live = call.live /\ call'.undo = call.undo
      BY <1>0, <1>12 DEF SetWrite, CallType
    <2>2. Writing' /\ (LivePath' => LivePath) /\ InCall /\ call.at # "idle"
      BY <1>12, <2>1 DEF SetWrite, Writing, LivePath, InCall, Setting
    <2> QED BY <1>0, <1>12, <2>1, <2>2, CallGoesOn DEF SetWrite, CallShape
  <1>13. CASE SetWriteFails
    <2>1. InCall
      BY <1>13 DEF SetWriteFails, InCall, Setting
    <2> QED BY <1>1, <1>2, <1>13, <2>1 DEF SetWriteFails, LivePath
  <1>14. CASE SetDone
    BY <1>1, <1>14 DEF SetDone
  <1>15. CASE SetReverse
    BY <1>1, <1>3, <1>15 DEF SetReverse, InCall, Setting
  <1>16. CASE SetReversed
    BY <1>1, <1>16 DEF SetReversed
  <1>17. CASE LiveApply
    <2> DEFINE k == Head(call.live)
    <2>1. /\ k = call.live[1] /\ 1 \in 1 .. Len(call.live)
          /\ \A i \in 1 .. Len(Tail(call.live)) :
               /\ i + 1 \in 1 .. Len(call.live)
               /\ Tail(call.live)[i] = call.live[i + 1]
      BY <1>0, <1>17, KeyRest DEF LiveApply
    <2>2. /\ call'.at = "live" /\ call'.live = Tail(call.live) /\ call'.op = call.op
          /\ call'.want = call.want /\ call'.todo = call.todo
          /\ call'.before = call.before
          /\ call'.undo = IF h.res[k] = Absent THEN call.undo ELSE <<k>> \o call.undo
      BY <1>0, <1>17 DEF LiveApply, CallType
    <2>3. k \in Key /\ call.want[k] # Keep
      BY <1>0, <1>17, <2>1, KeySequences DEF LiveApply, CallShape
    <2>4. InCall /\ LivePath /\ ~Writing /\ call.at = "live"
      BY <1>17 DEF LiveApply, InCall, LivePath, Setting, Writing
    <2> HIDE DEF k
    <2>5. \A i \in 1 .. Len(call'.live) : call.want[call'.live[i]] # Keep
      BY <1>0, <2>1, <2>2 DEF CallShape
    <2>6. \A i \in 1 .. Len(call'.undo) : /\ call.want[call'.undo[i]] # Keep
                                          /\ h.res[call'.undo[i]] # Absent
      <3>1. CASE h.res[k] = Absent
        BY <1>0, <2>2, <3>1 DEF CallShape
      <3>2. CASE h.res[k] # Absent
        <4>1. call'.undo = <<k>> \o call.undo
          BY <2>2, <3>2
        <4>2. \A i \in 1 .. Len(call'.undo) :
                call'.undo[i] = k \/ \E j \in 1 .. Len(call.undo) : call'.undo[i] = call.undo[j]
          BY <1>0, <2>3, <4>1, KeyFirst
        <4> QED BY <1>0, <2>3, <3>2, <4>2 DEF CallShape
      <3> QED BY <3>1, <3>2
    <2>7. UNCHANGED <<mode, h, asked>>
      BY <1>17 DEF LiveApply
    <2> QED BY <1>0, <2>2, <2>4, <2>5, <2>6, <2>7 DEF CallShape
  <1>18. CASE LiveFails
    BY <1>2, <1>18 DEF LiveFails, InCall, LivePath, Setting
  <1>19. CASE LiveKeep
    BY <1>3, <1>19 DEF LiveKeep, InCall, LivePath, Setting
  <1>20. CASE LiveKept
    BY <1>1, <1>20 DEF LiveKept
  <1>21. CASE LiveUndo
    <2>1. \A i \in 1 .. Len(Tail(call.undo)) :
               /\ i + 1 \in 1 .. Len(call.undo)
               /\ Tail(call.undo)[i] = call.undo[i + 1]
      BY <1>0, <1>21, KeyRest DEF LiveUndo
    <2>2. /\ call'.at = "unlive" /\ call'.live = call.live /\ call'.op = call.op
          /\ call'.want = call.want /\ call'.todo = call.todo
          /\ call'.before = call.before /\ call'.undo = Tail(call.undo)
      BY <1>0, <1>21 DEF LiveUndo, CallType
    <2>3. InCall /\ LivePath /\ ~Writing
      BY <1>21 DEF LiveUndo, InCall, LivePath, Setting, Writing
    <2>4. \A i \in 1 .. Len(call'.undo) : /\ call.want[call'.undo[i]] # Keep
                                          /\ h.res[call'.undo[i]] # Absent
      BY <1>0, <2>1, <2>2 DEF CallShape
    <2>5. UNCHANGED <<mode, h, asked>>
      BY <1>21 DEF LiveUndo
    <2> QED BY <1>0, <2>2, <2>3, <2>4, <2>5 DEF CallShape
  <1>22. CASE LiveUnkeep
    BY <1>3, <1>22 DEF LiveUnkeep, InCall, LivePath, Setting
  <1>23. CASE StopWaited \/ StopExpires
    BY <1>1, <1>23 DEF StopWaited, StopExpires
  <1>24. CASE \E b \in Bags : SetResources(b)
    <2>1. PICK b \in Bags : SetResources(b)
      BY <1>24
    <2>2. Named(b.mem) # Absent /\ Named(b.cores) # Absent
      BY KeepApart DEF Named
    <2> QED BY <2>1, <2>2, BagsTyped, BagTyped, CallBegins DEF SetResources
  <1>25. CASE \E n \in Nets : SetNetwork(n)
    <2>1. PICK n \in Nets : SetNetwork(n)
      BY <1>25
    <2>2. n \in NetworkModes /\ NetworkParam(n) \in NetNames
      BY LibraryAssumption, NetworkNames
    <2> QED BY <2>1, <2>2, NetTyped, KeepApart, CallBegins DEF SetNetwork
  <1>26. CASE \E op \in {"ask", "force", "kill"} : HandleStop(op)
    <2>1. PICK op \in {"ask", "force", "kill"} : HandleStop(op)
      BY <1>26
    <2>2. call = NoCall
      BY <1>5, <2>1 DEF HandleStop, Idle
    <2>3. CASE UNCHANGED call
      BY <2>2, <2>3, CallOver
    <2>4. CASE call' = [NoCall EXCEPT !.at = "wait", !.op = op]
      <3>1. /\ call'.at = "wait" /\ call'.todo = <<>> /\ Len(call'.live) = 0
            /\ Len(call'.undo) = 0
        BY <2>4, NoCallTyped DEF CallType
      <3> QED BY <3>1 DEF CallShape, InCall, LivePath, Setting, Writing
    <2> QED BY <2>1, <2>3, <2>4 DEF HandleStop
  <1>27. CASE (\E b \in BOOLEAN : HandleDestroy(b) \/ HandlePause(b))
              \/ HandleStart \/ HandleRefresh \/ HandleScrub
    <2>1. Idle /\ UNCHANGED call
      BY <1>27 DEF HandleDestroy, HandlePause, HandleStart, HandleRefresh, HandleScrub
    <2> QED BY <1>5, <2>1, CallOver DEF Idle
  <1>28. CASE \E r \in Requests : CliSet(r)
    BY <1>0, <1>28, CallStands DEF CliSet, Types, WishType
  <1>29. CASE CliWrite \/ CliDies \/ CliStart \/ GoesDown
    BY <1>0, <1>29, CallStands DEF CliWrite, CliDies, CliStart, GoesDown
  <1>30. CASE \E b \in BOOLEAN : CliPause(b)
    BY <1>0, <1>30, CallStands DEF CliPause
  <1>31. CASE UNCHANGED vars
    BY <1>0, <1>31, CallStands DEF vars
  <1> QED BY <1>10, <1>11, <1>12, <1>13, <1>14, <1>15, <1>16, <1>17, <1>18,
             <1>19, <1>20, <1>21, <1>22, <1>23, <1>24, <1>25, <1>26, <1>27,
             <1>28, <1>29, <1>30, <1>31
          DEF Next, Step, SetStep, LiveStep, Handle, Others

\* Every field has a value of its type in every reachable state, with the
\* files of the instance among Disks: no list of writes, and no change of a
\* limit, leaves a file with something that is none of its values.
THEOREM LibraryTypeOK == Spec => []TypeOK
  <1>1. Types /\ Shape /\ [Next]_vars => (Types /\ Shape)'
    BY TypesKept, GuestShapeKept, CallShapeKept DEF Shape
  <1>2. Types /\ Shape => TypeOK
    <2> SUFFICES ASSUME Types, Shape PROVE TypeOK
      OBVIOUS
    <2>1. /\ guest.live \in [mem : MemValues, cores : CoreValues, port : PortValues]
          /\ h.res \in [mem : MemValues, cores : CoreValues]
          /\ h.status \in {"RUNNING", "STOPPED", "SUSPENDED"}
          /\ Setting \/ call.at \in {"idle", "probe", "set", "wait"}
      BY DEF Types, GuestType, Limits, HandleType, CallType, Setting, Writing
    <2> QED BY <2>1 DEF TypeOK, Types, Shape, GuestShape, CallShape
  <1> QED BY InitTyped, <1>1, <1>2, PTL DEF Spec

-------------------------------------------------------------------------------
(* The status of the handle. *)

LEMMA StatusKept == Types /\ Shape /\ StatusTrue /\ [Next]_vars => StatusTrue'
  <1> SUFFICES ASSUME Types, Shape, StatusTrue, [Next]_vars PROVE StatusTrue'
    OBVIOUS
  <1>0. /\ Down.up = FALSE /\ Down.paused = FALSE /\ call \in CallType
        /\ h \in HandleType /\ guest \in GuestType /\ (h.dead => ~guest.up)
        /\ h.dead => call.at = "idle"
    BY DownTyped, NoCallTyped DEF Types, Shape, GuestShape
  <1>1. ASSUME NEW y \in GuestType, Seen(y), guest' = y
        PROVE  StatusTrue'
    BY <1>0, <1>1 DEF Seen, Status, StatusTrue, HandleType
  <1>2. ASSUME UNCHANGED <<guest, told>>, h'.status = h.status, h'.dead = h.dead
        PROVE  StatusTrue'
    BY <1>2 DEF StatusTrue
  <1>3. told' = FALSE => StatusTrue'
    BY DEF StatusTrue
  <1>4. ASSUME NEW k, NEW v, Limit(k, v) PROVE guest'.up = guest.up /\ guest'.paused = guest.paused
    BY <1>0, <1>4 DEF Limit, GuestType
  <1>10. CASE SetProbe \/ SetCheck \/ SetWrite \/ SetWriteFails \/ SetReverse
              \/ SetReversed \/ LiveFails \/ LiveKeep \/ LiveUnkeep
    BY <1>2, <1>10 DEF SetProbe, SetCheck, SetWrite, SetWriteFails, SetReverse,
                       SetReversed, LiveFails, LiveKeep, LiveUnkeep
  <1>11. CASE SetDone \/ LiveKept
    BY <1>2, <1>11, RemembersTyped DEF SetDone, LiveKept
  <1>12. CASE LiveApply \/ LiveUndo
    BY <1>4, <1>12 DEF LiveApply, LiveUndo, StatusTrue
  <1>13. CASE StopWaited
    BY <1>0, <1>1, <1>13 DEF StopWaited
  <1>14. CASE StopExpires
    BY <1>0, <1>1, <1>2, <1>14, DownTyped DEF StopExpires, Kill
  <1>15. CASE (\E b \in Bags : SetResources(b)) \/ (\E n \in Nets : SetNetwork(n))
    BY <1>2, <1>15 DEF SetResources, SetNetwork, Begin
  <1>16. CASE \E op \in {"ask", "force", "kill"} : HandleStop(op)
    BY <1>1, <1>2, <1>16, DownTyped DEF HandleStop, Kill
  <1>17. CASE \E b \in BOOLEAN : HandleDestroy(b)
    BY <1>0, <1>3, <1>17 DEF HandleDestroy, StatusTrue, HandleType
  <1>18. CASE \E b \in BOOLEAN : HandlePause(b)
    <2>1. PICK b \in BOOLEAN : HandlePause(b)
      BY <1>18
    <2>2. guest'.up = guest.up /\ guest'.paused = b
          /\ h'.status = IF b THEN "SUSPENDED" ELSE "RUNNING"
      BY <1>0, <2>1 DEF HandlePause, GuestType, HandleType
    <2> QED BY <2>1, <2>2 DEF HandlePause, StatusTrue
  <1>19. CASE HandleStart
    <2>1. guest' \in GuestType
      BY TypesKept DEF Types
    <2>2. Seen(guest') => h'.status = Status(guest') /\ h'.dead = h.dead /\ told'
      BY <1>0 DEF Seen, HandleType
    <2> QED BY <1>19, <2>1, <2>2 DEF HandleStart, StatusTrue, Status
  <1>20. CASE HandleRefresh
    BY <1>0, <1>20, LoadedTyped DEF HandleRefresh, StatusTrue, Status, Types
  <1>21. CASE HandleScrub
    BY <1>0, <1>1, <1>21 DEF HandleScrub
  <1>22. CASE (\E r \in Requests : CliSet(r)) \/ CliWrite \/ CliDies
    BY <1>2, <1>22 DEF CliSet, CliWrite, CliDies
  <1>23. CASE CliStart \/ GoesDown \/ (\E b \in BOOLEAN : CliPause(b))
    BY <1>3, <1>23 DEF CliStart, GoesDown, CliPause
  <1>24. CASE UNCHANGED vars
    BY <1>2, <1>24 DEF vars
  <1> QED BY <1>10, <1>11, <1>12, <1>13, <1>14, <1>15, <1>16, <1>17, <1>18,
             <1>19, <1>20, <1>21, <1>22, <1>23, <1>24
          DEF Next, Step, SetStep, LiveStep, Handle, Others

\* The status of a handle is that of the guest, through every stop that
\* waits, kills or gives up, unless somebody else changed the guest since the
\* handle looked; a running guest never shows as paused.
THEOREM LibraryStatusTrue == Spec => []StatusTrue
  <1>1. Init => StatusTrue
    <2> SUFFICES ASSUME Init PROVE StatusTrue
      OBVIOUS
    <2>1. guest = Down /\ h = Loaded(disk, guest) /\ disk \in Disks
      BY InitTyped DEF Init, Types
    <2>2. guest.up = FALSE /\ h.status = "STOPPED"
      BY <2>1, LoadedTyped, DownTyped DEF Status
    <2> QED BY <2>2 DEF StatusTrue
  <1>2. Types /\ Shape /\ [Next]_vars => (Types /\ Shape)'
    BY TypesKept, GuestShapeKept, CallShapeKept DEF Shape
  <1> QED BY InitTyped, StatusKept, <1>1, <1>2, PTL DEF Spec

-------------------------------------------------------------------------------
(* What a disk is to the rest of the state.                                *)

\* The copies agree, and there are no more cores than the host has.
Whole(m, d) == Agree(m, d) /\ Clamped(m, d.cores) = d.cores

\* A disk has the network that was asked for, or a bridge where none was named.
Fits(type, net) == net = type \/ (type = "unnamed" /\ net = "bridge")

\* Apart from what the request w gives: the handle x remembers d, and d is
\* what the wishes a say.
Cached(m, x, w, d) ==
  /\ w.net = Keep => Fits(NetworkParam(x.net), d.net)
  /\ w.mem = Keep /\ x.res.mem # Absent => x.res.mem = d.mem
  /\ w.cores = Keep /\ x.res.cores # Absent => d.cores = Clamped(m, x.res.cores)
Wished(m, a, w, d) ==
  /\ w.net = Keep /\ a.network # Absent => Fits(NetworkParam(a.network), d.net)
  /\ w.mem = Keep /\ a.mem # Absent => d.mem = a.mem
  /\ w.cores = Keep /\ a.cores # Absent => d.cores = Clamped(m, a.cores)
  /\ a.port # Absent /\ (IsVm(m) => d.net = "usermode") => d.port = a.port

\* The guest y runs with what d says.
Runs(m, y, d) ==
  y.up => /\ d.mem # Absent => y.live.mem = d.mem
          /\ d.cores # Absent => y.live.cores = d.cores
          /\ IsVm(m) => y.live.port = d.port

\* The disk d has what the request w gives.
Meets(m, w, d) ==
  /\ w.mem # Keep => d.mem = w.mem
  /\ w.cores # Keep => d.cores = Clamped(m, w.cores)
  /\ w.net # Keep => Fits(w.net, d.net)

LEMMA ClampedTwice ==
  \A m \in Modes : \A c : Clamped(m, Clamped(m, c)) = Clamped(m, c)
  BY SettingsAssumption DEF Clamped

\* A set, of which the sizes and the network stay where the request says Keep.
LEMMA SetLeads ==
  ASSUME NEW m \in Modes, NEW d \in Disks, NEW r \in Request, Whole(m, d)
  PROVE  \E g \in Disks :
           /\ SetCmd(m, d, r) \in Seq(Entry) /\ Reaches(SetCmd(m, d, r), d, g)
           /\ Whole(m, g) /\ Meets(m, r, g)
           /\ r.mem = Keep => g.mem = d.mem
           /\ r.cores = Keep => g.cores = d.cores
           /\ ~GivesNet(r) => g.net = d.net /\ g.port = d.port
  <1> DEFINE q == ClampVmCapacity(m, r)
             g == After(m, d, q)
  <1>1. /\ q \in Request /\ q.mem = r.mem /\ q.net = r.net /\ q.port = r.port
        /\ q.cores = Clamped(m, r.cores) /\ (q.cores = Keep <=> r.cores = Keep)
    BY ClampTyped
  <1>2. SetCmd(m, d, r) = Writes(m, d, q)
    BY DEF SetCmd
  <1> HIDE DEF q
  <1>3. /\ Writes(m, d, q) \in Seq(Entry) /\ g \in Disks
        /\ Reaches(Writes(m, d, q), d, g) /\ Agree(m, g)
    BY <1>1, AgreeingIsReady, ReadyReaches DEF Whole
  <1>4. /\ g.net = NewNet(d, q) /\ g.port = PortAfter(m, d, q)
        /\ g.mem = Either(q.mem, d.mem) /\ g.cores = Either(q.cores, d.cores)
    BY DEF After
  <1> HIDE DEF g
  <1>5. Clamped(m, g.cores) = g.cores
    BY <1>1, <1>4, ClampedTwice DEF Whole, Either
  <1>6. Meets(m, r, g)
    BY <1>1, <1>4 DEF Meets, Either, NewNet, KeepsNet, Fits
  <1>7. /\ r.mem = Keep => g.mem = d.mem
        /\ r.cores = Keep => g.cores = d.cores
        /\ ~GivesNet(r) => g.net = d.net /\ g.port = d.port
    BY <1>1, <1>4 DEF Either, NewNet, KeepsNet, PortAfter, GivesNet
  <1> QED BY <1>2, <1>3, <1>5, <1>6, <1>7 DEF Whole

LEMMA BootRuns ==
  ASSUME NEW m \in Modes, NEW d \in Disks, Agree(m, d)
  PROVE  Runs(m, [up |-> TRUE, paused |-> FALSE, live |-> Booted(m, d)], d)
  <1>1. /\ d.mem # Absent => Booted(m, d).mem = d.mem
        /\ d.cores # Absent => Booted(m, d).cores = d.cores
        /\ IsVm(m) => Booted(m, d).port = d.port
    BY DEF Booted, Agree, IsVm, Modes
  <1> HIDE DEF Booted
  <1> QED BY <1>1 DEF Runs

LEMMA SyncIdle ==
  ASSUME NEW d \in Disks, Agree("pve-vm", d)
  PROVE  Done(d, [file |-> "sync"]) = d
  <1>1. /\ d.conf.args = [mem |-> d.mem, port |-> d.port] /\ d.conf.mem = d.mem
        /\ d.conf.cores = d.cores
    BY DEF Agree
  <1>2. Args(d, d.conf) = d.conf
    BY <1>1, DiskFields DEF Args, Confs
  <1> DEFINE g == [d EXCEPT !.conf = d.conf, !.mem = d.mem, !.cores = d.cores]
  <1>3. Done(d, [file |-> "sync"]) = g
    BY <1>1, <1>2 DEF Done
  <1>4. g = d
    BY DEF Disks
  <1> QED BY <1>3, <1>4

\* A new disk that keeps what the request does not give.
LEMMA StillCached ==
  ASSUME NEW m, NEW x, NEW w \in Request, NEW d, NEW g, Cached(m, x, Nothing, d),
         w.mem = Keep => g.mem = d.mem, w.cores = Keep => g.cores = d.cores,
         w.net = Keep => g.net = d.net
  PROVE  Cached(m, x, w, g)
  BY DEF Cached, Nothing

LEMMA StillWished ==
  ASSUME NEW m, NEW a, NEW w \in Request, NEW d, NEW g, Wished(m, a, Nothing, d),
         w.mem = Keep => g.mem = d.mem, w.cores = Keep => g.cores = d.cores,
         w.net = Keep => g.net = d.net,
         a.port = Absent \/ (g.port = d.port /\ g.net = d.net)
  PROVE  Wished(m, a, w, g)
  BY DEF Wished, Nothing

\* After a set of w that was done, the handle remembers all of it.
LEMMA Remembered ==
  ASSUME Types, Shape, call.at \in {"write", "keep"}, Remembers, Granted,
         NEW g \in Disks, Meets(mode, call.want, g)
  PROVE  /\ Cached(mode, h, call.want, g) => Cached(mode, h', Nothing, g)
         /\ Wished(mode, asked, call.want, g) => Wished(mode, asked', Nothing, g)
  <1>1. InCall /\ call.want \in Request
    BY DEF InCall, Setting, Writing, Types, CallType
  <1>2. /\ call.op \in {"network", "resources"}
        /\ call.op = "network" =>
             /\ call.want.net \in NetNames /\ call.want.net # Keep
             /\ call.want.mem = Keep /\ call.want.cores = Keep
        /\ call.op # "network" => call.want.net = Keep
    BY <1>1, RequestFields DEF Shape, CallShape
  <1>3. /\ call.op = "network" =>
             h'.res = h.res /\ h'.net = ResolveNetMode(call.want.net)
        /\ call.op # "network" =>
             /\ h'.net = h.net
             /\ h'.res.mem = (IF call.want.mem = Keep THEN Absent ELSE call.want.mem)
             /\ h'.res.cores = (IF call.want.cores = Keep THEN Absent ELSE call.want.cores)
    BY RemembersTyped
  <1>4. /\ call.op = "network" =>
             /\ asked'.network = ResolveNetMode(call.want.net)
             /\ asked'.mem = asked.mem /\ asked'.cores = asked.cores
             /\ asked'.port = asked.port
        /\ call.op # "network" =>
             /\ asked'.network = asked.network /\ asked'.port = asked.port
             /\ asked'.mem = (IF call.want.mem = Keep THEN asked.mem ELSE call.want.mem)
             /\ asked'.cores = (IF call.want.cores = Keep THEN asked.cores ELSE call.want.cores)
    BY RemembersTyped
  <1>5. call.op = "network" => NetworkParam(ResolveNetMode(call.want.net)) = call.want.net
    BY <1>2, NetworkNames
  <1>6. Keep # Absent
    BY KeepApart
  <1>7. Cached(mode, h, call.want, g) => Cached(mode, h', Nothing, g)
    <2>1. CASE call.op = "network"
      BY <1>2, <1>3, <1>5, <2>1 DEF Cached, Nothing, Meets
    <2>2. CASE call.op # "network"
      BY <1>2, <1>3, <1>6, <2>2 DEF Cached, Nothing, Meets
    <2> QED BY <2>1, <2>2
  <1>8. Wished(mode, asked, call.want, g) => Wished(mode, asked', Nothing, g)
    <2>1. CASE call.op = "network"
      BY <1>2, <1>4, <1>5, <2>1 DEF Wished, Nothing, Meets
    <2>2. CASE call.op # "network"
      BY <1>2, <1>4, <1>6, <2>2 DEF Wished, Nothing, Meets
    <2> QED BY <2>1, <2>2
  <1> QED BY <1>7, <1>8

-------------------------------------------------------------------------------
(* The invariant.  Whatever is left to write, by the handle or on the      *)
(* command line, leads to a disk in order; and what a setter that fails    *)
(* has left to do leads back to the disk and the limits it began with.     *)

\* What stays as it is while the writes of a set are made.
Quiet ==
  /\ plain /\ cli # <<>> => ~guest.up
  /\ call.alone \/ synced \/ (plain /\ Writing) => cli = <<>>
  /\ plain /\ call.at = "write" => ~guest.up

\* The disk g is in order, apart from what w gives.
Kept(w, g) ==
  /\ Whole(mode, g) /\ Runs(mode, guest, g) /\ Wished(mode, asked, w, g)
  /\ synced => Cached(mode, h, w, g)

\* No set of the handle is under way.
Rests ==
  plain /\ ~Setting =>
    \E g \in Disks : Reaches(cli, disk, g) /\ Kept(Nothing, g)

\* A set of the handle is being written.
Forward ==
  plain /\ (call.at = "write" \/ (call.at = "keep" /\ synced)) =>
    \E g \in Disks : /\ Reaches(call.todo, disk, g)
                     /\ Kept(call.want, g) /\ Meets(mode, call.want, g)

\* The limits of a running container are being changed.
Living ==
  plain /\ synced /\ call.at = "live" =>
    /\ Cached(mode, h, Nothing, disk) /\ Wished(mode, asked, Nothing, disk)
    /\ disk.conf.net = ConfNet(disk.net)
    /\ call.want.mem = Keep =>
         /\ disk.conf.mem = disk.mem
         /\ guest.up /\ disk.mem # Absent => guest.live.mem = disk.mem
    /\ call.want.cores = Keep =>
         /\ disk.conf.cores = disk.cores
         /\ guest.up /\ disk.cores # Absent => guest.live.cores = disk.cores
    /\ call.want.mem # Keep /\ guest.up /\ ~In("mem", call.live) =>
         guest.live.mem = call.want.mem
    /\ call.want.cores # Keep /\ guest.up /\ ~In("cores", call.live) =>
         guest.live.cores = call.want.cores

\* What a set began with: the handle knew it, and it was in order.
Begun(b) ==
  /\ Whole(mode, b) /\ Cached(mode, h, Nothing, b) /\ Wished(mode, asked, Nothing, b)
  /\ call.want.mem # Keep => h.res.mem # Absent
  /\ call.want.cores # Keep => h.res.cores # Absent
  /\ call.want.net # Keep => h.net # "UNNAMED"

\* The limits that are to be put back are in undo; those on record were the
\* limits of the guest.
LiveFrom(b, l) ==
  /\ b.mem # Absent => l.mem = b.mem
  /\ b.cores # Absent => l.cores = b.cores
  /\ ~In("mem", call.undo) => guest.live.mem = l.mem
  /\ ~In("cores", call.undo) => guest.live.cores = l.cores
  /\ guest.up /\ guest.live.port = l.port

HalfDone(b) == /\ Within(mode, disk, b, call.want)
               /\ AllAllowed(mode, call.todo, b, call.want)
GoingBack(b) ==
  \E g \in Disks : /\ Reaches(call.todo, disk, g) /\ Whole(mode, g) /\ Restored(g, b)
                   /\ g.port = b.port \/ call.op = "network"

Stage(b, l) ==
  /\ call.at \in {"probe", "set"} => disk = b /\ guest.live = l
  /\ call.at = "probe" => Runs(mode, guest, b)
  /\ call.at \in {"set", "write", "reverse", "rewrite"} => ~guest.up /\ guest.live = l
  /\ LivePath => LiveFrom(b, l)
  /\ call.at \in {"live", "write", "keep", "reverse", "unlive"} => HalfDone(b)
  /\ call.at \in {"rewrite", "unkeep"} => GoingBack(b)

Backward ==
  plain /\ call.sure /\ call.alone /\ InCall =>
    Begun(call.before.disk) /\ Stage(call.before.disk, call.before.live)

InOrder == Quiet /\ Rests /\ Forward /\ Living /\ Backward

LEMMA RestsHere ==
  ASSUME Types, Rests, plain, ~Setting, cli = <<>>
  PROVE  Kept(Nothing, disk)
  <1>1. PICK g \in Disks : Reaches(cli, disk, g) /\ Kept(Nothing, g)
    BY DEF Rests
  <1>2. disk = g
    BY <1>1, NothingLeft DEF Types
  <1> QED BY <1>1, <1>2

LEMMA QuietKept == Types /\ Shape /\ Quiet /\ [Next]_vars => Quiet'
  <1> SUFFICES ASSUME Types, Shape, Quiet, [Next]_vars PROVE Quiet'
    OBVIOUS
  <1>0. /\ Down.up = FALSE /\ NoCall.at = "idle" /\ NoCall.alone = FALSE
        /\ call \in CallType /\ guest \in GuestType
    BY DownTyped, NoCallTyped DEF Types
  <1>1. ASSUME UNCHANGED <<cli, synced>>, guest'.up => guest.up, call'.alone => call.alone,
               plain' => plain, plain' /\ Writing' => Writing \/ cli = <<>>,
               call'.at = "write" => call.at = "write" \/ ~guest.up
        PROVE  Quiet'
    BY <1>1 DEF Quiet
  <1>2. ASSUME NEW ok, Returns(ok), UNCHANGED <<cli, synced>>, guest'.up => guest.up
        PROVE  Quiet'
    <2>1. call'.at = "idle" /\ ~Writing' /\ call'.alone = FALSE /\ (plain' => plain)
      BY <1>0, <1>2 DEF Returns, Writing
    <2> QED BY <1>1, <1>2, <2>1
  <1>3. ASSUME NEW a \in {"set", "reverse", "unlive"}, Goes(a),
               UNCHANGED <<cli, synced, guest>>
        PROVE  Quiet'
    <2>1. call'.at = a /\ call'.alone = call.alone /\ plain' = plain
      BY <1>0, <1>3, CallFields DEF Goes
    <2>2. ~Writing'
      BY <1>3, <2>1 DEF Writing
    <2> QED BY <1>1, <1>3, <2>1, <2>2
  <1>4. Overlaps => call'.at = call.at /\ call'.alone = FALSE
    BY <1>0 DEF Overlaps, CallType
  <1>5. ASSUME NEW k, NEW v, Limit(k, v) PROVE guest'.up = guest.up
    BY <1>0, <1>5 DEF Limit, GuestType
  <1>10. CASE SetProbe
    <2>1. CASE call' = [call EXCEPT !.at = "live", !.live = ChangedKeys(call.want)]
      <3>1. call'.at = "live" /\ call'.alone = call.alone
        BY <1>0, <2>1 DEF CallType
      <3>2. ~Writing'
        BY <3>1 DEF Writing
      <3>3. UNCHANGED <<cli, synced, guest, plain>>
        BY <1>0, <1>10, <2>1, <3>1, CallFields DEF SetProbe, Goes, Returns
      <3> QED BY <1>1, <3>1, <3>2, <3>3
    <2> QED BY <1>2, <1>3, <1>10, <2>1 DEF SetProbe
  <1>11. CASE SetCheck \/ SetReverse \/ LiveKeep \/ LiveUnkeep
    <2>1. ASSUME NEW a \in {"write", "rewrite", "keep", "unkeep"}, NEW s,
                 call' = [call EXCEPT !.at = a, !.todo = s],
                 UNCHANGED <<cli, synced, guest>>, plain' = (plain /\ cli = <<>>),
                 a = "write" => ~guest.up
          PROVE  Quiet'
      <3>1. call'.at = a /\ call'.alone = call.alone
        BY <1>0, <2>1, CallFields
      <3> QED BY <1>1, <2>1, <3>1
    <2>2. CASE SetCheck
      BY <1>2, <1>3, <2>1, <2>2 DEF SetCheck
    <2>3. CASE SetReverse
      BY <1>2, <1>3, <2>1, <2>3 DEF SetReverse
    <2>4. CASE LiveKeep \/ LiveUnkeep
      BY <2>1, <2>4 DEF LiveKeep, LiveUnkeep
    <2> QED BY <1>11, <2>2, <2>3, <2>4
  <1>12. CASE SetWrite
    <2>1. call'.at = call.at /\ call'.alone = call.alone
      BY <1>0, <1>12 DEF SetWrite, CallType
    <2>2. Writing
      BY <1>12 DEF SetWrite
    <2> QED BY <1>1, <1>12, <2>1, <2>2 DEF SetWrite
  <1>13. CASE SetWriteFails
    BY <1>2, <1>3, <1>13 DEF SetWriteFails
  <1>14. CASE SetDone \/ SetReversed \/ LiveKept
    BY <1>2, <1>14 DEF SetDone, SetReversed, LiveKept
  <1>15. CASE LiveFails
    BY <1>3, <1>15 DEF LiveFails
  <1>16. CASE LiveApply \/ LiveUndo
    <2>1. guest'.up = guest.up
      BY <1>5, <1>16 DEF LiveApply, LiveUndo
    <2>2. call'.at = call.at /\ call'.alone = call.alone /\ ~Writing
      BY <1>0, <1>16 DEF LiveApply, LiveUndo, CallType, Writing
    <2> QED BY <1>1, <1>16, <2>1, <2>2 DEF LiveApply, LiveUndo, Writing
  <1>17. CASE StopWaited \/ StopExpires
    BY <1>0, <1>2, <1>17 DEF StopWaited, StopExpires, Kill
  <1>18. CASE (\E b \in Bags : SetResources(b)) \/ (\E n \in Nets : SetNetwork(n))
    <2>1. PICK op, r : Begin(op, r)
      BY <1>18 DEF SetResources, SetNetwork
    <2>2. call'.at = "probe" /\ call'.alone = (cli = <<>>)
      BY <2>1 DEF Begin, NoCall
    <2>3. ~Writing'
      BY <2>2 DEF Writing
    <2> QED BY <2>1, <2>2, <2>3 DEF Begin, Quiet
  <1>19. CASE \E op \in {"ask", "force", "kill"} : HandleStop(op)
    <2>1. PICK op \in {"ask", "force", "kill"} : HandleStop(op)
      BY <1>19
    <2>2. CASE UNCHANGED call
      BY <1>0, <1>1, <2>1, <2>2 DEF HandleStop, Kill, Writing
    <2>3. CASE call' = [NoCall EXCEPT !.at = "wait", !.op = op] /\ UNCHANGED guest
      <3>1. call'.at = "wait" /\ call'.alone = FALSE
        BY <1>0, <2>3, NoCallTyped DEF CallType
      <3> QED BY <1>1, <2>1, <2>3, <3>1 DEF HandleStop, Writing
    <2> QED BY <2>1, <2>2, <2>3 DEF HandleStop
  <1>20. CASE \E b \in BOOLEAN : HandleDestroy(b) \/ HandlePause(b)
    BY <1>0, <1>1, <1>20 DEF HandleDestroy, HandlePause, Writing, GuestType
  <1>21. CASE HandleStart
    BY <1>21 DEF HandleStart, Idle, Quiet, Writing
  <1>22. CASE HandleRefresh
    BY <1>22 DEF HandleRefresh, Idle, Quiet, Writing
  <1>23. CASE HandleScrub
    BY <1>1, <1>23 DEF HandleScrub, Idle, Writing
  <1>24. CASE \E r \in Requests : CliSet(r)
    BY <1>4, <1>24 DEF CliSet, Quiet, Setting, Writing
  <1>25. CASE CliWrite
    BY <1>4, <1>25 DEF CliWrite, Quiet, Writing
  <1>26. CASE CliDies
    BY <1>4, <1>26 DEF CliDies, Quiet
  <1>27. CASE CliStart
    BY <1>4, <1>27 DEF CliStart, Quiet, Setting, Writing
  <1>28. CASE GoesDown \/ \E b \in BOOLEAN : CliPause(b)
    <2>1. UNCHANGED <<cli, synced, plain>> /\ Overlaps /\ (guest'.up => guest.up)
      BY <1>0, <1>28 DEF GoesDown, CliPause, GuestType
    <2> QED BY <1>1, <1>4, <2>1 DEF Writing
  <1>29. CASE UNCHANGED vars
    BY <1>29 DEF vars, Quiet, Writing
  <1> QED BY <1>10, <1>11, <1>12, <1>13, <1>14, <1>15, <1>16, <1>17, <1>18,
             <1>19, <1>20, <1>21, <1>22, <1>23, <1>24, <1>25, <1>26, <1>27,
             <1>28, <1>29
          DEF Next, Step, SetStep, LiveStep, Handle, Others

-------------------------------------------------------------------------------
(* No set of the handle is under way: every other step leaves the files    *)
(* where the command line is taking them, and in order.                    *)

\* The files and the list on the command line stand, and the guest does not
\* come up.
LEMMA RestsStill ==
  ASSUME Types, Rests, UNCHANGED <<mode, disk, cli, synced>>,
         h'.res = h.res, h'.net = h.net,
         asked'.network = asked.network, asked'.mem = asked.mem,
         asked'.cores = asked.cores, asked'.port \in {asked.port, Absent},
         guest'.up => guest.up /\ guest'.live = guest.live,
         plain' /\ ~Setting' => plain /\ ~Setting
  PROVE  Rests'
  <1> SUFFICES ASSUME plain', ~Setting'
               PROVE  \E g \in Disks : Reaches(cli, disk, g) /\ Kept(Nothing, g)'
    BY DEF Rests
  <1>1. PICK g \in Disks : Reaches(cli, disk, g) /\ Kept(Nothing, g)
    BY DEF Rests
  <1>2. Runs(mode, guest, g)' /\ (Cached(mode, h, Nothing, g) => Cached(mode, h, Nothing, g)')
    BY <1>1 DEF Kept, Runs, Cached
  <1>3. Wished(mode, asked, Nothing, g)'
    BY <1>1 DEF Kept, Wished
  <1>4. Kept(Nothing, g)'
    BY <1>1, <1>2, <1>3 DEF Kept
  <1> QED BY <1>1, <1>4

\* Nothing is left to write, and the files are in order.
LEMMA RestsWhole ==
  ASSUME cli' = <<>>, disk' \in Disks, plain' /\ ~Setting' => Kept(Nothing, disk)'
  PROVE  Rests'
  BY WholeReaches DEF Rests

\* The same call goes on, or is over.
LEMMA SettingStays ==
  ASSUME call \in CallType
  PROVE  /\ (Overlaps \/ UNCHANGED call) => (Setting' <=> Setting)
         /\ \A ok : Returns(ok) => ~Setting' /\ (plain' => plain /\ ok)
         /\ Idle => ~Setting
  <1>1. Overlaps \/ UNCHANGED call => call'.at = call.at
    BY DEF Overlaps, CallType
  <1>2. \A ok : Returns(ok) => call'.at = "idle" /\ (plain' => plain /\ ok)
    BY NoCallTyped DEF Returns
  <1> QED BY <1>1, <1>2 DEF Setting, Writing, Idle

LEMMA RestsKeptByHandle ==
  ASSUME Types, Shape, Types', Quiet, Rests, Handle
  PROVE  Rests'
  <1>0. /\ call \in CallType /\ h \in HandleType /\ asked \in WishType
        /\ guest \in GuestType /\ disk \in Disks /\ mode \in Modes
        /\ Down.up = FALSE /\ disk' \in Disks /\ asked' \in WishType
    BY DownTyped DEF Types
  <1>1. \A y : Seen(y) => h'.res = h.res /\ h'.net = h.net
    BY <1>0 DEF Seen, HandleType
  <1>2. Idle => ~Setting
    BY <1>0, SettingStays
  <1>3. CASE (\E b \in Bags : SetResources(b)) \/ (\E n \in Nets : SetNetwork(n))
    <2>1. PICK op, r : Begin(op, r)
      BY <1>3 DEF SetResources, SetNetwork
    <2>2. /\ asked'.network = asked.network /\ asked'.mem = asked.mem
          /\ asked'.cores = asked.cores /\ asked'.port \in {asked.port, Absent}
      BY <1>0, <2>1 DEF Begin, WishType
    <2> QED BY <1>2, <2>1, <2>2, RestsStill DEF Begin
  <1>4. CASE \E op \in {"ask", "force", "kill"} : HandleStop(op)
    BY <1>0, <1>1, <1>2, <1>4, RestsStill DEF HandleStop, Kill
  <1>5. CASE \E b \in BOOLEAN : HandleDestroy(b)
    <2>1. h'.res = h.res /\ h'.net = h.net
      BY <1>0, <1>5 DEF HandleDestroy, HandleType
    <2> QED BY <1>0, <1>2, <1>5, <2>1, RestsStill DEF HandleDestroy
  <1>6. CASE \E b \in BOOLEAN : HandlePause(b)
    <2>1. PICK b \in BOOLEAN : HandlePause(b)
      BY <1>6
    <2>2. h'.res = h.res /\ h'.net = h.net /\ guest'.live = guest.live
      BY <1>0, <2>1 DEF HandlePause, HandleType, GuestType
    <2> QED BY <1>2, <2>1, <2>2, RestsStill DEF HandlePause
  <1>7. CASE HandleStart
    <2>0. CASE guest.up
      <3>1. /\ UNCHANGED <<mode, disk, cli, synced, asked, guest>> /\ (plain' => plain)
            /\ Seen(guest') /\ Idle
        BY <1>7, <2>0 DEF HandleStart
      <3> QED BY <1>1, <1>2, <3>1, RestsStill
    <2> SUFFICES ASSUME plain', ~Setting', ~guest.up PROVE Rests'
      BY <2>0 DEF Rests
    <2>1. plain /\ cli = <<>> /\ cli' = <<>> /\ guest' = Up(disk) /\ Seen(guest')
          /\ ~Setting
      BY <1>2, <1>7 DEF HandleStart
    <2>2. Kept(Nothing, disk)
      BY <2>1, RestsHere
    <2>3. Runs(mode, guest', disk)
      BY <1>0, <2>1, <2>2, BootRuns DEF Kept, Whole, Up
    <2>4. UNCHANGED <<mode, disk, synced, asked>> /\ h'.res = h.res /\ h'.net = h.net
      BY <1>1, <1>7, <2>1 DEF HandleStart
    <2>5. Kept(Nothing, disk)'
      BY <2>2, <2>3, <2>4 DEF Kept, Cached
    <2> QED BY <1>0, <2>1, <2>5, RestsWhole
  <1>8. CASE HandleRefresh
    <2> SUFFICES ASSUME plain', ~Setting'
                 PROVE  \E g \in Disks : Reaches(cli, disk, g)' /\ Kept(Nothing, g)'
      BY DEF Rests
    <2>1. PICK g \in Disks : Reaches(cli, disk, g) /\ Kept(Nothing, g)
      BY <1>2, <1>8 DEF HandleRefresh, Rests
    <2>2. synced' => disk = g
      BY <1>0, <1>8, <2>1, NothingLeft DEF HandleRefresh
    <2>3. h' = Loaded(disk, guest) /\ UNCHANGED <<mode, disk, guest, cli, asked>>
      BY <1>8 DEF HandleRefresh
    <2>4. Cached(mode, h', Nothing, disk) \/ disk # g
      <3>1. h'.res = [mem |-> disk.mem, cores |-> disk.cores]
            /\ h'.net = ResolveNetMode(disk.net)
        BY <1>0, <2>3, LoadedTyped
      <3>2. disk = g => Clamped(mode, disk.cores) = disk.cores
        BY <2>1 DEF Kept, Whole
      <3>3. NetworkParam(h'.net) = disk.net
        BY <1>0, <3>1, DiskFields, NetworkNames
      <3> QED BY <3>1, <3>2, <3>3 DEF Cached, Fits
    <2>5. Kept(Nothing, g)'
      BY <2>1, <2>2, <2>3, <2>4 DEF Kept
    <2> QED BY <2>1, <2>3, <2>5
  <1>9. CASE HandleScrub
    <2> SUFFICES ASSUME plain', ~Setting' PROVE Rests'
      BY DEF Rests
    <2>1. plain /\ cli = <<>> /\ ~Setting /\ cli' = <<>> /\ UNCHANGED <<mode, guest, synced, asked>>
          /\ h'.res = h.res /\ h'.net = h.net
      BY <1>1, <1>2, <1>9 DEF HandleScrub
    <2>2. Kept(Nothing, disk)
      BY <2>1, RestsHere
    <2>3. disk' = disk
      BY <1>0, <1>9, <2>2, SyncIdle DEF HandleScrub, Kept, Whole
    <2>4. Kept(Nothing, disk)'
      BY <2>1, <2>2, <2>3 DEF Kept, Cached
    <2> QED BY <1>0, <2>1, <2>4, RestsWhole
  <1> QED BY <1>3, <1>4, <1>5, <1>6, <1>7, <1>8, <1>9 DEF Handle

LEMMA RestsKeptByOthers ==
  ASSUME Types, Shape, Types', Quiet, Rests, Others
  PROVE  Rests'
  <1>0. /\ call \in CallType /\ guest \in GuestType /\ disk \in Disks /\ mode \in Modes
        /\ Down.up = FALSE /\ disk' \in Disks /\ cli \in Seq(Entry)
    BY DownTyped DEF Types
  <1>1. Overlaps => (Setting' <=> Setting)
    BY <1>0, SettingStays
  <1>2. CASE \E r \in Requests : CliSet(r)
    <2>1. PICK r \in Requests : CliSet(r)
      BY <1>2
    <2> SUFFICES ASSUME plain', ~Setting' PROVE Rests'
      BY DEF Rests
    <2>2. /\ plain /\ ~Setting /\ cli = <<>> /\ ~guest.up /\ synced' = FALSE
          /\ UNCHANGED <<mode, disk, guest>> /\ cli' = SetCmd(mode, disk, r)
          /\ r \in Request
      BY <1>1, <2>1, RequestsTyped DEF CliSet
    <2>3. Whole(mode, disk)
      BY <2>2, RestsHere DEF Kept
    <2>4. PICK g \in Disks : Reaches(SetCmd(mode, disk, r), disk, g) /\ Whole(mode, g)
      BY <1>0, <2>2, <2>3, SetLeads
    <2>5. /\ asked'.network = Absent /\ asked'.mem = Absent
          /\ asked'.cores = Absent /\ asked'.port = Absent
      BY <2>1 DEF CliSet, Types, WishType
    <2>6. Kept(Nothing, g)'
      BY <2>2, <2>4, <2>5 DEF Kept, Runs, Wished
    <2> QED BY <2>2, <2>4, <2>6 DEF Rests
  <1>3. CASE CliWrite
    <2> SUFFICES ASSUME plain', ~Setting' PROVE Rests'
      BY DEF Rests
    <2>1. PICK g \in Disks : Reaches(cli, disk, g) /\ Kept(Nothing, g)
      BY <1>1, <1>3 DEF CliWrite, Rests
    <2>2. Reaches(cli, disk, g)'
      BY <1>0, <1>3, <2>1, StillReaches DEF CliWrite
    <2>3. Kept(Nothing, g)'
      BY <1>3, <2>1 DEF CliWrite, Kept
    <2> QED BY <2>2, <2>3 DEF Rests
  <1>4. CASE CliDies
    BY <1>4 DEF CliDies, Rests
  <1>5. CASE CliStart
    <2> SUFFICES ASSUME plain', ~Setting' PROVE Rests'
      BY DEF Rests
    <2>1. plain /\ cli = <<>> /\ cli' = <<>> /\ guest' = Up(disk) /\ ~Setting
          /\ UNCHANGED <<mode, disk, h, synced, asked>>
      BY <1>5 DEF CliStart
    <2>2. Kept(Nothing, disk)
      BY <2>1, RestsHere
    <2>3. Runs(mode, guest', disk)
      BY <1>0, <2>1, <2>2, BootRuns DEF Kept, Whole, Up
    <2>4. Kept(Nothing, disk)'
      BY <2>1, <2>2, <2>3 DEF Kept
    <2> QED BY <1>0, <2>1, <2>4, RestsWhole
  <1>6. CASE GoesDown \/ \E b \in BOOLEAN : CliPause(b)
    <2>1. /\ UNCHANGED <<mode, disk, cli, synced, h, asked, plain>> /\ Overlaps
          /\ guest'.up => guest.up /\ guest'.live = guest.live
      BY <1>0, <1>6 DEF GoesDown, CliPause, GuestType
    <2> QED BY <1>1, <2>1, RestsStill
  <1> QED BY <1>2, <1>3, <1>4, <1>5, <1>6 DEF Others

LEMMA RestsKeptBySteps ==
  ASSUME Types, Shape, Types', Quiet, Rests, Forward, Backward, Step
  PROVE  Rests'
  <1>0. /\ call \in CallType /\ guest \in GuestType /\ disk \in Disks /\ mode \in Modes
        /\ Down.up = FALSE /\ disk' \in Disks /\ call.before \in Started \cup {NoConf}
        /\ h \in HandleType
    BY DownTyped DEF Types, CallType
  <1>1. \A ok : Returns(ok) => ~Setting' /\ (plain' => plain /\ ok)
    BY <1>0, SettingStays
  <1>2. \A y : Seen(y) => h'.res = h.res /\ h'.net = h.net
    BY <1>0 DEF Seen, HandleType
  <1>3. call.at \in {"probe", "wait", "set"} => ~Setting
    BY DEF Setting, Writing
  <1>4. Setting' => Rests'
    BY DEF Rests
  <1>5. CASE SetProbe
    <2>1. ~Setting /\ UNCHANGED <<mode, disk, guest, h, cli, synced, asked>>
          /\ (plain' => plain)
      BY <1>1, <1>3, <1>5 DEF SetProbe, Goes
    <2> QED BY <2>1, RestsStill
  <1>6. CASE SetCheck
    <2>1. ~Setting /\ UNCHANGED <<mode, disk, guest, h, cli, synced, asked>>
          /\ (plain' => plain)
      BY <1>3, <1>6 DEF SetCheck, Goes
    <2> QED BY <2>1, RestsStill
  <1>7. CASE SetWrite
    <2>1. call'.at = call.at
      BY <1>0, <1>7 DEF SetWrite, CallType
    <2> QED BY <1>4, <1>7, <2>1 DEF SetWrite, Setting, Writing
  <1>8. CASE SetWriteFails
    <2>1. \A a \in {"reverse", "unlive"} : Goes(a) => Setting'
      BY <1>0, CallFields DEF Goes, Setting
    <2>2. Returns(FALSE) => ~plain'
      BY DEF Returns
    <2> QED BY <1>4, <1>8, <2>1, <2>2 DEF SetWriteFails, Rests
  <1>9. CASE SetDone \/ LiveKept
    <2> SUFFICES ASSUME plain' PROVE Rests'
      BY DEF Rests
    <2>1. /\ plain /\ call.todo = <<>> /\ Remembers /\ Granted
          /\ UNCHANGED <<mode, disk, guest, cli, synced>>
          /\ call.at = "write" \/ (call.at = "keep" /\ synced)
      <3>1. CASE SetDone
        BY <1>1, <3>1 DEF SetDone
      <3>2. CASE LiveKept
        BY <1>1, <3>2 DEF LiveKept
      <3> QED BY <1>9, <3>1, <3>2
    <2>2. PICK g \in Disks : /\ Reaches(call.todo, disk, g)
                             /\ Kept(call.want, g) /\ Meets(mode, call.want, g)
      BY <2>1 DEF Forward
    <2>3. g = disk
      BY <1>0, <2>1, <2>2, NothingLeft
    <2>4. cli' = <<>>
      BY <2>1 DEF Quiet, Writing
    <2>5. /\ Cached(mode, h, call.want, disk) => Cached(mode, h', Nothing, disk)
          /\ Wished(mode, asked, call.want, disk) => Wished(mode, asked', Nothing, disk)
      BY <1>0, <2>1, <2>2, <2>3, Remembered
    <2>6. Kept(Nothing, disk)'
      BY <2>1, <2>2, <2>3, <2>5 DEF Kept
    <2> QED BY <1>0, <2>4, <2>6, RestsWhole
  <1>10. CASE SetReverse
    <2>1. CASE call' = [call EXCEPT !.at = "rewrite", !.todo = Reverse(OldParams)]
      BY <1>0, <1>4, <2>1, CallFields DEF Setting, Writing
    <2>2. CASE Returns(call.sure /\ call.alone /\ disk = call.before.disk)
      <3> SUFFICES ASSUME plain' PROVE Rests'
        BY DEF Rests
      <3>1. plain /\ call.sure /\ call.alone /\ disk = call.before.disk /\ InCall
            /\ UNCHANGED <<mode, disk, guest, h, cli, synced, asked>>
            /\ call.at = "reverse"
        BY <1>1, <1>10, <2>2 DEF SetReverse, InCall, Setting
      <3>2. Begun(disk) /\ ~guest.up /\ cli = <<>>
        BY <3>1 DEF Backward, Stage, Quiet
      <3>3. Kept(Nothing, disk)'
        BY <3>1, <3>2 DEF Begun, Kept, Runs
      <3> QED BY <1>0, <3>1, <3>2, <3>3, RestsWhole
    <2> QED BY <1>10, <2>1, <2>2 DEF SetReverse
  <1>11. CASE SetReversed
    <2> SUFFICES ASSUME plain' PROVE Rests'
      BY DEF Rests
    <2> DEFINE b == call.before.disk
               l == call.before.live
    <2>1. /\ plain /\ call.sure /\ call.alone /\ InCall /\ call.todo = <<>>
          /\ UNCHANGED <<mode, disk, guest, h, cli, synced, asked>>
          /\ call.at \in {"rewrite", "unkeep"}
      BY <1>1, <1>11 DEF SetReversed, InCall, Setting, Writing
    <2>2. Begun(b) /\ GoingBack(b) /\ cli = <<>>
      BY <2>1 DEF Backward, Stage, Quiet
    <2>3. /\ Whole(mode, disk) /\ Restored(disk, b)
          /\ disk.port = b.port \/ call.op = "network"
      <3>1. PICK g \in Disks : /\ Reaches(call.todo, disk, g) /\ Whole(mode, g)
                               /\ Restored(g, b) /\ (g.port = b.port \/ call.op = "network")
        BY <2>2 DEF GoingBack
      <3>2. g = disk
        BY <1>0, <2>1, <3>1, NothingLeft
      <3> QED BY <3>1, <3>2
    <2>4. call.op = "network" => asked.port = Absent
      BY <2>1 DEF Shape, CallShape
    <2>5. /\ Cached(mode, h, Nothing, disk)
          /\ Wished(mode, asked, Nothing, disk)
      <3>1. Cached(mode, h, Nothing, b) /\ Wished(mode, asked, Nothing, b)
        BY <2>2 DEF Begun
      <3> HIDE DEF b
      <3> QED BY <2>3, <2>4, <3>1, StillCached, StillWished, NothingTyped DEF Restored
    <2>6. Runs(mode, guest, disk)
      <3>1. CASE call.at = "rewrite"
        BY <2>1, <3>1 DEF Backward, Stage, Runs
      <3>2. CASE call.at = "unkeep"
        <4>1. LiveFrom(b, l) /\ Len(call.undo) = 0 /\ ~IsVm(mode)
          BY <2>1, <3>2 DEF Backward, Stage, Shape, CallShape, LivePath
        <4>2. guest.live.mem = l.mem /\ guest.live.cores = l.cores
          BY <4>1 DEF LiveFrom, In
        <4> HIDE DEF b, l
        <4> QED BY <2>3, <4>1, <4>2 DEF LiveFrom, Runs, Restored
      <3> QED BY <2>1, <3>1, <3>2
    <2>7. Kept(Nothing, disk)'
      BY <2>1, <2>3, <2>5, <2>6 DEF Kept
    <2> QED BY <1>0, <2>1, <2>2, <2>7, RestsWhole
  <1>12. CASE LiveApply \/ LiveUndo
    <2>1. call'.at = call.at
      BY <1>0, <1>12 DEF LiveApply, LiveUndo, CallType
    <2> QED BY <1>4, <1>12, <2>1 DEF LiveApply, LiveUndo, Setting
  <1>13. CASE LiveFails
    BY <1>0, <1>4, <1>13, CallFields DEF LiveFails, Goes, Setting
  <1>14. CASE LiveKeep \/ LiveUnkeep
    <2>1. CASE LiveKeep
      BY <1>0, <1>4, <2>1, CallFields DEF LiveKeep, Setting, Writing
    <2>2. CASE LiveUnkeep
      BY <1>0, <1>4, <2>2, CallFields DEF LiveUnkeep, Setting, Writing
    <2> QED BY <1>14, <2>1, <2>2
  <1>15. CASE StopWaited
    BY <1>1, <1>2, <1>3, <1>15, RestsStill DEF StopWaited
  <1>16. CASE StopExpires
    BY <1>0, <1>1, <1>2, <1>3, <1>16, RestsStill DEF StopExpires, Kill
  <1> QED BY <1>5, <1>6, <1>7, <1>8, <1>9, <1>10, <1>11, <1>12, <1>13, <1>14,
             <1>15, <1>16 DEF Step, SetStep, LiveStep

-------------------------------------------------------------------------------
(* A set of the handle is under way: what it has left to write leads to    *)
(* the disk it is to make.                                                 *)

LEMMA NothingChanges ==
  ASSUME NEW d \in Disks
  PROVE  After("lxc", d, Nothing) = d
  <1> DEFINE g == After("lxc", d, Nothing)
  <1>1. ~GivesNet(Nothing)
    BY NothingTyped DEF GivesNet, Nothing
  <1>2. Content(d, Nothing) = d.conf
    <2>1. /\ Content(d, Nothing) \in Confs /\ d.conf \in Confs
          /\ Content(d, Nothing).mem = d.conf.mem
          /\ Content(d, Nothing).cores = d.conf.cores
          /\ Content(d, Nothing).net = d.conf.net
          /\ Content(d, Nothing).args = d.conf.args
      BY <1>1, ContentIs, NothingTyped, DiskFields DEF Either, Nothing
    <2> QED BY <2>1 DEF Confs
  <1>3. g.conf = d.conf
    BY <1>2 DEF After, ConfAfter
  <1>4. g.mem = d.mem /\ g.cores = d.cores /\ g.net = d.net /\ g.port = d.port
    BY <1>1 DEF After, Either, NewNet, KeepsNet, PortAfter, Nothing
  <1>5. g \in Disks
    BY AfterTyped, NothingTyped DEF Modes
  <1> HIDE DEF g
  <1> QED BY <1>3, <1>4, <1>5, DisksEqual DEF g

LEMMA PersistReaches ==
  ASSUME mode \in Modes, disk \in Disks, NEW r \in Request, Ready(mode, disk, r)
  PROVE  /\ After(mode, disk, r) \in Disks /\ Agree(mode, After(mode, disk, r))
         /\ Reaches(Persist(r), disk, After(mode, disk, r))
  <1>1. CASE r = Nothing /\ mode = "lxc"
    <2>1. Persist(r) = <<>> /\ After(mode, disk, r) = disk
      BY <1>1, NothingChanges DEF Persist
    <2> QED BY <2>1, ReadyReaches, WholeReaches
  <1>2. CASE ~(r = Nothing /\ mode = "lxc")
    BY <1>2, ReadyReaches DEF Persist
  <1> QED BY <1>1, <1>2

\* The call stands where it is, and the guest does not come up.
LEMMA ForwardStill ==
  ASSUME Forward, call'.at = call.at, call'.todo = call.todo, call'.want = call.want,
         UNCHANGED <<mode, disk, h, asked, synced>>, plain' => plain,
         guest'.up => guest.up /\ guest'.live = guest.live
  PROVE  Forward'
  <1> SUFFICES ASSUME plain', call'.at = "write" \/ (call'.at = "keep" /\ synced')
               PROVE  Forward'
    BY DEF Forward
  <1>1. PICK g \in Disks : /\ Reaches(call.todo, disk, g)
                           /\ Kept(call.want, g) /\ Meets(mode, call.want, g)
    BY DEF Forward
  <1>2. Kept(call.want, g)'
    BY <1>1 DEF Kept, Runs
  <1> QED BY <1>1, <1>2 DEF Forward

LEMMA ForwardKept ==
  Types /\ Shape /\ Quiet /\ Rests /\ Forward /\ Living /\ [Next]_vars => Forward'
  <1> SUFFICES ASSUME Types, Shape, Quiet, Rests, Forward, Living, [Next]_vars
               PROVE  Forward'
    OBVIOUS
  <1>0. /\ call \in CallType /\ guest \in GuestType /\ disk \in Disks /\ mode \in Modes
        /\ Down.up = FALSE /\ call.want \in Request /\ call.todo \in Seq(Entry)
    BY DownTyped DEF Types, CallType
  <1>1. call'.at \notin {"write", "keep"} \/ ~plain' => Forward'
    BY DEF Forward
  <1>2. \A ok : Returns(ok) => Forward'
    BY <1>1, NoCallTyped DEF Returns
  <1>3. \A a \in {"set", "reverse", "unlive"} : Goes(a) => Forward'
    <2> TAKE a \in {"set", "reverse", "unlive"}
    <2>1. Goes(a) => call'.at = a
      BY <1>0, CallFields DEF Goes
    <2> QED BY <1>1, <2>1
  <1>4. Overlaps => /\ call'.at = call.at /\ call'.todo = call.todo
                    /\ call'.want = call.want
    BY <1>0 DEF Overlaps, CallType
  <1>5. ASSUME Idle, call' = call PROVE Forward'
    BY <1>1, <1>5 DEF Idle
  <1>10. CASE SetProbe
    <2>1. call' = [call EXCEPT !.at = "live", !.live = ChangedKeys(call.want)]
            => call'.at = "live"
      BY <1>0 DEF CallType
    <2> QED BY <1>1, <1>2, <1>3, <1>10, <2>1 DEF SetProbe
  <1>11. CASE SetCheck
    <2>1. CASE /\ call' = [call EXCEPT !.at = "write", !.todo = SetCmd(mode, disk, call.want)]
               /\ plain' = (plain /\ cli = <<>>) /\ ~guest.up
      <3> SUFFICES ASSUME plain' PROVE Forward'
        BY <1>1
      <3>1. /\ plain /\ cli = <<>> /\ ~Setting /\ call.at = "set" /\ InCall
            /\ UNCHANGED <<mode, disk, guest, h, synced, asked>>
        BY <1>11, <2>1 DEF SetCheck, Setting, Writing, InCall
      <3>2. Kept(Nothing, disk)
        BY <3>1, RestsHere
      <3>3. PICK g \in Disks :
              /\ Reaches(SetCmd(mode, disk, call.want), disk, g)
              /\ Whole(mode, g) /\ Meets(mode, call.want, g)
              /\ call.want.mem = Keep => g.mem = disk.mem
              /\ call.want.cores = Keep => g.cores = disk.cores
              /\ ~GivesNet(call.want) => g.net = disk.net /\ g.port = disk.port
        BY <1>0, <3>2, SetLeads DEF Kept
      <3>4. /\ call.want.net = Keep => g.net = disk.net
            /\ asked.port = Absent \/ (g.port = disk.port /\ g.net = disk.net)
        BY <3>1, <3>3 DEF Shape, CallShape, GivesNet
      <3>5. /\ synced => Cached(mode, h, call.want, g)
            /\ Wished(mode, asked, call.want, g)
        <4>1. /\ synced => Cached(mode, h, Nothing, disk)
              /\ Wished(mode, asked, Nothing, disk)
          BY <3>2 DEF Kept
        <4>2. /\ call.want.mem = Keep => g.mem = disk.mem
              /\ call.want.cores = Keep => g.cores = disk.cores
          BY <3>3
        <4>3. Cached(mode, h, Nothing, disk) => Cached(mode, h, call.want, g)
          BY <1>0, <3>4, <4>2, StillCached
        <4>4. Wished(mode, asked, Nothing, disk) => Wished(mode, asked, call.want, g)
          BY <1>0, <3>4, <4>2, StillWished
        <4> QED BY <4>1, <4>3, <4>4
      <3>6. call'.want = call.want /\ call'.todo = SetCmd(mode, disk, call.want)
            /\ call'.at = "write"
        BY <1>0, <2>1, CallFields
      <3>7. Kept(call.want, g)'
        BY <2>1, <3>1, <3>3, <3>5, <3>6 DEF Kept, Runs
      <3> QED BY <3>1, <3>3, <3>6, <3>7 DEF Forward
    <2> QED BY <1>3, <1>11, <2>1 DEF SetCheck
  <1>12. CASE SetWrite
    <2>1. /\ call'.at = call.at /\ call'.want = call.want /\ call'.todo = Tail(call.todo)
          /\ call.todo # <<>> /\ disk' = Done(disk, Head(call.todo))
          /\ UNCHANGED <<mode, guest, h, synced, plain, asked>>
      BY <1>0, <1>12 DEF SetWrite, CallType
    <2> SUFFICES ASSUME plain, call.at = "write" \/ (call.at = "keep" /\ synced)
                 PROVE  Forward'
      BY <2>1 DEF Forward
    <2>2. PICK g \in Disks : /\ Reaches(call.todo, disk, g)
                             /\ Kept(call.want, g) /\ Meets(mode, call.want, g)
      BY DEF Forward
    <2>3. Reaches(call'.todo, disk', g)
      BY <1>0, <2>1, <2>2, StillReaches
    <2>4. Kept(call.want, g)'
      BY <2>1, <2>2 DEF Kept
    <2> QED BY <2>1, <2>2, <2>3, <2>4 DEF Forward
  <1>13. CASE SetWriteFails
    BY <1>2, <1>3, <1>13 DEF SetWriteFails
  <1>14. CASE SetDone \/ SetReversed \/ LiveKept \/ StopWaited \/ StopExpires
    BY <1>2, <1>14 DEF SetDone, SetReversed, LiveKept, StopWaited, StopExpires
  <1>15. CASE SetReverse
    <2>1. call' = [call EXCEPT !.at = "rewrite", !.todo = Reverse(OldParams)]
            => call'.at = "rewrite"
      BY <1>0, CallFields
    <2> QED BY <1>1, <1>2, <1>15, <2>1 DEF SetReverse
  <1>16. CASE LiveUnkeep
    BY <1>0, <1>1, <1>16, CallFields DEF LiveUnkeep
  <1>17. CASE LiveFails
    BY <1>3, <1>17 DEF LiveFails
  <1>18. CASE LiveApply \/ LiveUndo
    <2>1. call'.at = call.at
      BY <1>0, <1>18 DEF LiveApply, LiveUndo, CallType
    <2> QED BY <1>1, <1>18, <2>1 DEF LiveApply, LiveUndo
  <1>19. CASE LiveKeep
    <2> SUFFICES ASSUME plain', synced' PROVE Forward'
      BY <1>0, <1>19, CallFields DEF LiveKeep, Forward
    <2>0. PICK g : g = After(mode, disk, call.want)
      OBVIOUS
    <2>1. /\ plain /\ synced /\ call.at = "live" /\ Len(call.live) = 0 /\ LivePath
          /\ InCall /\ UNCHANGED <<mode, disk, guest, h, asked, synced>>
          /\ call'.at = "keep" /\ call'.todo = Persist(call.want) /\ call'.want = call.want
      <3>1. /\ call.at = "live" /\ call.live = <<>> /\ (plain' <=> plain /\ cli = <<>>)
            /\ call' = [call EXCEPT !.at = "keep", !.todo = Persist(call.want)]
            /\ UNCHANGED <<mode, disk, guest, h, asked, synced>>
        BY <1>19 DEF LiveKeep
      <3>2. call'.at = "keep" /\ call'.todo = Persist(call.want) /\ call'.want = call.want
        BY <1>0, <3>1, CallFields
      <3> QED BY <3>1, <3>2 DEF LivePath, InCall, Setting
    <2>2. /\ ~IsVm(mode) /\ call.want.net = Keep /\ call.want.port = Keep
          /\ call.op = "resources"
      BY <2>1 DEF Shape, CallShape
    <2>3. ~GivesNet(call.want)
      BY <2>2 DEF GivesNet
    <2>4. /\ Cached(mode, h, Nothing, disk) /\ Wished(mode, asked, Nothing, disk)
          /\ disk.conf.net = ConfNet(disk.net)
          /\ call.want.mem = Keep =>
               /\ disk.conf.mem = disk.mem
               /\ guest.up /\ disk.mem # Absent => guest.live.mem = disk.mem
          /\ call.want.cores = Keep =>
               /\ disk.conf.cores = disk.cores
               /\ guest.up /\ disk.cores # Absent => guest.live.cores = disk.cores
          /\ call.want.mem # Keep /\ guest.up => guest.live.mem = call.want.mem
          /\ call.want.cores # Keep /\ guest.up => guest.live.cores = call.want.cores
      BY <2>1 DEF Living, In
    <2>5. Ready(mode, disk, call.want)
      BY <2>2, <2>3, <2>4 DEF Ready, Key, IsVm
    <2>6. g \in Disks /\ Agree(mode, g) /\ Reaches(Persist(call.want), disk, g)
      BY <1>0, <2>0, <2>5, PersistReaches
    <2>7. /\ g.mem = Either(call.want.mem, disk.mem)
          /\ g.cores = Either(call.want.cores, disk.cores)
          /\ g.net = disk.net /\ g.port = disk.port
      BY <2>0, <2>2, <2>3 DEF After, NewNet, KeepsNet, PortAfter, Either
    <2>8. /\ Clamped(mode, g.cores) = g.cores
          /\ Clamped(mode, call.want.cores) = call.want.cores
      BY <2>2 DEF Clamped
    <2>9. Runs(mode, guest, g)
      BY <2>2, <2>4, <2>7 DEF Runs, Either
    <2>10. Cached(mode, h, call.want, g) /\ Wished(mode, asked, call.want, g)
      BY <1>0, <2>4, <2>7, StillCached, StillWished DEF Either
    <2>11. Meets(mode, call.want, g)
      BY <2>2, <2>7, <2>8 DEF Meets, Either
    <2>12. Kept(call.want, g)'
      BY <2>1, <2>6, <2>8, <2>9, <2>10 DEF Kept, Whole
    <2> QED BY <2>1, <2>6, <2>11, <2>12 DEF Forward
  <1>20. CASE (\E b \in Bags : SetResources(b)) \/ (\E n \in Nets : SetNetwork(n))
    <2>1. call'.at = "probe"
      BY <1>20 DEF SetResources, SetNetwork, Begin, NoCall
    <2> QED BY <1>1, <2>1
  <1>21. CASE \E op \in {"ask", "force", "kill"} : HandleStop(op)
    <2>1. \A op : [NoCall EXCEPT !.at = "wait", !.op = op].at = "wait"
      BY NoCallTyped DEF CallType
    <2> QED BY <1>1, <1>5, <1>21, <2>1 DEF HandleStop
  <1>22. CASE (\E b \in BOOLEAN : HandleDestroy(b) \/ HandlePause(b))
              \/ HandleStart \/ HandleRefresh \/ HandleScrub
    BY <1>5, <1>22 DEF HandleDestroy, HandlePause, HandleStart, HandleRefresh, HandleScrub
  <1>23. CASE (\E r \in Requests : CliSet(r)) \/ CliStart
    BY <1>1, <1>4, <1>23 DEF CliSet, CliStart, Setting, Writing
  <1>24. CASE CliWrite
    BY <1>1, <1>4, <1>24 DEF CliWrite, Quiet, Writing
  <1>25. CASE CliDies
    BY <1>1, <1>25 DEF CliDies
  <1>26. CASE GoesDown \/ \E b \in BOOLEAN : CliPause(b)
    <2>1. /\ UNCHANGED <<mode, disk, synced, h, asked, plain>> /\ Overlaps
          /\ guest'.up => guest.up /\ guest'.live = guest.live
      BY <1>0, <1>26 DEF GoesDown, CliPause, GuestType
    <2> QED BY <1>4, <2>1, ForwardStill
  <1>27. CASE UNCHANGED vars
    BY <1>27, ForwardStill DEF vars
  <1> QED BY <1>10, <1>11, <1>12, <1>13, <1>14, <1>15, <1>16, <1>17, <1>18,
             <1>19, <1>20, <1>21, <1>22, <1>23, <1>24, <1>25, <1>26, <1>27
          DEF Next, Step, SetStep, LiveStep, Handle, Others

LEMMA LivingStill ==
  ASSUME Living, call'.at = call.at, call'.live = call.live, call'.want = call.want,
         UNCHANGED <<mode, disk, h, asked, synced>>, plain' => plain,
         guest'.up => guest.up /\ guest'.live = guest.live
  PROVE  Living'
  BY DEF Living

LEMMA LivingKept ==
  Types /\ Shape /\ Quiet /\ Rests /\ Living /\ [Next]_vars => Living'
  <1> SUFFICES ASSUME Types, Shape, Quiet, Rests, Living, [Next]_vars
               PROVE  Living'
    OBVIOUS
  <1>0. /\ call \in CallType /\ guest \in GuestType /\ disk \in Disks /\ mode \in Modes
        /\ Down.up = FALSE /\ call.want \in Request /\ call.live \in Seq(Key)
    BY DownTyped DEF Types, CallType
  <1>1. call'.at # "live" \/ ~plain' \/ ~synced' => Living'
    BY DEF Living
  <1>2. \A ok : Returns(ok) => Living'
    BY <1>1, NoCallTyped DEF Returns
  <1>3. \A a \in {"set", "reverse", "unlive"} : Goes(a) => Living'
    <2> TAKE a \in {"set", "reverse", "unlive"}
    <2>1. Goes(a) => call'.at = a
      BY <1>0, CallFields DEF Goes
    <2> QED BY <1>1, <2>1
  <1>4. Overlaps => /\ call'.at = call.at /\ call'.live = call.live
                    /\ call'.want = call.want
    BY <1>0 DEF Overlaps, CallType
  <1>5. ASSUME Idle, call' = call PROVE Living'
    BY <1>1, <1>5 DEF Idle
  <1>6. \A a \in {"write", "rewrite", "keep", "unkeep"} : \A s :
          call' = [call EXCEPT !.at = a, !.todo = s] => Living'
    <2> TAKE a \in {"write", "rewrite", "keep", "unkeep"}
    <2> TAKE s
    <2>1. call' = [call EXCEPT !.at = a, !.todo = s] => call'.at = a
      BY <1>0, CallFields
    <2> QED BY <1>1, <2>1
  <1>10. CASE SetProbe
    <2>1. CASE /\ call' = [call EXCEPT !.at = "live", !.live = ChangedKeys(call.want)]
               /\ guest.up /\ call.op # "network" /\ ~IsVm(mode) /\ UNCHANGED plain
      <3> SUFFICES ASSUME plain, synced PROVE Living'
        BY <1>10, <2>1 DEF SetProbe, Living
      <3>1. /\ call'.want = call.want /\ call'.live = ChangedKeys(call.want)
            /\ UNCHANGED <<mode, disk, guest, h, asked, synced>>
            /\ ~Setting /\ InCall /\ cli = <<>>
        BY <1>0, <1>10, <2>1 DEF SetProbe, CallType, InCall, Setting, Writing, Quiet
      <3>2. /\ Agree(mode, disk) /\ Runs(mode, guest, disk)
            /\ Cached(mode, h, Nothing, disk) /\ Wished(mode, asked, Nothing, disk)
        BY <3>1, RestsHere DEF Kept, Whole
      <3>3. /\ disk.conf.mem = disk.mem /\ disk.conf.cores = disk.cores
            /\ disk.conf.net = ConfNet(disk.net)
        BY <2>1, <3>2 DEF Agree, IsVm
      <3>4. /\ disk.mem # Absent => guest.live.mem = disk.mem
            /\ disk.cores # Absent => guest.live.cores = disk.cores
        BY <2>1, <3>2 DEF Runs
      <3>5. call.want.mem # Absent /\ call.want.cores # Absent
        BY <3>1 DEF Shape, CallShape
      <3>6. /\ ~In("mem", ChangedKeys(call.want)) =>
                 call.want.mem = Keep \/ call.want.mem = h.res.mem
            /\ ~In("cores", ChangedKeys(call.want)) =>
                 call.want.cores = Keep \/ call.want.cores = h.res.cores
        BY ChangedKeysAre DEF Key
      <3>7. /\ h.res.mem # Absent => h.res.mem = disk.mem
            /\ h.res.cores # Absent => h.res.cores = disk.cores
        BY <2>1, <3>2 DEF Cached, Clamped, Nothing
      <3> QED BY <3>1, <3>2, <3>3, <3>4, <3>5, <3>6, <3>7 DEF Living
    <2> QED BY <1>2, <1>3, <1>10, <2>1 DEF SetProbe
  <1>11. CASE SetCheck
    BY <1>3, <1>6, <1>11 DEF SetCheck
  <1>12. CASE SetWrite \/ LiveUndo
    <2>1. call'.at = call.at
      BY <1>0, <1>12 DEF SetWrite, LiveUndo, CallType
    <2> QED BY <1>1, <1>12, <2>1 DEF SetWrite, LiveUndo, Writing
  <1>13. CASE SetWriteFails
    BY <1>2, <1>3, <1>13 DEF SetWriteFails
  <1>14. CASE SetDone \/ SetReversed \/ LiveKept \/ StopWaited \/ StopExpires
    BY <1>2, <1>14 DEF SetDone, SetReversed, LiveKept, StopWaited, StopExpires
  <1>15. CASE SetReverse \/ LiveKeep \/ LiveUnkeep
    BY <1>2, <1>6, <1>15 DEF SetReverse, LiveKeep, LiveUnkeep
  <1>16. CASE LiveFails
    BY <1>3, <1>16 DEF LiveFails
  <1>17. CASE LiveApply
    <2> SUFFICES ASSUME plain, synced PROVE Living'
      BY <1>17 DEF LiveApply, Living
    <2>0. PICK k : k = Head(call.live)
      OBVIOUS
    <2>1. /\ call.at = "live" /\ call.live # <<>> /\ Limit(k, call.want[k])
          /\ call'.want = call.want /\ call'.live = Tail(call.live)
          /\ UNCHANGED <<mode, h, asked, synced, plain>>
      BY <1>0, <1>17, <2>0 DEF LiveApply, CallType
    <2>2. k \in Key /\ (\A j : In(j, call.live) => j = k \/ In(j, call'.live))
      BY <1>0, <2>0, <2>1, KeyRest, KeySequences
    <2>3. call.want[k] # Keep
      <3>1. k = call.live[1] /\ 1 \in 1 .. Len(call.live)
        BY <1>0, <2>0, <2>1, KeyRest
      <3> QED BY <3>1 DEF Shape, CallShape
    <2>4. /\ disk'.mem = disk.mem /\ disk'.cores = disk.cores
          /\ disk'.net = disk.net /\ disk'.port = disk.port
          /\ disk'.conf.net = disk.conf.net
          /\ k # "mem" => disk'.conf.mem = disk.conf.mem
          /\ k # "cores" => disk'.conf.cores = disk.conf.cores
      BY <1>0, <2>1, <2>2 DEF Limit, Disks, Confs, Key
    <2>5. /\ guest'.up = guest.up
          /\ k # "mem" => guest'.live.mem = guest.live.mem
          /\ k # "cores" => guest'.live.cores = guest.live.cores
          /\ guest.up => guest'.live[k] = call.want[k]
      BY <1>0, <2>1, <2>2 DEF Limit, GuestType, Limits, Key
    <2>6. Cached(mode, h, Nothing, disk)' /\ Wished(mode, asked, Nothing, disk)'
      BY <2>1, <2>4 DEF Living, Cached, Wished
    <2>7. k = "mem" \/ k = "cores"
      BY <2>2 DEF Key
    <2>8. CASE k = "mem"
      BY <2>1, <2>2, <2>3, <2>4, <2>5, <2>6, <2>8 DEF Living
    <2>9. CASE k = "cores"
      BY <2>1, <2>2, <2>3, <2>4, <2>5, <2>6, <2>9 DEF Living
    <2> QED BY <2>7, <2>8, <2>9
  <1>20. CASE (\E b \in Bags : SetResources(b)) \/ (\E n \in Nets : SetNetwork(n))
    <2>1. call'.at = "probe"
      BY <1>20 DEF SetResources, SetNetwork, Begin, NoCall
    <2> QED BY <1>1, <2>1
  <1>21. CASE \E op \in {"ask", "force", "kill"} : HandleStop(op)
    <2>1. \A op : [NoCall EXCEPT !.at = "wait", !.op = op].at = "wait"
      BY NoCallTyped DEF CallType
    <2> QED BY <1>1, <1>5, <1>21, <2>1 DEF HandleStop
  <1>22. CASE (\E b \in BOOLEAN : HandleDestroy(b) \/ HandlePause(b))
              \/ HandleStart \/ HandleRefresh \/ HandleScrub
    BY <1>5, <1>22 DEF HandleDestroy, HandlePause, HandleStart, HandleRefresh, HandleScrub
  <1>23. CASE (\E r \in Requests : CliSet(r)) \/ CliWrite
    BY <1>1, <1>23 DEF CliSet, CliWrite
  <1>24. CASE CliStart
    BY <1>1, <1>4, <1>24 DEF CliStart, Setting
  <1>25. CASE CliDies
    BY <1>1, <1>25 DEF CliDies
  <1>26. CASE GoesDown \/ \E b \in BOOLEAN : CliPause(b)
    <2>1. /\ UNCHANGED <<mode, disk, synced, h, asked, plain>> /\ Overlaps
          /\ guest'.up => guest.up /\ guest'.live = guest.live
      BY <1>0, <1>26 DEF GoesDown, CliPause, GuestType
    <2> QED BY <1>4, <2>1, LivingStill
  <1>27. CASE UNCHANGED vars
    BY <1>27, LivingStill DEF vars
  <1> QED BY <1>10, <1>11, <1>12, <1>13, <1>14, <1>15, <1>16, <1>17,
             <1>20, <1>21, <1>22, <1>23, <1>24, <1>25, <1>26, <1>27
          DEF Next, Step, SetStep, LiveStep, Handle, Others

-------------------------------------------------------------------------------
(* The way back.                                                           *)

LEMMA SetAllowed ==
  ASSUME NEW m \in Modes, NEW d \in Disks, NEW b \in Disks, NEW w \in Request,
         w.port = Keep, Within(m, d, b, w), d.conf.args = b.conf.args
  PROVE  AllAllowed(m, SetCmd(m, d, w), b, w)
  <1> DEFINE q == ClampVmCapacity(m, w)
  <1>1. /\ q \in Request /\ q.mem = w.mem /\ q.net = w.net /\ q.port = w.port
        /\ (q.cores = Keep <=> w.cores = Keep)
    BY ClampTyped
  <1>2. SetCmd(m, d, w) = Writes(m, d, q)
    BY DEF SetCmd
  <1> HIDE DEF q
  <1>3. Within(m, d, b, q)
    BY <1>1 DEF Within
  <1>4. AllAllowed(m, Writes(m, d, q), b, q)
    BY <1>1, <1>3, WritesAllowed
  <1>5. \A e : Allowed(m, e, b, q) => Allowed(m, e, b, w)
    BY <1>1 DEF Allowed
  <1> QED BY <1>2, <1>4, <1>5 DEF AllAllowed

\* A limit that pct also writes to the configuration.
LEMMA LimitWithin ==
  ASSUME NEW d \in Disks, NEW b \in Disks, NEW w \in Request, NEW k \in Key, NEW v,
         w[k] # Keep, mode \in {"lxc", "pve"}, Within(mode, d, b, w)
  PROVE  Within(mode, IF mode = "pve" THEN [d EXCEPT !.conf[k] = v] ELSE d, b, w)
  <1> DEFINE g == IF mode = "pve" THEN [d EXCEPT !.conf[k] = v] ELSE d
  <1>1. /\ g.mem = d.mem /\ g.cores = d.cores /\ g.net = d.net /\ g.port = d.port
        /\ g.conf.net = d.conf.net /\ g.conf.args = d.conf.args
        /\ k # "mem" => g.conf.mem = d.conf.mem
        /\ k # "cores" => g.conf.cores = d.conf.cores
    BY DEF Disks, Confs, Key
  <1>2. k = "mem" \/ k = "cores"
    BY DEF Key
  <1> HIDE DEF g
  <1>3. Within(mode, g, b, w)
    BY <1>1, <1>2 DEF Within
  <1> QED BY <1>3 DEF g

\* What the handle has for the old values leads back, whatever was written.
LEMMA OldLeadsBack ==
  ASSUME Types, Shape, InCall, NEW b \in Disks, Begun(b), HalfDone(b),
         NEW q \in Request, q.mem = OldParams.mem, q.net = OldParams.net,
         q.cores = Clamped(mode, OldParams.cores), q.port = Keep
  PROVE  /\ Ready(mode, disk, q) /\ After(mode, disk, q) \in Disks
         /\ Whole(mode, After(mode, disk, q)) /\ Restored(After(mode, disk, q), b)
         /\ After(mode, disk, q).port = b.port \/ call.op = "network"
  <1>0. /\ mode \in Modes /\ disk \in Disks /\ call.want \in Request /\ h \in HandleType
    BY DEF Types, CallType
  <1>1. /\ call.op = "network" \/ call.op = "resources"
        /\ call.op = "network" => call.want.mem = Keep /\ call.want.cores = Keep
        /\ call.op = "resources" => call.want.net = Keep
    BY DEF Shape, CallShape
  <1>2. /\ Fits(NetworkParam(h.net), b.net)
        /\ h.res.mem # Absent => h.res.mem = b.mem
        /\ h.res.cores # Absent => b.cores = Clamped(mode, h.res.cores)
        /\ call.want.mem # Keep => h.res.mem # Absent
        /\ call.want.cores # Keep => h.res.cores # Absent
        /\ call.want.net # Keep => h.net # "UNNAMED"
    BY DEF Begun, Cached, Nothing
  <1>3. call.op = "network" =>
          NetworkParam(h.net) = b.net /\ NetworkParam(h.net) # "unnamed"
    <2> SUFFICES ASSUME call.op = "network"
                 PROVE  NetworkParam(h.net) = b.net /\ NetworkParam(h.net) # "unnamed"
      OBVIOUS
    <2>1. h.net # "UNNAMED" /\ h.net \in NetworkModes
      BY <1>0, <1>2, KeepApart DEF Shape, CallShape, HandleType
    <2>2. NetworkParam(h.net) # "unnamed"
      BY <2>1 DEF NetworkParam, NetworkModes
    <2> QED BY <1>2, <2>2 DEF Fits
  <1>4. Clamped(mode, Keep) = Keep
    BY <1>0, ClampedIs
  <1>5. /\ q.mem = b.mem \/ (q.mem = Keep /\ call.want.mem = Keep)
        /\ q.cores = b.cores \/ (q.cores = Keep /\ call.want.cores = Keep)
        /\ q.net = b.net \/ (q.net = Keep /\ call.want.net = Keep)
        /\ q.net # "unnamed"
    <2>1. CASE call.op = "network"
      BY <1>1, <1>3, <1>4, <2>1, OldTyped
    <2>2. CASE call.op = "resources"
      <3>1. /\ OldParams.net = Keep /\ OldParams.mem = Named(h.res.mem)
            /\ OldParams.cores = Named(h.res.cores)
        BY <2>2, OldTyped
      <3>2. Keep # "unnamed"
        BY KeepApart DEF NetNames
      <3> QED BY <1>1, <1>2, <1>4, <2>2, <3>1, <3>2 DEF Named
    <2> QED BY <1>1, <2>1, <2>2
  <1>6. /\ Ready(mode, disk, q) /\ Restored(After(mode, disk, q), b)
        /\ call.want.net = Keep => After(mode, disk, q).port = b.port
    BY <1>0, <1>5, WayBack DEF Begun, Whole, HalfDone
  <1>7. After(mode, disk, q) \in Disks /\ Agree(mode, After(mode, disk, q))
    BY <1>0, <1>6, ReadyReaches
  <1>8. Whole(mode, After(mode, disk, q))
    BY <1>6, <1>7 DEF Whole, Begun, Restored
  <1> QED BY <1>1, <1>6, <1>7, <1>8

\* The call goes on, or stands.
LEMMA StageLeads ==
  ASSUME Types, Shape, Backward, InCall \/ ~InCall', plain' => plain,
         call'.want = call.want, call'.before = call.before,
         call'.sure = call.sure, call'.alone = call.alone, UNCHANGED <<mode, h, asked>>,
         ASSUME NEW b \in Disks, NEW l, b = call.before.disk, l = call.before.live,
                plain, plain', call.sure, call.alone, InCall, Begun(b), Stage(b, l)
         PROVE  Stage(b, l)'
  PROVE  Backward'
  <1> SUFFICES ASSUME plain', call'.sure, call'.alone, InCall'
               PROVE  Backward'
    BY DEF Backward
  <1>1. PICK b, l : b = call.before.disk /\ l = call.before.live
    OBVIOUS
  <1>2. b \in Disks
    BY <1>1 DEF Shape, CallShape, Started
  <1>3. Begun(b) /\ Stage(b, l)
    BY <1>1 DEF Backward
  <1>4. Begun(b)'
    BY <1>3 DEF Begun
  <1>5. Stage(b, l)'
    BY <1>1, <1>2, <1>3
  <1>6. b = call'.before.disk /\ l = call'.before.live
    BY <1>1
  <1> QED BY <1>4, <1>5, <1>6 DEF Backward

\* What remains to be shown of a step of a call that is not over: the stage
\* it comes to.
LEMMA BackwardKeptBySet ==
  ASSUME Types, Shape, Quiet, Backward, SetStep
  PROVE  Backward'
  <1>0. /\ call \in CallType /\ guest \in GuestType /\ disk \in Disks /\ mode \in Modes
        /\ call.want \in Request /\ call.todo \in Seq(Entry) /\ Down.up = FALSE
    BY DownTyped DEF Types, CallType
  <1>1. \A ok : Returns(ok) => Backward'
    BY NoCallTyped DEF Returns, Backward
  <1>2. \A a, s : call' = [call EXCEPT !.at = a, !.todo = s] =>
          /\ call'.at = a /\ call'.todo = s /\ call'.want = call.want
          /\ call'.before = call.before /\ call'.sure = call.sure
          /\ call'.alone = call.alone /\ call'.undo = call.undo /\ call'.op = call.op
    BY <1>0, CallFields
  <1>3. InCall => call.want.port = Keep
    BY DEF Shape, CallShape
  <1>4. CASE SetProbe
    <2>1. CASE Goes("set") /\ ~guest.up
      <3>1. /\ call'.at = "set" /\ call'.want = call.want
            /\ call'.before = call.before /\ call'.sure = call.sure
            /\ call'.alone = call.alone /\ plain' = plain /\ InCall
            /\ UNCHANGED <<mode, disk, guest, h, asked>> /\ call.at = "probe"
        BY <1>2, <1>4, <2>1 DEF SetProbe, Goes, InCall
      <3>2. ASSUME NEW b \in Disks, NEW l, Stage(b, l)
            PROVE  Stage(b, l)'
        BY <2>1, <3>1, <3>2 DEF Stage, LivePath
      <3> QED BY <3>1, <3>2, StageLeads
    <2>2. CASE /\ call' = [call EXCEPT !.at = "live", !.live = ChangedKeys(call.want)]
               /\ guest.up /\ UNCHANGED plain
      <3>1. /\ call'.at = "live" /\ call'.want = call.want /\ call'.todo = call.todo
            /\ call'.before = call.before /\ call'.sure = call.sure
            /\ call'.alone = call.alone /\ InCall /\ call'.undo = call.undo
            /\ UNCHANGED <<mode, disk, guest, h, asked>> /\ call.at = "probe"
        BY <1>0, <1>4, <2>2 DEF SetProbe, InCall, CallType
      <3>2. call.todo = <<>>
        BY <3>1 DEF Shape, CallShape, Writing
      <3>3. ASSUME NEW b \in Disks, NEW l, Stage(b, l)
            PROVE  Stage(b, l)'
        <4>1. disk = b /\ guest.live = l /\ Runs(mode, guest, b)
          BY <3>1, <3>3 DEF Stage
        <4>2. LiveFrom(b, l)'
          BY <2>2, <3>1, <4>1 DEF LiveFrom, Runs
        <4>3. HalfDone(b)'
          BY <3>1, <3>2, <4>1, AllowedNone DEF HalfDone, Within
        <4> QED BY <3>1, <4>2, <4>3 DEF Stage, LivePath
      <3> QED BY <2>2, <3>1, <3>3, StageLeads
    <2> QED BY <1>1, <1>4, <2>1, <2>2 DEF SetProbe
  <1>5. CASE SetCheck
    <2>1. PICK a, s : /\ call' = [call EXCEPT !.at = a, !.todo = s]
                      /\ \/ a = "write" /\ s = SetCmd(mode, disk, call.want)
                         \/ a = "reverse" /\ s = <<>>
      BY <1>5 DEF SetCheck, Goes
    <2>2. /\ call'.at = a /\ call'.want = call.want /\ call'.todo = s
          /\ call'.before = call.before /\ call'.sure = call.sure
          /\ call'.alone = call.alone /\ (plain' => plain) /\ InCall
          /\ UNCHANGED <<mode, disk, guest, h, asked>> /\ call.at = "set"
      BY <1>2, <1>5, <2>1 DEF SetCheck, Goes, InCall
    <2>3. ASSUME NEW b \in Disks, NEW l, Stage(b, l)
          PROVE  Stage(b, l)'
      <3>1. disk = b /\ guest.live = l /\ ~guest.up
        BY <2>2, <2>3 DEF Stage
      <3>2. Within(mode, disk, b, call.want)
        BY <3>1 DEF Within
      <3>3. AllAllowed(mode, s, b, call.want)
        BY <1>0, <1>3, <2>1, <2>2, <3>1, <3>2, AllowedNone, SetAllowed
      <3>4. HalfDone(b)'
        BY <2>2, <3>2, <3>3 DEF HalfDone
      <3> QED BY <2>1, <2>2, <3>1, <3>4 DEF Stage, LivePath
    <2> QED BY <2>2, <2>3, StageLeads
  <1>6. CASE SetWrite
    <2>1. /\ call'.at = call.at /\ call'.want = call.want /\ call'.todo = Tail(call.todo)
          /\ call'.before = call.before /\ call'.sure = call.sure
          /\ call'.alone = call.alone /\ call'.undo = call.undo /\ call'.op = call.op
          /\ InCall /\ Writing /\ call.todo # <<>> /\ disk' = Done(disk, Head(call.todo))
          /\ UNCHANGED <<mode, guest, h, asked, plain>>
      BY <1>0, <1>6 DEF SetWrite, CallType, InCall, Setting
    <2>2. ASSUME NEW b \in Disks, NEW l, Begun(b), Stage(b, l)
          PROVE  Stage(b, l)'
      <3>1. HalfDone(b) => HalfDone(b)'
        <4> SUFFICES ASSUME HalfDone(b) PROVE HalfDone(b)'
          OBVIOUS
        <4>1. /\ Allowed(mode, Head(call.todo), b, call.want)
              /\ AllAllowed(mode, Tail(call.todo), b, call.want)
              /\ Head(call.todo) \in Entry
          BY <1>0, <2>1, AllowedRest, FirstWrite DEF HalfDone
        <4>2. Agree(mode, b) /\ Within(mode, disk, b, call.want)
          BY <2>2 DEF Begun, Whole, HalfDone
        <4>3. Within(mode, disk', b, call.want)
          BY <1>0, <2>1, <4>1, <4>2, StaysWithin
        <4> QED BY <2>1, <4>1, <4>3 DEF HalfDone
      <3>2. GoingBack(b) => GoingBack(b)'
        <4> SUFFICES ASSUME GoingBack(b) PROVE GoingBack(b)'
          OBVIOUS
        <4>1. PICK g \in Disks : /\ Reaches(call.todo, disk, g) /\ Whole(mode, g)
                                 /\ Restored(g, b) /\ (g.port = b.port \/ call.op = "network")
          BY DEF GoingBack
        <4>2. Reaches(call'.todo, disk', g)
          BY <1>0, <2>1, <4>1, StillReaches
        <4> QED BY <2>1, <4>1, <4>2 DEF GoingBack
      <3>3. LiveFrom(b, l) => LiveFrom(b, l)'
        BY <2>1 DEF LiveFrom
      <3> QED BY <2>1, <2>2, <3>1, <3>2, <3>3 DEF Stage, LivePath, Writing
    <2> QED BY <2>1, <2>2, StageLeads
  <1>7. CASE SetWriteFails
    <2>1. CASE \E a \in {"reverse", "unlive"} :
                 Goes(a) /\ call.at = (IF a = "reverse" THEN "write" ELSE "keep")
      <3>1. PICK a \in {"reverse", "unlive"} :
              Goes(a) /\ call.at = (IF a = "reverse" THEN "write" ELSE "keep")
        BY <2>1
      <3>2. /\ call'.at = a /\ call'.want = call.want /\ call'.todo = <<>>
            /\ call'.before = call.before /\ call'.sure = call.sure
            /\ call'.alone = call.alone /\ call'.undo = call.undo /\ plain' = plain
            /\ InCall /\ UNCHANGED <<mode, disk, guest, h, asked>>
        BY <1>2, <1>7, <3>1 DEF SetWriteFails, Goes, InCall, Setting
      <3>3. ASSUME NEW b \in Disks, NEW l, Stage(b, l)
            PROVE  Stage(b, l)'
        <4>1. HalfDone(b)'
          BY <3>1, <3>2, <3>3, AllowedNone DEF Stage, HalfDone
        <4>2. LiveFrom(b, l) => LiveFrom(b, l)'
          BY <3>2 DEF LiveFrom
        <4> QED BY <3>1, <3>2, <3>3, <4>1, <4>2 DEF Stage, LivePath
      <3> QED BY <3>2, <3>3, StageLeads
    <2> QED BY <1>1, <1>7, <2>1 DEF SetWriteFails
  <1>8. CASE SetReverse
    <2>1. CASE call' = [call EXCEPT !.at = "rewrite", !.todo = Reverse(OldParams)]
      <3>1. /\ call'.at = "rewrite" /\ call'.todo = SetCmd(mode, disk, OldParams)
            /\ call'.want = call.want /\ call'.before = call.before
            /\ call'.sure = call.sure /\ call'.alone = call.alone
            /\ call'.op = call.op /\ (plain' => plain) /\ InCall /\ call.at = "reverse"
            /\ UNCHANGED <<mode, disk, guest, h, asked>>
        BY <1>2, <1>8, <2>1 DEF SetReverse, Reverse, Returns, InCall, Setting
      <3>2. ASSUME NEW b \in Disks, NEW l, Begun(b), Stage(b, l)
            PROVE  Stage(b, l)'
        <4>1. HalfDone(b) /\ ~guest.up /\ guest.live = l
          BY <3>1, <3>2 DEF Stage
        <4>2. PICK q : q = ClampVmCapacity(mode, OldParams)
          OBVIOUS
        <4>3. /\ q \in Request /\ q.mem = OldParams.mem /\ q.net = OldParams.net
              /\ q.cores = Clamped(mode, OldParams.cores) /\ q.port = Keep
          BY <1>0, <4>2, OldTyped, ClampTyped
        <4>4. PICK g : g = After(mode, disk, q)
          OBVIOUS
        <4>5. /\ Ready(mode, disk, q) /\ g \in Disks /\ Whole(mode, g) /\ Restored(g, b)
              /\ g.port = b.port \/ call.op = "network"
          BY <3>1, <3>2, <4>1, <4>3, <4>4, OldLeadsBack
        <4>6. Reaches(call'.todo, disk, g)
          BY <1>0, <3>1, <4>2, <4>3, <4>4, <4>5, ReadyReaches DEF SetCmd
        <4>7. GoingBack(b)'
          BY <3>1, <4>5, <4>6 DEF GoingBack
        <4> QED BY <3>1, <4>1, <4>7 DEF Stage, LivePath
      <3> QED BY <3>1, <3>2, StageLeads
    <2> QED BY <1>1, <1>8, <2>1 DEF SetReverse
  <1>9. CASE SetDone \/ SetReversed
    BY <1>1, <1>9 DEF SetDone, SetReversed
  <1> QED BY <1>4, <1>5, <1>6, <1>7, <1>8, <1>9 DEF SetStep

LEMMA LimitMade ==
  ASSUME Types, guest.up, NEW k \in Key, NEW v, Limit(k, v),
         NEW b \in Disks, NEW w \in Request, w[k] # Keep, ~IsVm(mode),
         Within(mode, disk, b, w)
  PROVE  /\ Within(mode, disk', b, w) /\ guest'.up
         /\ guest'.live.port = guest.live.port /\ guest'.live[k] = v
         /\ k # "mem" => guest'.live.mem = guest.live.mem
         /\ k # "cores" => guest'.live.cores = guest.live.cores
  <1>1. mode \in {"lxc", "pve"}
    BY DEF Types, Modes, IsVm
  <1>2. disk' = IF mode = "pve" THEN [disk EXCEPT !.conf[k] = v] ELSE disk
    BY DEF Limit
  <1>3. Within(mode, disk', b, w)
    BY <1>1, <1>2, LimitWithin DEF Types
  <1>4. guest' = [guest EXCEPT !.live[k] = v]
    BY DEF Limit
  <1>5. /\ guest'.up = guest.up
        /\ guest'.live.port = guest.live.port /\ guest'.live[k] = v
        /\ k # "mem" => guest'.live.mem = guest.live.mem
        /\ k # "cores" => guest'.live.cores = guest.live.cores
    BY <1>4 DEF Types, GuestType, Limits, Key
  <1> QED BY <1>3, <1>5

LEMMA BackwardKeptByLive ==
  ASSUME Types, Shape, Quiet, Backward, LiveStep
  PROVE  Backward'
  <1>0. /\ call \in CallType /\ guest \in GuestType /\ disk \in Disks /\ mode \in Modes
        /\ call.want \in Request /\ call.todo \in Seq(Entry) /\ h \in HandleType
        /\ call.live \in Seq(Key) /\ call.undo \in Seq(Key)
    BY DEF Types, CallType
  <1>1. \A a, s : call' = [call EXCEPT !.at = a, !.todo = s] =>
          /\ call'.at = a /\ call'.todo = s /\ call'.want = call.want
          /\ call'.before = call.before /\ call'.sure = call.sure
          /\ call'.alone = call.alone /\ call'.undo = call.undo /\ call'.op = call.op
    BY <1>0, CallFields
  <1>2. call.at \in {"live", "unlive"} =>
          /\ InCall /\ LivePath /\ ~IsVm(mode) /\ call.op = "resources"
          /\ call.want.port = Keep /\ call.want.net = Keep /\ call.todo = <<>>
    BY DEF Shape, CallShape, InCall, LivePath, Setting, Writing
  <1>3. CASE LiveApply
    <2>0. PICK k : k = Head(call.live)
      OBVIOUS
    <2>1. /\ call.at = "live" /\ call.live # <<>> /\ Limit(k, call.want[k])
          /\ call'.at = "live" /\ call'.todo = call.todo
          /\ call'.want = call.want /\ call'.before = call.before
          /\ call'.sure = call.sure /\ call'.alone = call.alone
          /\ call'.undo = (IF h.res[k] = Absent THEN call.undo ELSE <<k>> \o call.undo)
          /\ UNCHANGED <<mode, h, asked, plain>>
      BY <1>0, <1>3, <2>0 DEF LiveApply, CallType
    <2>2. k \in Key /\ call.want[k] # Keep
      <3>1. k = call.live[1] /\ 1 \in 1 .. Len(call.live) /\ k \in Key
        BY <1>0, <2>0, <2>1, KeyRest, KeySequences
      <3> QED BY <3>1 DEF Shape, CallShape
    <2>3. ASSUME NEW b \in Disks, NEW l, Begun(b), Stage(b, l)
          PROVE  Stage(b, l)'
      <3>1. LiveFrom(b, l) /\ Within(mode, disk, b, call.want)
            /\ AllAllowed(mode, call.todo, b, call.want)
        BY <1>2, <2>1, <2>3 DEF Stage, HalfDone
      <3>2. /\ Within(mode, disk', b, call.want) /\ guest'.up
            /\ guest'.live.port = guest.live.port
            /\ k # "mem" => guest'.live.mem = guest.live.mem
            /\ k # "cores" => guest'.live.cores = guest.live.cores
        BY <1>0, <1>2, <2>1, <2>2, <3>1, LimitMade DEF LiveFrom
      <3>3. h.res[k] # Absent
        BY <2>2, <2>3 DEF Begun, Key
      <3>4. In(k, call'.undo) /\ \A j : In(j, call.undo) => In(j, call'.undo)
        BY <1>0, <2>1, <2>2, <3>3, KeyFirst
      <3>5. LiveFrom(b, l)'
        BY <3>1, <3>2, <3>4 DEF LiveFrom
      <3>6. HalfDone(b)'
        BY <2>1, <3>1, <3>2 DEF HalfDone
      <3> QED BY <2>1, <3>5, <3>6 DEF Stage
    <2> QED BY <1>2, <2>1, <2>3, StageLeads
  <1>4. CASE LiveFails
    <2>1. /\ call'.at = "unlive" /\ call'.want = call.want /\ call'.todo = <<>>
          /\ call'.before = call.before /\ call'.sure = call.sure
          /\ call'.alone = call.alone /\ call'.undo = call.undo /\ call.at = "live"
          /\ UNCHANGED <<mode, disk, guest, h, asked, plain>>
      BY <1>1, <1>4 DEF LiveFails, Goes
    <2>2. ASSUME NEW b \in Disks, NEW l, Stage(b, l)
          PROVE  Stage(b, l)'
      <3>1. HalfDone(b)' /\ LiveFrom(b, l)'
        BY <1>2, <2>1, <2>2, AllowedNone DEF Stage, HalfDone, LiveFrom
      <3> QED BY <2>1, <3>1 DEF Stage
    <2> QED BY <1>2, <2>1, <2>2, StageLeads
  <1>5. CASE LiveKeep
    <2>1. /\ call'.at = "keep" /\ call'.want = call.want /\ call'.todo = Persist(call.want)
          /\ call'.before = call.before /\ call'.sure = call.sure
          /\ call'.alone = call.alone /\ call'.undo = call.undo /\ call.at = "live"
          /\ UNCHANGED <<mode, disk, guest, h, asked>> /\ (plain' => plain)
      BY <1>1, <1>5 DEF LiveKeep
    <2>2. ASSUME NEW b \in Disks, NEW l, Stage(b, l)
          PROVE  Stage(b, l)'
      <3>1. LiveFrom(b, l)' /\ Within(mode, disk, b, call.want)
        BY <1>2, <2>1, <2>2 DEF Stage, HalfDone, LiveFrom
      <3>2. disk.conf.args = b.conf.args
        BY <1>2, <2>1, <3>1 DEF Within, IsVm
      <3>3. AllAllowed(mode, Persist(call.want), b, call.want)
        BY <1>0, <1>2, <2>1, <3>1, <3>2, AllowedNone, WritesAllowed DEF Persist
      <3>4. HalfDone(b)'
        BY <2>1, <3>1, <3>3 DEF HalfDone
      <3> QED BY <2>1, <3>1, <3>4 DEF Stage
    <2> QED BY <1>2, <2>1, <2>2, StageLeads
  <1>6. CASE LiveKept
    BY <1>6, NoCallTyped DEF LiveKept, Returns, Backward
  <1>7. CASE LiveUndo
    <2>0. PICK k : k = Head(call.undo)
      OBVIOUS
    <2>1. /\ call.at = "unlive" /\ call.undo # <<>>
          /\ call'.at = "unlive" /\ call'.todo = call.todo
          /\ call'.want = call.want /\ call'.before = call.before
          /\ call'.sure = call.sure /\ call'.alone = call.alone
          /\ call'.undo = Tail(call.undo) /\ UNCHANGED <<mode, h, asked>>
          /\ (Limit(k, h.res[k]) /\ UNCHANGED plain) \/ plain' = FALSE
      BY <1>0, <1>7, <2>0 DEF LiveUndo, CallType
    <2>2. /\ k \in Key /\ call.want[k] # Keep /\ h.res[k] # Absent
          /\ \A j : In(j, call.undo) => j = k \/ In(j, Tail(call.undo))
      <3>1. /\ k = call.undo[1] /\ 1 \in 1 .. Len(call.undo) /\ k \in Key
            /\ \A j : In(j, call.undo) => j = k \/ In(j, Tail(call.undo))
        BY <1>0, <2>0, <2>1, KeyRest, KeySequences
      <3> QED BY <3>1 DEF Shape, CallShape
    <2>3. ASSUME NEW b \in Disks, NEW l, Begun(b), Stage(b, l), plain'
          PROVE  Stage(b, l)'
      <3>1. LiveFrom(b, l) /\ Within(mode, disk, b, call.want) /\ Limit(k, h.res[k])
            /\ AllAllowed(mode, call.todo, b, call.want)
        BY <1>2, <2>1, <2>3 DEF Stage, HalfDone
      <3>2. /\ Within(mode, disk', b, call.want) /\ guest'.up
            /\ guest'.live.port = guest.live.port /\ guest'.live[k] = h.res[k]
            /\ k # "mem" => guest'.live.mem = guest.live.mem
            /\ k # "cores" => guest'.live.cores = guest.live.cores
        BY <1>0, <1>2, <2>1, <2>2, <3>1, LimitMade DEF LiveFrom
      <3>3. Clamped(mode, h.res.cores) = h.res.cores
        BY <1>2, <2>1 DEF Clamped
      <3>4. /\ h.res.mem # Absent => h.res.mem = b.mem
            /\ h.res.cores # Absent => h.res.cores = b.cores
        BY <2>3, <3>3 DEF Begun, Cached, Nothing
      <3>5. k = "mem" \/ k = "cores"
        BY <2>2 DEF Key
      <3>6. LiveFrom(b, l)'
        <4>1. CASE k = "mem"
          BY <2>1, <2>2, <3>1, <3>2, <3>4, <4>1 DEF LiveFrom
        <4>2. CASE k = "cores"
          BY <2>1, <2>2, <3>1, <3>2, <3>4, <4>2 DEF LiveFrom
        <4> QED BY <3>5, <4>1, <4>2
      <3>7. HalfDone(b)'
        BY <2>1, <3>1, <3>2 DEF HalfDone
      <3> QED BY <2>1, <3>6, <3>7 DEF Stage
    <2>4. plain' => plain
      BY <2>1
    <2> QED BY <1>2, <2>1, <2>3, <2>4, StageLeads
  <1>8. CASE LiveUnkeep
    <2>1. /\ call'.at = "unkeep" /\ call'.want = call.want /\ call'.todo = Persist(OldParams)
          /\ call'.before = call.before /\ call'.sure = call.sure
          /\ call'.alone = call.alone /\ call'.undo = call.undo /\ call.at = "unlive"
          /\ call'.op = call.op
          /\ UNCHANGED <<mode, disk, guest, h, asked>> /\ (plain' => plain)
      BY <1>1, <1>8 DEF LiveUnkeep
    <2>2. ASSUME NEW b \in Disks, NEW l, Begun(b), Stage(b, l)
          PROVE  Stage(b, l)'
      <3>1. LiveFrom(b, l)' /\ HalfDone(b)
        BY <1>2, <2>1, <2>2 DEF Stage, LiveFrom
      <3>2. PICK q : q = OldParams
        OBVIOUS
      <3>3. /\ q \in Request /\ q.port = Keep /\ q.mem = OldParams.mem
            /\ q.net = OldParams.net /\ q.cores = Clamped(mode, OldParams.cores)
        <4>1. Clamped(mode, q.cores) = q.cores
          BY <1>2, <2>1 DEF Clamped
        <4> QED BY <3>2, <4>1, OldTyped
      <3>4. PICK g : g = After(mode, disk, q)
        OBVIOUS
      <3>5. /\ Ready(mode, disk, q) /\ g \in Disks /\ Whole(mode, g) /\ Restored(g, b)
            /\ g.port = b.port \/ call.op = "network"
        BY <1>2, <2>1, <2>2, <3>1, <3>3, <3>4, OldLeadsBack
      <3>6. Reaches(call'.todo, disk, g)
        BY <1>0, <2>1, <3>2, <3>3, <3>4, <3>5, PersistReaches
      <3>7. GoingBack(b)'
        BY <2>1, <3>5, <3>6 DEF GoingBack
      <3> QED BY <2>1, <3>1, <3>7 DEF Stage
    <2> QED BY <1>2, <2>1, <2>2, StageLeads
  <1> QED BY <1>3, <1>4, <1>5, <1>6, <1>7, <1>8 DEF LiveStep

LEMMA BackwardKept ==
  Types /\ Shape /\ Quiet /\ Rests /\ Backward /\ [Next]_vars => Backward'
  <1> SUFFICES ASSUME Types, Shape, Quiet, Rests, Backward, [Next]_vars
               PROVE  Backward'
    OBVIOUS
  <1>0. call \in CallType /\ disk \in Disks /\ guest \in GuestType
    BY DEF Types
  <1>1. call'.at \in {"idle", "wait"} \/ ~call'.alone => Backward'
    BY DEF Backward, InCall, Setting, Writing
  <1>2. Overlaps => Backward'
    <2>1. Overlaps => call'.alone = FALSE
      BY <1>0 DEF Overlaps, CallType
    <2> QED BY <1>1, <2>1
  <1>3. CASE Step
    <2>1. (StopWaited \/ StopExpires) => call'.at = "idle"
      BY NoCallTyped DEF StopWaited, StopExpires, Returns
    <2> QED BY <1>1, <1>3, <2>1, BackwardKeptBySet, BackwardKeptByLive DEF Step
  <1>4. CASE (\E b \in Bags : SetResources(b)) \/ (\E n \in Nets : SetNetwork(n))
    <2>1. PICK op, r : Begin(op, r)
      BY <1>4 DEF SetResources, SetNetwork
    <2>2. /\ call'.at = "probe" /\ call'.want = r /\ call'.sure = (synced /\ plain /\ Covers(r))
          /\ call'.before.disk = disk /\ call'.before.live = guest.live
          /\ call'.alone = (cli = <<>>) /\ call.at = "idle"
          /\ UNCHANGED <<mode, disk, guest, h, cli, synced, plain>>
      BY <2>1 DEF Begin, Idle, NoCall
    <2> SUFFICES ASSUME plain, call'.sure, call'.alone PROVE Backward'
      BY <2>2 DEF Backward
    <2>3. /\ synced /\ plain /\ cli = <<>> /\ ~Setting
          /\ r.mem # Keep => h.res.mem # Absent
          /\ r.cores # Keep => h.res.cores # Absent
          /\ r.net # Keep => h.net # "UNNAMED"
      BY <2>2 DEF Covers, Setting, Writing
    <2>4. Kept(Nothing, disk)
      BY <2>3, RestsHere
    <2>5. Wished(mode, asked', Nothing, disk)
      <3>1. /\ asked'.network = asked.network /\ asked'.mem = asked.mem
            /\ asked'.cores = asked.cores /\ asked'.port \in {asked.port, Absent}
        BY <2>1 DEF Begin, Types, WishType
      <3> QED BY <2>4, <3>1 DEF Kept, Wished
    <2>6. PICK b : b = disk
      OBVIOUS
    <2>7. Begun(b)'
      BY <2>2, <2>3, <2>4, <2>5, <2>6 DEF Begun, Kept
    <2>8. Stage(b, guest.live)'
      BY <2>2, <2>4, <2>6 DEF Stage, Kept, LivePath
    <2> QED BY <2>2, <2>6, <2>7, <2>8 DEF Backward
  <1>5. CASE Handle /\ ~((\E b \in Bags : SetResources(b)) \/ (\E n \in Nets : SetNetwork(n)))
    <2>1. \A op : [NoCall EXCEPT !.at = "wait", !.op = op].at = "wait"
      BY NoCallTyped DEF CallType
    <2>2. call'.at \in {"idle", "wait"}
      BY <1>5, <2>1 DEF Handle, HandleStop, HandleDestroy, HandlePause, HandleStart,
                        HandleRefresh, HandleScrub, Idle
    <2> QED BY <1>1, <2>2
  <1>6. CASE Others
    BY <1>2, <1>6 DEF Others, CliSet, CliWrite, CliDies, CliStart, GoesDown, CliPause
  <1>7. CASE UNCHANGED vars
    <2>1. UNCHANGED <<mode, disk, guest, h, call, plain, asked>>
      BY <1>7 DEF vars
    <2>2. \A b, l : (Begun(b) => Begun(b)') /\ (Stage(b, l) => Stage(b, l)')
      BY <2>1 DEF Begun, Stage, LivePath, LiveFrom, HalfDone, GoingBack
    <2> QED BY <2>1, <2>2 DEF Backward, InCall, Setting, Writing
  <1> QED BY <1>3, <1>4, <1>5, <1>6, <1>7 DEF Next

-------------------------------------------------------------------------------
LEMMA InOrderAtFirst == Init => InOrder
  <1> SUFFICES ASSUME Init PROVE InOrder
    OBVIOUS
  <1>1. PICK host \in Hosts, ask \in Creations :
          /\ Creatable(host, CreateKwargs(ask))
          /\ mode = Promoted(host, CreateKwargs(ask))
          /\ disk = CreateDisk(host, CreateKwargs(ask))
          /\ asked = [k \in {"network", "mem", "cores", "port"} |-> ask[k]]
    BY DEF Init
  <1>2. /\ call.at = "idle" /\ call.alone = FALSE /\ cli = <<>> /\ guest.up = FALSE
        /\ h = Loaded(disk, guest) /\ disk \in Disks /\ mode \in Modes /\ guest = Down
    BY <1>1, CreatedTyped, NoCallTyped, DownTyped DEF Init
  <1>3. Quiet /\ Forward /\ Living /\ Backward
    BY <1>2 DEF Quiet, Forward, Living, Backward, Writing
  <1> DEFINE kw == CreateKwargs(ask)
             z == Sizes(mode, kw)
             n == ResolveNetwork(host, mode, kw)
             p == CreatePort(mode, n, kw)
  <1>4. /\ disk.net = n /\ disk.mem = z.mem /\ disk.cores = z.cores /\ disk.port = p
        /\ Agree(mode, disk)
    BY <1>1, CreatedTyped
  <1>5. z.cores = Clamped(mode, z.cores)
    BY <1>2, ClampedTwice DEF Sizes, Clamped
  <1>6. Cached(mode, h, Nothing, disk)
    <2>1. h.res = [mem |-> disk.mem, cores |-> disk.cores]
          /\ h.net = ResolveNetMode(disk.net)
      BY <1>2, DownTyped, LoadedTyped
    <2>2. NetworkParam(h.net) = disk.net
      BY <1>2, <2>1, DiskFields, NetworkNames
    <2> QED BY <1>4, <1>5, <2>1, <2>2 DEF Cached, Fits
  <1>7. /\ asked.network = ask.network /\ asked.mem = ask.mem
        /\ asked.cores = ask.cores /\ asked.port = ask.port
    BY <1>1
  <1>8. /\ kw.mem = ask.mem /\ kw.cores = ask.cores /\ kw.port = ask.port
        /\ kw.net = IF ask.network = Absent THEN Absent ELSE NetworkParam(ask.network)
    BY DEF CreateKwargs
  <1>9. ask.network # Absent => NetworkParam(ask.network) # Absent
    <2>1. ask.network # Absent => ask.network \in NetworkModes
      BY LibraryAssumption DEF Asks
    <2> QED BY <2>1, NetworkNames, KeepApart
  <1>10. Wished(mode, asked, Nothing, disk)
    <2> HIDE DEF kw
    <2>1. asked.network # Absent => Fits(NetworkParam(asked.network), n)
      BY <1>7, <1>8, <1>9 DEF ResolveNetwork, Fits
    <2>2. asked.mem # Absent => z.mem = asked.mem
      BY <1>7, <1>8 DEF Sizes
    <2>3. asked.cores # Absent => z.cores = Clamped(mode, asked.cores)
      BY <1>7, <1>8 DEF Sizes, Clamped
    <2>4. asked.port # Absent /\ (IsVm(mode) => n = "usermode") => p = asked.port
      <3> HIDE DEF n
      <3> QED BY <1>7, <1>8 DEF CreatePort
    <2> HIDE DEF n, z, p
    <2> QED BY <1>4, <2>1, <2>2, <2>3, <2>4 DEF Wished, Nothing
  <1>11. Kept(Nothing, disk)
    BY <1>2, <1>4, <1>5, <1>6, <1>10 DEF Kept, Whole, Runs
  <1>12. Rests
    BY <1>2, <1>11, WholeReaches DEF Rests
  <1> QED BY <1>3, <1>12 DEF InOrder

LEMMA InOrderKept == Types /\ Shape /\ InOrder /\ [Next]_vars => InOrder'
  <1> SUFFICES ASSUME Types, Shape, InOrder, [Next]_vars PROVE InOrder'
    OBVIOUS
  <1>1. Quiet /\ Rests /\ Forward /\ Living /\ Backward /\ Types'
    BY TypesKept DEF InOrder
  <1>2. Rests'
    <2>1. CASE UNCHANGED vars
      BY <1>1, <2>1, RestsStill DEF vars, Setting, Writing
    <2> QED BY <1>1, <2>1, RestsKeptByHandle, RestsKeptByOthers, RestsKeptBySteps
            DEF Next
  <1> QED BY <1>1, <1>2, QuietKept, ForwardKept, LivingKept, BackwardKept DEF InOrder

\* The inductive invariant of the handle, in every reachable state: whatever
\* is left to write leads to files in order, and what a setter that fails has
\* left to do leads back to those it began with.
THEOREM LibraryInvariant == Spec => [](Types /\ Shape /\ InOrder)
  <1>1. Types /\ Shape /\ InOrder /\ [Next]_vars => (Types /\ Shape /\ InOrder)'
    BY TypesKept, GuestShapeKept, CallShapeKept, InOrderKept DEF Shape
  <1> QED BY InitTyped, InOrderAtFirst, <1>1, PTL DEF Spec

-------------------------------------------------------------------------------
(* What the invariant says of a state at rest. *)

\* To ask again for a network that a disk has leaves it.
LEMMA FitsStays ==
  ASSUME NEW d, NEW n \in NetworkModes, Fits(NetworkParam(n), d.net)
  PROVE  d.net = NewNet(d, NetRequest(n))
  BY NetTyped DEF NewNet, KeepsNet, Fits

LEMMA AtRestKept ==
  ASSUME Types, InOrder, AtRest
  PROVE  Kept(Nothing, disk)
  BY RestsHere DEF InOrder, AtRest

\* When no set is under way the configuration of LXC or Proxmox, with the args
\* of a Proxmox VM, has the values of the kento-* files, also after a set that
\* was refused or failed and was put back; it has the interface of the network
\* on record, which is none for a bridge that nobody named.
THEOREM LibraryCopiesAgree == Spec => []CopiesAgree
  <1>1. Types /\ Shape /\ InOrder => CopiesAgree
    BY AtRestKept DEF CopiesAgree, Kept, Whole
  <1> QED BY LibraryInvariant, <1>1, PTL

\* A running guest has the limits, and a VM the forwards, that its files
\* record, whether it booted with them or a setter changed them live.
THEOREM LibraryRunsAsRecorded == Spec => []RunsAsRecorded
  <1>1. Types /\ Shape /\ InOrder => RunsAsRecorded
    <2> SUFFICES ASSUME Types, InOrder, AtRest, guest.up
                 PROVE  /\ \A k \in {"mem", "cores"} :
                             disk[k] # Absent => guest.live[k] = disk[k]
                        /\ IsVm(mode) => guest.live.port = disk.port
      BY DEF RunsAsRecorded
    <2>1. Runs(mode, guest, disk)
      BY AtRestKept DEF Kept
    <2> QED BY <2>1 DEF Runs
  <1> QED BY LibraryInvariant, <1>1, PTL

\* As long as nobody but the handle writes, what it remembers is what is on
\* disk, after its sets and also after those that failed and were put back; the
\* bridge of a network set without one may be there all the same.
THEOREM LibraryCacheTrue == Spec => []CacheTrue
  <1>1. Types /\ Shape /\ InOrder => CacheTrue
    <2> SUFFICES ASSUME Types, InOrder, AtRest, synced
                 PROVE  /\ disk.net = NewNet(disk, NetRequest(h.net))
                        /\ h.res.mem # Absent => h.res.mem = disk.mem
                        /\ h.res.cores # Absent => disk.cores = Clamped(mode, h.res.cores)
      BY DEF CacheTrue
    <2>1. Cached(mode, h, Nothing, disk)
      BY AtRestKept DEF Kept
    <2>2. disk.net = NewNet(disk, NetRequest(h.net))
      <3>1. h.net \in NetworkModes /\ Fits(NetworkParam(h.net), disk.net)
        BY <2>1 DEF Cached, Nothing, Types, HandleType
      <3> QED BY <3>1, FitsStays
    <2> QED BY <2>1, <2>2 DEF Cached, Nothing
  <1> QED BY LibraryInvariant, <1>1, PTL

\* The instance is what its owner asked create for, overlaid with every setter
\* that succeeded and none that failed, as long as nobody else sets it.
THEOREM LibraryAsAsked == Spec => []AsAsked
  <1>1. Types /\ Shape /\ InOrder => AsAsked
    <2> SUFFICES ASSUME Types, InOrder, AtRest
                 PROVE  /\ asked.network # Absent =>
                             disk.net = NewNet(disk, NetRequest(asked.network))
                        /\ Wished(mode, asked, Nothing, disk)
      BY DEF AsAsked, Wished, Nothing
    <2>1. Wished(mode, asked, Nothing, disk)
      BY AtRestKept DEF Kept
    <2>2. ASSUME asked.network # Absent
          PROVE  disk.net = NewNet(disk, NetRequest(asked.network))
      <3>1. /\ asked.network \in NetworkModes
            /\ Fits(NetworkParam(asked.network), disk.net)
        BY <2>1, <2>2 DEF Wished, Nothing, Types, WishType
      <3> QED BY <3>1, FitsStays
    <2> QED BY <2>1, <2>2
  <1> QED BY LibraryInvariant, <1>1, PTL

-------------------------------------------------------------------------------
(* The way back. *)

PutBack ==
  (/\ call.at \in {"probe", "reverse", "rewrite", "unkeep"}
   /\ call'.at = "idle" /\ call.alone /\ call.sure /\ plain')
  => /\ [disk' EXCEPT !.port = Absent, !.conf.args.port = Absent]
        = [call.before.disk EXCEPT !.port = Absent,
                                   !.conf.args.port = Absent]
     /\ guest'.live = call.before.live

\* Only four steps end a setter that is not granted, and none of them moves
\* the files or the guest.
LEMMA WhoEnds ==
  ASSUME Types, [Next]_vars, plain',
         call.at \in {"probe", "reverse", "rewrite", "unkeep"}, call'.at = "idle"
  PROVE  /\ UNCHANGED <<disk, guest>> /\ plain
         /\ \/ call.at = "probe"
            \/ call.at = "reverse" /\ disk = call.before.disk
            \/ call.at \in {"rewrite", "unkeep"} /\ call.todo = <<>>
  <1>0. call \in CallType
    BY DEF Types
  <1>1. \A a : Goes(a) => call'.at = a
    BY <1>0, CallFields DEF Goes
  <1>2. Overlaps => call'.at = call.at
    BY <1>0 DEF Overlaps, CallType
  <1>3. CASE SetProbe
    BY <1>1, <1>3, <1>0 DEF SetProbe, Returns, CallType
  <1>4. CASE SetCheck \/ SetDone \/ LiveStep \/ StopWaited \/ StopExpires
    BY <1>4 DEF SetCheck, SetDone, LiveStep, LiveApply, LiveFails, LiveKeep, LiveKept,
                LiveUndo, LiveUnkeep, StopWaited, StopExpires
  <1>5. CASE SetWrite
    <2>1. call'.at = call.at
      BY <1>0, <1>5 DEF SetWrite, CallType
    <2> QED BY <2>1
  <1>6. CASE SetWriteFails
    BY <1>1, <1>6 DEF SetWriteFails, Returns
  <1>7. CASE SetReverse
    <2>1. call'.at = "rewrite" \/ Returns(call.sure /\ call.alone /\ disk = call.before.disk)
      BY <1>0, <1>7 DEF SetReverse, CallType
    <2> QED BY <1>7, <2>1 DEF SetReverse, Returns
  <1>8. CASE SetReversed
    BY <1>8 DEF SetReversed, Returns
  <1>9. CASE Handle
    BY <1>9 DEF Handle, SetResources, SetNetwork, Begin, HandleStop, HandleDestroy,
                HandlePause, HandleStart, HandleRefresh, HandleScrub, Idle
  <1>10. CASE Others
    BY <1>2, <1>10 DEF Others, CliSet, CliWrite, CliDies, CliStart, GoesDown, CliPause
  <1>11. CASE UNCHANGED vars
    BY <1>11 DEF vars
  <1> QED BY <1>3, <1>4, <1>5, <1>6, <1>7, <1>8, <1>9, <1>10, <1>11
          DEF Next, Step, SetStep

LEMMA EndsWhereItBegan ==
  ASSUME Types, Shape, InOrder, [Next]_vars
  PROVE  PutBack
  <1> SUFFICES ASSUME call.at \in {"probe", "reverse", "rewrite", "unkeep"},
                      call'.at = "idle", call.alone, call.sure, plain'
               PROVE  /\ [disk' EXCEPT !.port = Absent, !.conf.args.port = Absent]
                         = [call.before.disk EXCEPT !.port = Absent,
                                                    !.conf.args.port = Absent]
                      /\ guest'.live = call.before.live
    BY DEF PutBack
  <1>1. /\ UNCHANGED <<disk, guest>> /\ plain /\ InCall
        /\ \/ call.at = "probe"
           \/ call.at = "reverse" /\ disk = call.before.disk
           \/ call.at \in {"rewrite", "unkeep"} /\ call.todo = <<>>
    BY WhoEnds DEF InCall, Setting, Writing
  <1>2. PICK b, l : b = call.before.disk /\ l = call.before.live
    OBVIOUS
  <1>3. b \in Disks /\ l \in Limits /\ disk \in Disks /\ guest.live \in Limits
    BY <1>1, <1>2 DEF Shape, CallShape, Started, Types, GuestType
  <1>4. Stage(b, l)
    BY <1>1, <1>2 DEF InOrder, Backward
  <1>5. Restored(disk, b)
    <2>1. CASE call.at \in {"probe", "reverse"}
      BY <1>1, <1>2, <1>4, <2>1 DEF Stage, Restored
    <2>2. CASE call.at \in {"rewrite", "unkeep"}
      <3>1. PICK g \in Disks : Reaches(call.todo, disk, g) /\ Restored(g, b)
        BY <1>4, <2>2 DEF Stage, GoingBack
      <3>2. call.todo = <<>>
        BY <1>1, <2>2
      <3>3. disk = g
        BY <1>3, <3>1, <3>2, NothingLeft
      <3> QED BY <3>1, <3>3
    <2> QED BY <2>1, <2>2
  <1>6. guest.live = l
    <2>1. CASE call.at # "unkeep"
      BY <1>4, <2>1 DEF Stage
    <2>2. CASE call.at = "unkeep"
      <3>1. LiveFrom(b, l) /\ call.undo = <<>>
        BY <1>4, <2>2 DEF Stage, LivePath, Shape, CallShape
      <3>2. guest.live.mem = l.mem /\ guest.live.cores = l.cores
            /\ guest.live.port = l.port
        BY <3>1 DEF LiveFrom, In
      <3> QED BY <1>3, <3>2 DEF Limits
    <2> QED BY <2>1, <2>2
  <1> QED BY <1>1, <1>2, <1>3, <1>5, <1>6, RestoredEqual

\* A setter that is refused or fails leaves the files, but for the forwards,
\* and the limits of the guest as they were when it began, if nobody else
\* acted meanwhile, the handle knew the old values and nothing failed on the
\* way back.
THEOREM LibraryRolledBack == Spec => RolledBack
  <1>1. Types /\ Shape /\ InOrder /\ [Next]_vars => [PutBack]_vars
    BY EndsWhereItBegan
  <1> QED BY LibraryInvariant, <1>1, PTL DEF Spec, RolledBack, PutBack
===============================================================================
