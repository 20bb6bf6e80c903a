---------------------------- MODULE ServicesProofs ----------------------------
(***************************************************************************)
(* The status of a working copy is read for every update that is           *)
(* scheduled, and its clients know it: for any number of clients and       *)
(* changes, in every order of the queues and the main run loop.            *)
(*                                                                         *)
(* The index of the bundles is current when the events are delivered, and  *)
(* the copy of the cache that is saved is right but for what is announced  *)
(* after it: for any bundles, changes, launches and ends of the            *)
(* application.                                                            *)
(***************************************************************************)
EXTENDS ScmStatus, BundleCache, TLAPS, SequenceTheorems, FiniteSetTheorems

Readers == [at : {"idle", "waiting", "sent"}] \cup [at : {"reading"}, status : Nat \cup {None}]
Blocks  == [do : {"attach"}, client : Clients] \cup [do : {"update"}, status : Nat, snapshot : Nat]
             \cup [do : {"done"}]

\* None is no number and no shared_info_t.
NoneIsNothing == None \notin Int \cup Infos

Types ==
  /\ driver \in BOOLEAN /\ files \in Nat /\ event \in BOOLEAN
  /\ shared \in Infos \cup {None} /\ reader \in Readers
  /\ finding \in Seq(Clients) /\ blocks \in Seq(Blocks)
  /\ client \in [Clients -> {"new", "dry", "attached", "closed"}] /\ told \in [Clients -> Int]
  /\ owed \in Int /\ disabled \in BOOLEAN /\ later \in BOOLEAN

\* At most one answer is under way: a status and the end of the update after it.
Has(bs, what) == \E i \in DOMAIN bs : bs[i].do = what
Shape(bs, at) ==
  /\ \A i, j \in DOMAIN bs :
       /\ bs[i].do = "done" /\ bs[j].do = "done" => i = j
       /\ bs[i].do = "update" /\ bs[j].do = "update" => i = j
       /\ bs[i].do = "update" /\ bs[j].do = "done" => i < j
  /\ (at = "sent") <=> Has(bs, "done")
  /\ at # "sent" => ~Has(bs, "update")

\* Nothing is under way for a shared_info_t that is gone, and files are watched
\* for its clients only.
Owners ==
  /\ shared = None => reader.at = "idle" /\ blocks = <<>>
  /\ event => shared # None /\ shared.clients # {}
  /\ shared # None => (shared.pending <=> reader.at # "idle")
  /\ \A c \in Clients : client[c] = "attached" <=> shared # None /\ c \in shared.clients

\* A status that is as new as the last change that an update was scheduled for
\* is what the shared_info_t has, or what is on its way to it.
NewEnough(bs) == \A i \in DOMAIN bs : bs[i].do = "update" => bs[i].status >= owed
Newest ==
  /\ owed <= files
  /\ NewEnough(blocks)
  /\ shared # None /\ reader.at \in {"idle", "sent"} /\ ~Has(blocks, "update") => shared.status >= owed
  /\ reader.at = "reading" => reader.status # None /\ reader.status >= owed

\* As long as no client has left.
Told ==
  /\ \A c \in Clients : client[c] = "attached" => told[c] = shared.status
  /\ \A c \in Clients : client[c] \in {"new", "dry"} => told[c] = Unknown
  /\ shared # None /\ shared.clients = {} => shared.status = Unknown /\ ~shared.pending /\ ~later

IndInv ==
  /\ Types /\ Shape(blocks, reader.at) /\ Owners
  /\ ~driver => Newest
  /\ (\A c \in Clients : client[c] # "closed") => Told

-----------------------------------------------------------------------------
\* The main run loop's blocks.
LEMMA Appending ==
  ASSUME NEW bs \in Seq(Blocks), NEW b \in Blocks
  PROVE  /\ Append(bs, b) \in Seq(Blocks) /\ DOMAIN Append(bs, b) = 1..(Len(bs) + 1)
         /\ DOMAIN bs = 1..Len(bs) /\ Len(bs) \in Nat
         /\ \A i \in 1..Len(bs) : Append(bs, b)[i] = bs[i]
         /\ Append(bs, b)[Len(bs) + 1] = b
<1>1. /\ Append(bs, b) \in Seq(Blocks) /\ Len(Append(bs, b)) = Len(bs) + 1
      /\ \A i \in 1..Len(bs) : Append(bs, b)[i] = bs[i]
      /\ Append(bs, b)[Len(bs) + 1] = b
  BY AppendProperties
<1>2. DOMAIN bs = 1..Len(bs) /\ Len(bs) \in Nat
  BY LenProperties
<1>3. DOMAIN Append(bs, b) = 1..Len(Append(bs, b))
  BY <1>1, LenProperties
<1> QED  BY <1>1, <1>2, <1>3

LEMMA Attaching ==
  ASSUME NEW bs \in Seq(Blocks), NEW at, Shape(bs, at), NEW b \in Blocks, b.do = "attach"
  PROVE  /\ Append(bs, b) \in Seq(Blocks) /\ Append(bs, b) # <<>>
         /\ Shape(Append(bs, b), at)
         /\ Has(Append(bs, b), "update") <=> Has(bs, "update")
         /\ NewEnough(bs) => NewEnough(Append(bs, b))
<1> DEFINE t == Append(bs, b)
<1>1. /\ t \in Seq(Blocks) /\ DOMAIN t = 1..(Len(bs) + 1) /\ DOMAIN bs = 1..Len(bs) /\ Len(bs) \in Nat
      /\ \A i \in 1..Len(bs) : t[i] = bs[i]
      /\ t[Len(bs) + 1] = b
  BY Appending
<1> HIDE DEF t
<1>2. \A i \in DOMAIN t : t[i].do # "attach" => i \in DOMAIN bs /\ t[i] = bs[i]
  BY <1>1
<1>3. \A i \in DOMAIN bs : i \in DOMAIN t /\ t[i] = bs[i]
  BY <1>1
<1>4. (Has(t, "update") <=> Has(bs, "update")) /\ (Has(t, "done") <=> Has(bs, "done"))
  BY <1>2, <1>3 DEF Has
<1>5. Shape(t, at)
  BY <1>2, <1>4 DEF Shape
<1>6. NewEnough(bs) => NewEnough(t)
  BY <1>2 DEF NewEnough
<1>7. t # <<>>
  BY <1>1
<1> QED  BY <1>1, <1>4, <1>5, <1>6, <1>7 DEF t

LEMMA Running ==
  ASSUME NEW bs \in Seq(Blocks), bs # <<>>
  PROVE  /\ Tail(bs) \in Seq(Blocks) /\ Head(bs) = bs[1] /\ Head(bs) \in Blocks /\ 1 \in DOMAIN bs
         /\ \A i \in DOMAIN bs : i # 1 => i - 1 \in DOMAIN Tail(bs) /\ Tail(bs)[i - 1] = bs[i]
         /\ \A i \in DOMAIN Tail(bs) : i \in Nat /\ i + 1 \in DOMAIN bs /\ Tail(bs)[i] = bs[i + 1]
<1>1. /\ Tail(bs) \in Seq(Blocks) /\ Len(Tail(bs)) = Len(bs) - 1 /\ Head(bs) \in Blocks
      /\ \A i \in 1..Len(Tail(bs)) : Tail(bs)[i] = bs[i + 1]
  BY HeadTailProperties
<1>2. DOMAIN bs = 1..Len(bs) /\ Len(bs) \in Nat /\ Len(bs) # 0
  BY LenProperties, EmptySeq
<1>3. DOMAIN Tail(bs) = 1..Len(Tail(bs))
  BY <1>1, LenProperties
<1>4. Head(bs) = bs[1]
  OBVIOUS
<1> QED  BY <1>1, <1>2, <1>3, <1>4

LEMMA Taking ==
  ASSUME NEW bs \in Seq(Blocks), bs # <<>>, NEW at, Shape(bs, at)
  PROVE  /\ Tail(bs) \in Seq(Blocks)
         /\ NewEnough(bs) => NewEnough(Tail(bs))
         /\ Head(bs).do = "attach" => Shape(Tail(bs), at) /\ (Has(Tail(bs), "update") <=> Has(bs, "update"))
         /\ Head(bs).do = "update" => at = "sent" /\ Shape(Tail(bs), at) /\ ~Has(Tail(bs), "update") /\ Has(bs, "update")
         /\ Head(bs).do = "done" => at = "sent" /\ Shape(Tail(bs), "idle") /\ ~Has(Tail(bs), "update") /\ ~Has(bs, "update")
<1> DEFINE t == Tail(bs)
<1>1. /\ t \in Seq(Blocks) /\ Head(bs) = bs[1] /\ 1 \in DOMAIN bs
      /\ \A i \in DOMAIN bs : i # 1 => i - 1 \in DOMAIN t /\ t[i - 1] = bs[i]
      /\ \A i \in DOMAIN t : i \in Nat /\ i + 1 \in DOMAIN bs /\ t[i] = bs[i + 1]
  BY Running
<1>2. DOMAIN bs = 1..Len(bs) /\ Len(bs) \in Nat /\ DOMAIN t = 1..Len(t) /\ Len(t) \in Nat
  BY <1>1, LenProperties
<1> HIDE DEF t
<1>3. NewEnough(bs) => NewEnough(t)
  BY <1>1 DEF NewEnough
<1>4. /\ \A w \in {"update", "done"} : Has(t, w) => Has(bs, w)
      /\ \A w \in {"update", "done"} : Has(bs, w) /\ Head(bs).do # w => Has(t, w)
  BY ZenonT(30), <1>1 DEF Has
<1>5. \A i, j \in DOMAIN t :
        /\ t[i].do = "done" /\ t[j].do = "done" => i = j
        /\ t[i].do = "update" /\ t[j].do = "update" => i = j
        /\ t[i].do = "update" /\ t[j].do = "done" => i < j
  <2> TAKE i, j \in DOMAIN t
  <2>1. i + 1 \in DOMAIN bs /\ j + 1 \in DOMAIN bs /\ t[i] = bs[i + 1] /\ t[j] = bs[j + 1] /\ i \in Nat /\ j \in Nat
    BY <1>1
  <2>2. /\ bs[i + 1].do = "done" /\ bs[j + 1].do = "done" => i + 1 = j + 1
        /\ bs[i + 1].do = "update" /\ bs[j + 1].do = "update" => i + 1 = j + 1
        /\ bs[i + 1].do = "update" /\ bs[j + 1].do = "done" => i + 1 < j + 1
    BY <2>1 DEF Shape
  <2> QED  BY <2>1, <2>2
<1>6. CASE Head(bs).do = "attach"
  BY <1>1, <1>3, <1>4, <1>5, <1>6 DEF Shape, t
<1>7. CASE Head(bs).do = "update"
  <2>1. Has(bs, "update") /\ at = "sent"
    BY <1>1, <1>7 DEF Has, Shape
  <2>2. ~Has(t, "update")
    <3> SUFFICES ASSUME NEW i \in DOMAIN t, t[i].do = "update" PROVE FALSE
      BY DEF Has
    <3>1. i + 1 \in DOMAIN bs /\ bs[i + 1].do = "update" /\ i \in Nat /\ i # 0
      BY <1>1, <1>2
    <3>2. i + 1 = 1
      BY <1>1, <1>7, <3>1 DEF Shape
    <3> QED  BY <3>1, <3>2
  <2> QED  BY <1>1, <1>3, <1>4, <1>5, <1>7, <2>1, <2>2 DEF Shape, t
<1>8. CASE Head(bs).do = "done"
  <2>1. at = "sent"
    BY <1>1, <1>8 DEF Has, Shape
  <2>2. ~Has(t, "done")
    <3> SUFFICES ASSUME NEW i \in DOMAIN t, t[i].do = "done" PROVE FALSE
      BY DEF Has
    <3>1. i + 1 \in DOMAIN bs /\ bs[i + 1].do = "done" /\ i \in Nat /\ i # 0
      BY <1>1, <1>2
    <3>2. i + 1 = 1
      BY <1>1, <1>8, <3>1 DEF Shape
    <3> QED  BY <3>1, <3>2
  <2>3. ~Has(bs, "update")
    <3> SUFFICES ASSUME NEW i \in DOMAIN bs, bs[i].do = "update" PROVE FALSE
      BY DEF Has
    <3>1. i < 1 /\ i \in 1..Len(bs)
      BY <1>1, <1>2, <1>8 DEF Shape
    <3> QED  BY <3>1
  <2>4. ~Has(t, "update")
    BY <1>4, <2>3
  <2> QED  BY <1>1, <1>3, <1>5, <1>8, <2>1, <2>2, <2>3, <2>4 DEF Shape, t
<1> QED  BY <1>1, <1>3, <1>6, <1>7, <1>8 DEF t, Running

LEMMA Answering ==
  ASSUME NoneIsNothing, NEW bs \in Seq(Blocks), NEW at, at # "sent", Shape(bs, at),
         NEW st \in Nat \cup {None}, files \in Nat
  PROVE  /\ bs \o Answer(st) \in Seq(Blocks)
         /\ Shape(bs \o Answer(st), "sent")
         /\ Has(bs \o Answer(st), "update") <=> st # None
         /\ st = None \/ st >= owed => NewEnough(bs \o Answer(st))
<1> DEFINE n == Len(bs)
           e == [do |-> "done"]
<1>1. n \in Nat /\ DOMAIN bs = 1..n
  BY LenProperties
<1>2. e \in Blocks
  BY DEF Blocks
<1>3. ~Has(bs, "done") /\ ~Has(bs, "update")
  BY DEF Shape
<1>4. \A i \in 1..n : bs[i].do # "done" /\ bs[i].do # "update"
  BY <1>1, <1>3 DEF Has
<1>5. CASE st = None
  <2> DEFINE t == Append(bs, e)
  <2>1. bs \o Answer(st) = t
    <3>1. Answer(st) = <<>> \o <<e>>
      BY <1>5 DEF Answer
    <3>2. Answer(st) = <<e>>
      BY <3>1, <1>2, ConcatEmptySeq
    <3> QED  BY <1>2, <3>2, AppendIsConcat
  <2>2. /\ t \in Seq(Blocks) /\ DOMAIN t = 1..(n + 1) /\ t[n + 1] = e
        /\ \A i \in 1..n : t[i] = bs[i]
    BY <1>2, Appending
  <2> HIDE DEF t, e, n
  <2>3. e.do = "done"
    BY DEF e
  <2>4. \A i \in DOMAIN t : t[i].do # "update" /\ (t[i].do = "done" <=> i = n + 1)
    BY <1>1, <1>4, <2>2, <2>3
  <2>5. Has(t, "done") /\ ~Has(t, "update")
    BY <1>1, <2>2, <2>4 DEF Has
  <2>6. Shape(t, "sent") /\ NewEnough(t)
    BY <2>4, <2>5 DEF Shape, NewEnough
  <2> QED  BY <1>5, <2>1, <2>2, <2>5, <2>6
<1>6. CASE st # None
  <2> DEFINE u == [do |-> "update", status |-> st, snapshot |-> files]
             m == Append(bs, u)
             t == Append(m, e)
  <2>1. u \in Blocks
    BY <1>6 DEF Blocks
  <2>2. /\ m \in Seq(Blocks) /\ DOMAIN m = 1..(n + 1) /\ m[n + 1] = u /\ \A i \in 1..n : m[i] = bs[i]
    BY <2>1, Appending
  <2>3. Len(m) = n + 1
    BY <2>1, AppendProperties
  <2>4. /\ t \in Seq(Blocks) /\ DOMAIN t = 1..(Len(m) + 1) /\ t[Len(m) + 1] = e /\ \A i \in 1..Len(m) : t[i] = m[i]
    <3> HIDE DEF m
    <3> QED  BY <1>2, <2>2, Appending
  <2>5. bs \o Answer(st) = t
    <3>1. Answer(st) = <<u>> \o <<e>>
      BY <1>6 DEF Answer
    <3> HIDE DEF u, e
    <3>2. <<u>> \in Seq(Blocks) /\ <<e>> \in Seq(Blocks)
      BY <1>2, <2>1
    <3>3. bs \o (<<u>> \o <<e>>) = (bs \o <<u>>) \o <<e>>
      BY <3>2, ConcatAssociative
    <3>4. m = bs \o <<u>>
      BY <2>1, AppendIsConcat
    <3>5. t = m \o <<e>>
      <4> HIDE DEF m
      <4> QED  BY <1>2, <2>2, AppendIsConcat
    <3> QED  BY <3>1, <3>3, <3>4, <3>5
  <2>6. u.do = "update" /\ u.status = st /\ e.do = "done"
    OBVIOUS
  <2> HIDE DEF t, m, u, e, n
  <2>7. DOMAIN t = 1..(n + 2) /\ t[n + 1] = u /\ t[n + 2] = e /\ \A i \in 1..n : t[i] = bs[i]
    <3>1. Len(m) + 1 = n + 2 /\ n + 1 \in 1..Len(m) /\ \A i \in 1..n : i \in 1..Len(m)
      BY <1>1, <2>3
    <3> QED  BY <2>2, <2>4, <3>1
  <2>8. \A i \in DOMAIN t : (t[i].do = "update" <=> i = n + 1) /\ (t[i].do = "done" <=> i = n + 2)
    <3> TAKE i \in DOMAIN t
    <3>1. i \in 1..n \/ i = n + 1 \/ i = n + 2
      BY <1>1, <2>7
    <3>2. i = n + 1 => i # n + 2
      BY <1>1
    <3>3. i \in 1..n => i # n + 1 /\ i # n + 2
      BY <1>1
    <3> QED  BY <1>4, <2>6, <2>7, <3>1, <3>2, <3>3
  <2>9. n + 1 \in DOMAIN t /\ n + 2 \in DOMAIN t /\ n + 1 < n + 2
    BY <1>1, <2>7
  <2>10. Has(t, "done") /\ Has(t, "update")
    BY <2>8, <2>9 DEF Has
  <2>11. Shape(t, "sent")
    BY <2>8, <2>9, <2>10 DEF Shape
  <2>12. st >= owed => NewEnough(t)
    BY <2>6, <2>7, <2>8 DEF NewEnough
  <2> QED  BY <1>6, <2>4, <2>5, <2>10, <2>11, <2>12
<1> QED  BY <1>5, <1>6

-----------------------------------------------------------------------------
LEMMA InitInd == ASSUME NoneIsNothing, Init PROVE IndInv
<1>1. Types
  <2>1. finding \in Seq(Clients) /\ blocks \in Seq(Blocks)
    BY EmptySeq DEF Init
  <2>2. told \in [Clients -> Int] /\ client \in [Clients -> {"new", "dry", "attached", "closed"}] /\ owed \in Int
    BY DEF Init, Unknown
  <2> QED  BY <2>1, <2>2 DEF Init, Types, Readers
<1>2. Shape(blocks, reader.at) /\ Owners
  BY DEF Init, Shape, Owners, Has
<1>3. Newest
  BY DEF Init, Newest, NewEnough, Unknown, Has
<1>4. Told
  BY DEF Init, Told, Unknown
<1> QED  BY <1>1, <1>2, <1>3, <1>4 DEF IndInv

\* What an update that is scheduled, or that others will do, leaves in order.
LEMMA Scheduling ==
  ASSUME NoneIsNothing, IndInv, shared # None,
         NEW s \in Infos, s.status = shared.status, s.pending = shared.pending,
         Schedule(s, reader), UNCHANGED <<driver, files, blocks>>
  PROVE  /\ shared' \in Infos /\ shared' # None /\ reader' \in Readers /\ owed' \in Int /\ later' \in BOOLEAN
         /\ Shape(blocks', reader'.at)
         /\ shared'.status = s.status /\ shared'.clients = s.clients
         /\ shared'.pending <=> reader'.at # "idle"
         /\ ~driver => Newest'
<1>1. /\ shared \in Infos /\ reader \in Readers /\ owed \in Int /\ later \in BOOLEAN /\ files \in Nat
      /\ (shared.pending <=> reader.at # "idle") /\ Shape(blocks, reader.at) /\ (~driver => Newest)
  BY DEF IndInv, Types, Owners
<1>2. CASE disabled \/ s.pending
  <2>1. shared' = s /\ reader' = reader /\ owed' = owed /\ later' \in BOOLEAN
    BY <1>1, <1>2 DEF Schedule
  <2> QED  BY <1>1, <2>1 DEF Newest, NewEnough, NoneIsNothing
<1>3. CASE ~disabled /\ ~s.pending
  <2>1. shared' = [s EXCEPT !.pending = TRUE] /\ reader' = [at |-> "waiting"] /\ owed' = files /\ later' = later
    BY <1>3 DEF Schedule
  <2>2. shared' \in Infos /\ shared'.status = s.status /\ shared'.clients = s.clients /\ shared'.pending
    BY <2>1 DEF Infos
  <2>3. reader' \in Readers /\ reader'.at = "waiting"
    BY <2>1 DEF Readers
  <2>4. reader.at = "idle"
    BY <1>1, <1>3
  <2>5. ~Has(blocks, "update") /\ Shape(blocks, "waiting")
    BY <1>1, <2>4 DEF Shape
  <2>6. NewEnough(blocks)'
    BY <2>5 DEF NewEnough, Has
  <2>7. Newest'
    BY <1>1, <2>1, <2>3, <2>6 DEF Newest
  <2>8. shared' # None
    BY <2>2 DEF NoneIsNothing
  <2> QED  BY <1>1, <2>1, <2>2, <2>3, <2>5, <2>7, <2>8
<1> QED  BY <1>2, <1>3

LEMMA Releasing ==
  ASSUME NoneIsNothing, NEW s \in Infos, NEW rd, NEW bs, Release(s, rd, bs)
  PROVE  \/ shared' = s /\ reader' = rd /\ blocks' = bs
         \/ s.clients = {} /\ shared' = None /\ reader' = [at |-> "idle"] /\ blocks' = <<>>
BY DEF Release, Alive, NoneIsNothing

\* What is gone owes nothing.
LEMMA Gone ==
  ASSUME NoneIsNothing, shared' = None, reader' = [at |-> "idle"], blocks' = <<>>
  PROVE  /\ shared' \in Infos \cup {None} /\ reader' \in Readers /\ blocks' \in Seq(Blocks)
         /\ Shape(blocks', reader'.at)
         /\ (owed <= files)' => Newest'
<1>1. DOMAIN blocks' = {}
  OBVIOUS
<1> QED  BY <1>1, EmptySeq DEF Readers, Shape, Has, Newest, NewEnough

LEMMA StepInd == ASSUME NoneIsNothing, IndInv, [Next]_vars PROVE IndInv'
<1>0. /\ Types /\ Shape(blocks, reader.at) /\ Owners /\ (~driver => Newest)
      /\ ((\A c \in Clients : client[c] # "closed") => Told)
  BY DEF IndInv
<1>1. CASE Change
  <2>1. UNCHANGED <<driver, shared, reader, finding, blocks, client, told, owed, disabled, later>> /\ files' = files + 1
        /\ event' = (shared # None /\ shared.clients # {})
    BY <1>1 DEF Change
  <2> QED  BY <1>0, <2>1 DEF IndInv, Types, Owners, Newest, NewEnough, Told
<1>2. CASE FsDidChange
  <2>1. event /\ event' = FALSE /\ Schedule(shared, reader) /\ UNCHANGED <<driver, files, finding, blocks, client, told, disabled>>
    BY <1>2 DEF FsDidChange
  <2>2. shared # None /\ shared \in Infos /\ shared.clients # {}
    BY <1>0, <2>1 DEF Owners, Types
  <2>3. /\ shared' \in Infos /\ shared' # None /\ reader' \in Readers /\ owed' \in Int /\ later' \in BOOLEAN
        /\ Shape(blocks', reader'.at)
        /\ shared'.status = shared.status /\ shared'.clients = shared.clients
        /\ (shared'.pending <=> reader'.at # "idle")
        /\ (~driver => Newest')
    BY <2>1, <2>2, Scheduling
  <2>4. Types'
    BY <1>0, <2>1, <2>3 DEF Types
  <2>5. Owners' /\ (Told => Told')
    BY <1>0, <2>1, <2>2, <2>3 DEF Owners, Told
  <2> QED  BY <1>0, <2>1, <2>3, <2>4, <2>5 DEF IndInv
<1>3. CASE \E c \in Clients : Open(c)
  <2>1. PICK c \in Clients : Open(c)
    BY <1>3
  <2>2. client[c] = "new" /\ UNCHANGED <<driver, files, disabled>>
    BY <2>1 DEF Open
  <2>3. CASE shared = None
    <3>1. /\ client' = [client EXCEPT ![c] = "dry"] /\ told' = [told EXCEPT ![c] = Unknown]
          /\ finding' = Append(finding, c) /\ UNCHANGED <<event, shared, reader, owed, later, blocks>>
      BY <2>1, <2>3 DEF Open
    <3>2. finding' \in Seq(Clients)
      BY <1>0, <3>1, AppendProperties DEF Types
    <3>3. Types'
      BY <1>0, <2>2, <3>1, <3>2 DEF Types, Unknown
    <3>4. Owners' /\ (~driver => Newest')
      BY <1>0, <2>2, <3>1 DEF Types, Owners, Newest, NewEnough
    <3>5. (\A d \in Clients : client'[d] # "closed") => (\A d \in Clients : client[d] # "closed")
      BY <1>0, <2>2, <3>1 DEF Types
    <3>6. Told => Told'
      BY <1>0, <2>2, <3>1 DEF Types, Told, Unknown
    <3> QED  BY <1>0, <2>2, <3>1, <3>3, <3>4, <3>5, <3>6 DEF IndInv
  <2>4. CASE shared # None
    <3> DEFINE s == [shared EXCEPT !.clients = @ \cup {c}]
    <3>1. /\ client' = [client EXCEPT ![c] = "attached"] /\ blocks' = blocks
          /\ (finding' = finding \/ finding' = Append(finding, c))
          /\ told' = [told EXCEPT ![c] = s.status]
          /\ IF s.clients = {c} THEN event' = FALSE /\ Schedule(s, reader)
             ELSE shared' = s /\ UNCHANGED <<event, reader, owed, later>>
      BY <2>1, <2>4 DEF Open
    <3>2. s \in Infos /\ s.status = shared.status /\ s.pending = shared.pending /\ s.clients = shared.clients \cup {c}
      <4>1. shared \in Infos
        BY <1>0, <2>4 DEF Types
      <4> QED  BY <4>1 DEF Infos
    <3> HIDE DEF s
    <3>3. /\ shared' \in Infos /\ shared' # None /\ reader' \in Readers /\ owed' \in Int /\ later' \in BOOLEAN
          /\ Shape(blocks', reader'.at)
          /\ shared'.status = s.status /\ shared'.clients = s.clients
          /\ (shared'.pending <=> reader'.at # "idle")
          /\ (~driver => Newest')
      <4>1. CASE s.clients = {c}
        BY <2>2, <2>4, <3>1, <3>2, <4>1, Scheduling
      <4>2. CASE s.clients # {c}
        BY <1>0, <2>2, <2>4, <3>1, <3>2, <4>2 DEF Types, Owners, Newest, NewEnough, NoneIsNothing
      <4> QED  BY <4>1, <4>2
    <3>4. Types'
      <4>1. finding \in Seq(Clients)
        BY <1>0 DEF Types
      <4>2. Append(finding, c) \in Seq(Clients)
        BY <2>1, <4>1, AppendProperties
      <4>3. finding' = finding \/ finding' = Append(finding, c)
        BY <3>1
      <4>4. finding' \in Seq(Clients)
        BY <4>1, <4>2, <4>3
      <4> QED  BY <1>0, <2>2, <3>1, <3>2, <3>3, <4>4 DEF Types, Infos
    <3>5. Owners'
      BY <1>0, <2>2, <2>4, <3>1, <3>2, <3>3 DEF Types, Owners
    <3>6. (\A d \in Clients : client'[d] # "closed") => Told'
      BY <1>0, <2>2, <2>4, <3>1, <3>2, <3>3 DEF Types, Told
    <3> QED  BY <2>2, <3>3, <3>4, <3>5, <3>6 DEF IndInv
  <2> QED  BY <2>3, <2>4
<1>4. CASE FindSharedInfo
  <2> DEFINE b == [do |-> "attach", client |-> Head(finding)]
  <2>1. /\ finding # <<>> /\ finding' = Tail(finding)
        /\ shared' = (IF shared = None THEN NewInfo ELSE shared)
        /\ blocks' = Append(blocks, b)
        /\ owed' = (IF shared = None THEN Unknown ELSE owed)
        /\ later' = (later /\ shared # None)
        /\ UNCHANGED <<driver, files, event, reader, client, told, disabled>>
    BY <1>4 DEF FindSharedInfo
  <2>2. finding' \in Seq(Clients) /\ b \in Blocks /\ b.do = "attach"
    BY <1>0, <2>1, HeadTailProperties DEF Types, Blocks
  <2> HIDE DEF b
  <2>3. /\ blocks' \in Seq(Blocks) /\ blocks' # <<>> /\ Shape(blocks', reader.at)
        /\ (Has(blocks', "update") <=> Has(blocks, "update"))
        /\ (NewEnough(blocks) => NewEnough(Append(blocks, b)))
    BY <1>0, <2>1, <2>2, Attaching DEF Types
  <2>4. NewInfo \in Infos /\ NewInfo.status = Unknown /\ NewInfo.clients = {} /\ ~NewInfo.pending
    BY DEF NewInfo, Infos, Unknown
  <2>5. shared' \in Infos /\ shared' # None
    BY <1>0, <2>1, <2>4 DEF Types, NoneIsNothing
  <2>6. Types'
    BY <1>0, <2>1, <2>2, <2>3, <2>5 DEF Types, Unknown
  <2>7. Owners'
    BY <1>0, <2>1, <2>3, <2>4, <2>5 DEF Owners
  <2>8. ~driver => Newest'
    <3>1. CASE shared = None
      <4>1. ~Has(blocks', "update")
        BY <1>0, <2>3, <3>1 DEF Owners, Has
      <4>2. NewEnough(blocks)'
        BY <4>1 DEF NewEnough, Has
      <4>3. reader.at = "idle" /\ owed' = -1 /\ shared'.status = -1 /\ files \in Nat
        BY <1>0, <2>1, <2>4, <3>1 DEF Owners, Unknown, Types
      <4> QED  BY <2>1, <4>1, <4>2, <4>3 DEF Newest
    <3>2. CASE shared # None
      <4>1. NewEnough(blocks) => NewEnough(blocks)'
        BY <2>1, <2>3, <3>2 DEF NewEnough
      <4> QED  BY <1>0, <2>1, <2>3, <3>2, <4>1 DEF Newest
    <3> QED  BY <3>1, <3>2
  <2>9. Told => Told'
    BY <1>0, <2>1, <2>4 DEF Told, Owners
  <2> QED  BY <1>0, <2>1, <2>3, <2>6, <2>7, <2>8, <2>9 DEF IndInv
<1>5. CASE Attach
  <2> DEFINE c == Head(blocks).client
  <2>1. blocks # <<>> /\ Head(blocks).do = "attach" /\ UNCHANGED <<driver, files, finding, disabled>>
    BY <1>5 DEF Attach
  <2>2. /\ Tail(blocks) \in Seq(Blocks) /\ Shape(Tail(blocks), reader.at)
        /\ (Has(Tail(blocks), "update") <=> Has(blocks, "update"))
        /\ (NewEnough(blocks) => NewEnough(Tail(blocks)))
    BY <1>0, <2>1, Taking DEF Types
  <2>3. shared # None /\ shared \in Infos
    BY <1>0, <2>1 DEF Owners, Types
  <2>4. Head(blocks) \in Blocks /\ c \in Clients
    <3>1. Head(blocks) \in Blocks
      BY <1>0, <2>1, HeadTailProperties DEF Types
    <3> QED  BY <2>1, <3>1 DEF Blocks
  <2>5. CASE client[c] \in {"dry", "attached"}
    <3> DEFINE s == [shared EXCEPT !.clients = @ \cup {c}]
    <3>1. /\ client' = [client EXCEPT ![c] = "attached"] /\ blocks' = Tail(blocks)
          /\ IF s.clients = {c} THEN event' = FALSE /\ Schedule(s, reader) /\ UNCHANGED told
             ELSE /\ shared' = s /\ told' = [told EXCEPT ![c] = s.status] /\ UNCHANGED <<event, reader, owed, later>>
      BY <1>5, <2>5 DEF Attach, AddClient
    <3>2. s \in Infos /\ s.status = shared.status /\ s.pending = shared.pending /\ s.clients = shared.clients \cup {c}
      BY <2>3, <2>4 DEF Infos
    <3> HIDE DEF s, c
    <3>3. /\ shared' \in Infos /\ shared' # None /\ reader' \in Readers /\ owed' \in Int /\ later' \in BOOLEAN
          /\ Shape(blocks', reader'.at)
          /\ shared'.status = s.status /\ shared'.clients = s.clients
          /\ (shared'.pending <=> reader'.at # "idle")
          /\ (~driver => Newest')
      <4>1. CASE s.clients = {c} /\ ~disabled /\ ~s.pending
        <5>1. /\ shared' = [s EXCEPT !.pending = TRUE] /\ reader' = [at |-> "waiting"] /\ owed' = files /\ later' = later
          BY <3>1, <4>1 DEF Schedule
        <5>2. shared' \in Infos /\ shared'.status = s.status /\ shared'.clients = s.clients /\ shared'.pending
          BY <3>2, <5>1 DEF Infos
        <5>3. reader.at = "idle" /\ reader' \in Readers /\ reader'.at = "waiting"
          BY <1>0, <2>3, <3>2, <4>1, <5>1 DEF Owners, Readers
        <5>4. ~Has(blocks', "update") /\ Shape(blocks', "waiting")
          BY <2>2, <3>1, <5>3 DEF Shape
        <5>5. NewEnough(blocks)'
          BY <5>4 DEF NewEnough, Has
        <5>6. owed' = files /\ files \in Nat /\ owed' \in Int /\ later' \in BOOLEAN
          BY <1>0, <5>1 DEF Types
        <5>7. shared' # None
          BY <5>2 DEF NoneIsNothing
        <5> QED  BY <2>1, <5>2, <5>3, <5>4, <5>5, <5>6, <5>7 DEF Newest
      <4>2. CASE ~(s.clients = {c} /\ ~disabled /\ ~s.pending)
        <5>1. shared' = s /\ reader' = reader /\ owed' = owed /\ later' \in BOOLEAN
          BY <1>0, <3>1, <4>2 DEF Schedule, Types
        <5>2. NewEnough(blocks) => NewEnough(blocks)'
          BY <2>2, <3>1, <5>1 DEF NewEnough
        <5>3. s # None
          BY <3>2 DEF NoneIsNothing
        <5>4. ~driver => Newest'
          BY <1>0, <2>1, <2>2, <2>3, <3>1, <3>2, <5>1, <5>2, <5>3 DEF Newest
        <5>5. (shared'.pending <=> reader'.at # "idle") /\ reader \in Readers /\ owed \in Int
          BY <1>0, <2>3, <3>2, <5>1 DEF Owners, Types
        <5> QED  BY <2>2, <3>1, <3>2, <5>1, <5>3, <5>4, <5>5
      <4> QED  BY <4>1, <4>2
    <3>4. told' \in [Clients -> Int] /\ event' \in BOOLEAN
      BY <1>0, <3>1, <3>2, <2>4 DEF Types, Infos
    <3>5. Types'
      BY <1>0, <2>1, <2>2, <2>4, <3>1, <3>3, <3>4 DEF Types
    <3>6. Owners'
      BY <1>0, <2>1, <2>3, <2>4, <3>1, <3>2, <3>3 DEF Types, Owners
    <3>7. (\A d \in Clients : client'[d] # "closed") => Told'
      <4> SUFFICES ASSUME \A d \in Clients : client'[d] # "closed" PROVE Told'
        OBVIOUS
      <4>1. \A d \in Clients : client[d] # "closed"
        BY <1>0, <2>4, <2>5, <3>1 DEF Types, c
      <4>2. Told /\ client[c] \in {"dry", "attached"}
        BY <1>0, <2>5, <4>1 DEF c
      <4>3. client[c] = "dry" /\ s.clients = {c} => shared.clients = {}
        BY <1>0, <2>3, <2>4, <3>2, <4>2 DEF Owners, c
      <4>4. told'[c] = s.status
        BY <1>0, <2>3, <2>4, <3>1, <3>2, <4>2, <4>3 DEF Told, Types
      <4>5. \A d \in Clients : d # c => client'[d] = client[d] /\ told'[d] = told[d]
        BY <1>0, <3>1, <2>4 DEF Types
      <4>6. shared'.clients # {} /\ shared'.status = shared.status /\ client'[c] = "attached"
        BY <1>0, <2>4, <3>1, <3>2, <3>3 DEF Types
      <4> QED  BY <3>2, <4>2, <4>4, <4>5, <4>6 DEF Told
    <3> QED  BY <2>1, <3>3, <3>5, <3>6, <3>7 DEF IndInv
  <2>6. CASE client[c] \notin {"dry", "attached"}
    <3>1. Release(shared, reader, Tail(blocks)) /\ UNCHANGED <<event, owed, later, told, client>>
      BY <1>5, <2>6 DEF Attach
    <3>2. CASE shared' = shared /\ reader' = reader /\ blocks' = Tail(blocks)
      <4>1. Types'
        BY <1>0, <2>1, <2>2, <3>1, <3>2 DEF Types
      <4>2. Owners' /\ Shape(blocks', reader'.at)
        BY <1>0, <2>2, <2>3, <3>1, <3>2 DEF Owners
      <4>3. NewEnough(blocks) => NewEnough(blocks)'
        BY <2>2, <3>1, <3>2 DEF NewEnough
      <4>4. ~driver => Newest'
        BY <1>0, <2>1, <2>2, <2>3, <3>1, <3>2, <4>3 DEF Newest
      <4>5. Told => Told'
        BY <3>1, <3>2 DEF Told
      <4> QED  BY <1>0, <2>1, <3>1, <4>1, <4>2, <4>4, <4>5 DEF IndInv
    <3>3. CASE shared.clients = {} /\ shared' = None /\ reader' = [at |-> "idle"] /\ blocks' = <<>>
      <4>1. /\ shared' \in Infos \cup {None} /\ reader' \in Readers /\ blocks' \in Seq(Blocks)
            /\ Shape(blocks', reader'.at) /\ ((owed <= files)' => Newest')
        BY <3>3, Gone
      <4>2. Types'
        BY <1>0, <2>1, <3>1, <4>1 DEF Types
      <4>3. ~event /\ \A d \in Clients : client[d] # "attached"
        BY <1>0, <3>3 DEF Owners
      <4>4. Owners'
        BY <3>1, <3>3, <4>3 DEF Owners
      <4>5. (~driver => Newest') /\ (Told => Told')
        BY <1>0, <2>1, <3>1, <3>3, <4>1, <4>3 DEF Newest, Told
      <4> QED  BY <1>0, <2>1, <3>1, <4>1, <4>2, <4>4, <4>5 DEF IndInv
    <3> QED  BY <2>3, <3>1, <3>2, <3>3, Releasing
  <2> QED  BY <2>5, <2>6
<1>6. CASE \E c \in Clients : Close(c)
  <2>1. PICK c \in Clients : Close(c)
    BY <1>6
  <2>2. /\ client[c] \in {"dry", "attached"} /\ client' = [client EXCEPT ![c] = "closed"]
        /\ UNCHANGED <<finding, driver, files, told, owed, disabled, later>>
    BY <2>1 DEF Close
  <2>3. client' \in [Clients -> {"new", "dry", "attached", "closed"}] /\ client'[c] = "closed"
        /\ \A d \in Clients : d # c => client'[d] = client[d]
    BY <1>0, <2>2 DEF Types
  <2>4. CASE client[c] = "dry"
    <3>1. UNCHANGED <<shared, reader, blocks, event>>
      BY <2>1, <2>4 DEF Close
    <3>2. Types' /\ Owners' /\ (~driver => Newest')
      BY <1>0, <2>2, <2>3, <2>4, <3>1 DEF Types, Owners, Newest, NewEnough
    <3> QED  BY <1>0, <2>2, <2>3, <3>1, <3>2 DEF IndInv
  <2>5. CASE client[c] = "attached"
    <3> DEFINE s == [shared EXCEPT !.clients = @ \ {c}]
    <3>1. Release(s, reader, blocks) /\ event' = (event /\ s.clients # {})
      BY <2>1, <2>5 DEF Close
    <3>2. shared # None /\ shared \in Infos
      BY <1>0, <2>5 DEF Owners, Types
    <3>3. s \in Infos /\ s.status = shared.status /\ s.pending = shared.pending /\ s.clients = shared.clients \ {c}
      BY <3>2 DEF Infos
    <3> HIDE DEF s
    <3>4. CASE shared' = s /\ reader' = reader /\ blocks' = blocks
      <4>1. s # None
        BY <3>3 DEF NoneIsNothing
      <4>2. Types'
        BY <1>0, <2>2, <2>3, <3>1, <3>3, <3>4 DEF Types
      <4>3. Owners'
        BY <1>0, <2>2, <2>3, <3>1, <3>2, <3>3, <3>4, <4>1 DEF Owners
      <4>4. ~driver => Newest'
        BY <1>0, <2>2, <3>2, <3>3, <3>4, <4>1 DEF Newest, NewEnough
      <4> QED  BY <1>0, <2>2, <2>3, <3>4, <4>2, <4>3, <4>4 DEF IndInv
    <3>5. CASE s.clients = {} /\ shared' = None /\ reader' = [at |-> "idle"] /\ blocks' = <<>>
      <4>1. /\ shared' \in Infos \cup {None} /\ reader' \in Readers /\ blocks' \in Seq(Blocks)
            /\ Shape(blocks', reader'.at) /\ ((owed <= files)' => Newest')
        BY <3>5, Gone
      <4>2. Types'
        BY <1>0, <2>2, <2>3, <3>1, <4>1 DEF Types
      <4>3. Owners'
        BY <1>0, <2>3, <3>1, <3>2, <3>3, <3>5 DEF Owners
      <4>4. ~driver => Newest'
        BY <1>0, <2>2, <4>1 DEF Newest
      <4> QED  BY <1>0, <2>2, <2>3, <4>1, <4>2, <4>3, <4>4 DEF IndInv
    <3> QED  BY <3>1, <3>3, <3>4, <3>5, Releasing
  <2> QED  BY <2>2, <2>4, <2>5
<1>7. CASE ReadStatus
  <2>1. /\ reader.at = "waiting" /\ reader' = [at |-> "reading", status |-> IF driver /\ shared.snapshot = files THEN None ELSE files]
        /\ UNCHANGED <<driver, files, event, shared, finding, blocks, client, told, owed, disabled, later>>
    BY <1>7 DEF ReadStatus
  <2>2. reader' \in Readers /\ reader'.at = "reading" /\ (~driver => reader'.status = files)
    BY <1>0, <2>1 DEF Types, Readers
  <2>3. Types'
    BY <1>0, <2>1, <2>2 DEF Types
  <2>4. Owners' /\ Shape(blocks', reader'.at)
    BY <1>0, <2>1, <2>2 DEF Owners, Shape
  <2>5. ~driver => Newest'
    BY <1>0, <2>1, <2>2 DEF Newest, NewEnough, Types, NoneIsNothing
  <2> QED  BY <1>0, <2>1, <2>3, <2>4, <2>5 DEF IndInv, Told
<1>8. CASE SendAnswer
  <2> DEFINE bs == blocks \o Answer(reader.status)
  <2>1. /\ reader.at = "reading" /\ Release(shared, [at |-> "sent"], bs)
        /\ UNCHANGED <<driver, files, event, finding, client, told, owed, disabled, later>>
    BY <1>8 DEF SendAnswer
  <2>2. reader.status \in Nat \cup {None}
    BY <1>0, <2>1 DEF Types, Readers
  <2>3. shared # None /\ shared \in Infos
    BY <1>0, <2>1 DEF Owners, Types
  <2>4. /\ bs \in Seq(Blocks) /\ Shape(bs, "sent") /\ (Has(bs, "update") <=> reader.status # None)
        /\ (reader.status = None \/ reader.status >= owed => NewEnough(bs))
    BY <1>0, <2>1, <2>2, Answering DEF Types
  <2> HIDE DEF bs
  <2>5. CASE shared' = shared /\ reader' = [at |-> "sent"] /\ blocks' = bs
    <3>1. Types'
      BY <1>0, <2>1, <2>4, <2>5 DEF Types, Readers
    <3>2. Owners' /\ Shape(blocks', reader'.at)
      BY <1>0, <2>1, <2>3, <2>4, <2>5 DEF Owners
    <3>3. NewEnough(bs) => NewEnough(blocks)'
      BY <2>1, <2>5 DEF NewEnough
    <3>4. ~driver => Newest'
      BY <1>0, <2>1, <2>3, <2>4, <2>5, <3>3 DEF Newest
    <3>5. Told => Told'
      BY <2>1, <2>5 DEF Told
    <3> QED  BY <1>0, <2>1, <3>1, <3>2, <3>4, <3>5 DEF IndInv
  <2>6. CASE shared.clients = {} /\ shared' = None /\ reader' = [at |-> "idle"] /\ blocks' = <<>>
    <3>1. /\ shared' \in Infos \cup {None} /\ reader' \in Readers /\ blocks' \in Seq(Blocks)
          /\ Shape(blocks', reader'.at) /\ ((owed <= files)' => Newest')
      BY <2>6, Gone
    <3>2. Types'
      BY <1>0, <2>1, <3>1 DEF Types
    <3>3. ~event /\ \A d \in Clients : client[d] # "attached"
      BY <1>0, <2>6 DEF Owners
    <3>4. Owners'
      BY <2>1, <2>6, <3>3 DEF Owners
    <3>5. (~driver => Newest') /\ (Told => Told')
      BY <1>0, <2>1, <2>6, <3>1, <3>3 DEF Newest, Told
    <3> QED  BY <1>0, <2>1, <3>1, <3>2, <3>4, <3>5 DEF IndInv
  <2> QED  BY <2>1, <2>3, <2>5, <2>6, Releasing
<1>9. CASE Update
  <2> DEFINE b == Head(blocks)
  <2>1. /\ blocks # <<>> /\ b.do = "update" /\ blocks' = Tail(blocks)
        /\ shared' = [shared EXCEPT !.status = b.status, !.snapshot = b.snapshot]
        /\ told' = [c \in Clients |-> IF c \in shared.clients /\ b.status # shared.status THEN b.status ELSE told[c]]
        /\ UNCHANGED <<driver, files, event, reader, finding, client, owed, disabled, later>>
    BY <1>9 DEF Update
  <2>2. b \in Blocks /\ b.status \in Nat /\ b.snapshot \in Nat
    <3>1. b \in Blocks
      BY <1>0, <2>1, HeadTailProperties DEF Types
    <3> QED  BY <2>1, <3>1 DEF Blocks
  <2>3. /\ Tail(blocks) \in Seq(Blocks) /\ (NewEnough(blocks) => NewEnough(Tail(blocks)))
        /\ reader.at = "sent" /\ Shape(Tail(blocks), reader.at) /\ ~Has(Tail(blocks), "update")
    BY <1>0, <2>1, Taking DEF Types
  <2>4. NewEnough(blocks) => b.status >= owed
    BY <1>0, <2>1, Running DEF NewEnough, Types
  <2> HIDE DEF b
  <2>5. shared # None /\ shared \in Infos /\ shared.pending
    BY <1>0, <2>1, <2>3 DEF Owners, Types
  <2>6. shared' \in Infos /\ shared'.status = b.status /\ shared'.clients = shared.clients /\ shared'.pending
    <3> DEFINE st == b.status
               sn == b.snapshot
    <3>1. shared' = [shared EXCEPT !.status = st, !.snapshot = sn] /\ st \in Int /\ sn \in Int
      BY <2>1, <2>2
    <3> HIDE DEF st, sn
    <3>2. shared' \in Infos /\ shared'.status = st /\ shared'.clients = shared.clients /\ shared'.pending
      BY <2>5, <3>1 DEF Infos
    <3> QED  BY <3>2 DEF st
  <2>7. shared' # None
    BY <2>6 DEF NoneIsNothing
  <2>8. Types'
    BY <1>0, <2>1, <2>2, <2>3, <2>6 DEF Types
  <2>9. Owners' /\ Shape(blocks', reader'.at)
    BY <1>0, <2>1, <2>3, <2>5, <2>6, <2>7 DEF Owners
  <2>10. NewEnough(blocks) => NewEnough(blocks)'
    BY <2>1, <2>3 DEF NewEnough
  <2>11. ~driver => Newest'
    BY <1>0, <2>1, <2>3, <2>4, <2>6, <2>7, <2>10 DEF Newest
  <2>12. Told => Told'
    BY <1>0, <2>1, <2>5, <2>6, <2>7 DEF Told, Owners
  <2> QED  BY <1>0, <2>1, <2>8, <2>9, <2>11, <2>12 DEF IndInv
<1>10. CASE DonePending
  <2>1. /\ blocks # <<>> /\ Head(blocks).do = "done" /\ blocks' = Tail(blocks)
        /\ shared' = [shared EXCEPT !.pending = FALSE] /\ reader' = [at |-> "idle"]
        /\ UNCHANGED <<driver, files, event, finding, client, told, owed, disabled, later>>
    BY <1>10 DEF DonePending
  <2>2. /\ Tail(blocks) \in Seq(Blocks) /\ (NewEnough(blocks) => NewEnough(Tail(blocks)))
        /\ reader.at = "sent" /\ Shape(Tail(blocks), "idle") /\ ~Has(Tail(blocks), "update") /\ ~Has(blocks, "update")
    BY <1>0, <2>1, Taking DEF Types
  <2>3. shared # None /\ shared \in Infos /\ shared.pending
    BY <1>0, <2>1, <2>2 DEF Owners, Types
  <2>4. shared' \in Infos /\ shared'.status = shared.status /\ shared'.clients = shared.clients /\ ~shared'.pending
    BY <2>1, <2>3 DEF Infos
  <2>5. shared' # None
    BY <2>4 DEF NoneIsNothing
  <2>6. Types'
    BY <1>0, <2>1, <2>2, <2>4 DEF Types, Readers
  <2>7. Owners' /\ Shape(blocks', reader'.at)
    BY <1>0, <2>1, <2>2, <2>3, <2>4, <2>5 DEF Owners
  <2>8. NewEnough(blocks) => NewEnough(blocks)'
    BY <2>1, <2>2 DEF NewEnough
  <2>9. ~driver => Newest'
    BY <1>0, <2>1, <2>2, <2>3, <2>4, <2>5, <2>8 DEF Newest
  <2>10. Told => Told'
    BY <2>1, <2>3, <2>4, <2>5 DEF Told
  <2> QED  BY <1>0, <2>1, <2>6, <2>7, <2>9, <2>10 DEF IndInv
<1>11. CASE Disable
  <2>1. disabled' /\ UNCHANGED <<driver, files, event, shared, reader, finding, blocks, client, told, owed, later>>
    BY <1>11 DEF Disable
  <2> QED  BY <1>0, <2>1 DEF IndInv, Types, Disable, Owners, Newest, NewEnough, Told
<1>12. CASE Enable
  <2>1. ~disabled' /\ ~later' /\ disabled' \in BOOLEAN /\ later' \in BOOLEAN
        /\ UNCHANGED <<driver, files, event, finding, blocks, client, told>>
    BY <1>12 DEF Enable
  <2>2. CASE later /\ shared # None /\ ~shared.pending
    <3>1. shared' = [shared EXCEPT !.pending = TRUE] /\ reader' = [at |-> "waiting"] /\ owed' = files
      BY <1>12, <2>2 DEF Enable
    <3>2. shared' \in Infos /\ shared'.status = shared.status /\ shared'.clients = shared.clients /\ shared'.pending
      BY <1>0, <2>2, <3>1 DEF Types, Infos
    <3>3. shared' # None /\ reader' \in Readers /\ reader'.at = "waiting" /\ reader.at = "idle"
      BY <1>0, <2>2, <3>1, <3>2 DEF NoneIsNothing, Readers, Owners
    <3>4. ~Has(blocks, "update") /\ Shape(blocks', reader'.at)
      BY <1>0, <2>1, <3>3 DEF Shape
    <3>5. NewEnough(blocks)'
      BY <2>1, <3>4 DEF NewEnough, Has
    <3>6. Types'
      BY <1>0, <2>1, <3>1, <3>2, <3>3 DEF Types
    <3>7. Owners'
      BY <1>0, <2>1, <2>2, <3>2, <3>3 DEF Owners
    <3>8. Newest'
      BY <1>0, <2>1, <3>1, <3>3, <3>5 DEF Newest, Types
    <3>9. Told => Told'
      BY <2>1, <2>2, <3>2 DEF Told
    <3> QED  BY <1>0, <2>1, <3>4, <3>6, <3>7, <3>8, <3>9 DEF IndInv
  <2>3. CASE ~(later /\ shared # None /\ ~shared.pending)
    <3>1. UNCHANGED <<shared, reader, owed>>
      BY <1>12, <2>3 DEF Enable
    <3> QED  BY <1>0, <2>1, <3>1 DEF IndInv, Types, Owners, Newest, NewEnough, Told
  <2> QED  BY <2>2, <2>3
<1>13. CASE UNCHANGED vars
  BY <1>0, <1>13 DEF vars, IndInv, Types, Owners, Newest, NewEnough, Told
<1> QED
  BY <1>1, <1>2, <1>3, <1>4, <1>5, <1>6, <1>7, <1>8, <1>9, <1>10, <1>11, <1>12, <1>13 DEF Next

-----------------------------------------------------------------------------
LEMMA AtMostOne == ASSUME NEW S, \A a, b \in S : a = b PROVE Cardinality(S) <= 1
<1>1. CASE S = {}
  BY <1>1, FS_EmptySet
<1>2. CASE S # {}
  <2>1. PICK a \in S : S = {a}
    BY <1>2
  <2> QED  BY <2>1, FS_Singleton
<1> QED  BY <1>1, <1>2

\* shared_info_t's _pending_update, which keeps other updates away, is set
\* exactly while a wait, a read or a block of the run loop will end the update;
\* there is one of them at a time.
THEOREM PendingServed == Spec => []PendingIsServed
<1>0. NoneIsNothing
  BY ConstAssumption DEF NoneIsNothing
<1>1. ASSUME IndInv PROVE PendingIsServed
  <2> SUFFICES ASSUME shared # None
               PROVE  LET done == {i \in DOMAIN blocks : blocks[i].do = "done"} IN
                      /\ shared.pending <=> reader.at \in {"waiting", "reading"} \/ done # {}
                      /\ Cardinality(done) <= 1 /\ (done # {} => reader.at = "sent")
    BY DEF PendingIsServed
  <2> DEFINE done == {i \in DOMAIN blocks : blocks[i].do = "done"}
  <2>1. (reader.at = "sent") <=> done # {}
    BY <1>1 DEF IndInv, Shape, Has
  <2>2. \A a, b \in done : a = b
    BY <1>1 DEF IndInv, Shape
  <2>3. Cardinality(done) <= 1
    BY <2>2, AtMostOne
  <2>4. shared.pending <=> reader.at \in {"waiting", "reading", "sent"}
    BY <1>1 DEF IndInv, Owners, Types, Readers
  <2> QED  BY <2>1, <2>3, <2>4
<1>2. Init => IndInv
  BY <1>0, InitInd
<1>3. IndInv /\ [Next]_vars => IndInv'
  BY <1>0, StepInd
<1> QED  BY <1>1, <1>2, <1>3, PTL DEF Spec

\* When no update is pending the status of a driver that does not touch the
\* files is at least as new as the last change an update was scheduled for.
THEOREM ScheduledRead == Spec => []ScheduledIsRead
<1>0. NoneIsNothing
  BY ConstAssumption DEF NoneIsNothing
<1>1. ASSUME IndInv PROVE ScheduledIsRead
  <2> SUFFICES ASSUME shared # None, ~shared.pending, ~driver PROVE shared.status >= owed
    BY DEF ScheduledIsRead
  <2>1. reader.at = "idle"
    BY <1>1 DEF IndInv, Owners
  <2>2. ~Has(blocks, "update")
    BY <1>1, <2>1 DEF IndInv, Shape
  <2> QED  BY <1>1, <2>1, <2>2 DEF IndInv, Newest
<1>2. Init => IndInv
  BY <1>0, InitInd
<1>3. IndInv /\ [Next]_vars => IndInv'
  BY <1>0, StepInd
<1> QED  BY <1>1, <1>2, <1>3, PTL DEF Spec

\* As long as no client has left, each one that is attached was told the status
\* that its shared_info_t has, whoever came first and whatever was under way.
THEOREM ClientsKnow == Spec => []ClientsTold
<1>0. NoneIsNothing
  BY ConstAssumption DEF NoneIsNothing
<1>1. ASSUME IndInv PROVE ClientsTold
  BY <1>1 DEF IndInv, Told, ClientsTold
<1>2. Init => IndInv
  BY <1>0, InitInd
<1>3. IndInv /\ [Next]_vars => IndInv'
  BY <1>0, StepInd
<1> QED  BY <1>1, <1>2, <1>3, PTL DEF Spec

\* The promise of shared_info_t and info_t together: no update is forgotten, none
\* misses the change it was scheduled for, and clients know what they would read.
THEOREM StatusIsReached == Spec => []StatusReaches
<1>1. PendingIsServed /\ ScheduledIsRead /\ ClientsTold => StatusReaches
  BY DEF StatusReaches
<1> QED  BY <1>1, PendingServed, ScheduledRead, ClientsKnow, PTL

-----------------------------------------------------------------------------
(* The index of the bundles.                                               *)

\* What an entry of the cache can be, and of a path of each kind.
Missing == [is |-> "missing"]
Entries == {Absent, Missing} \cup [is : {"dir"}, items : SUBSET Paths, id : Nat] \cup [is : {"file"}, modified : Nat]
IsCache(c) ==
  /\ c \in [Paths -> Entries]
  /\ c[Top] = Absent \/ (c[Top].is = "dir" /\ c[Top].items \subseteq DirPaths)
  /\ \A d \in Dirs :
       /\ c[Dir(d)] \in {Absent, Missing} \cup {[is |-> "dir", items |-> f, id |-> 0] : f \in {{}, {File(d)}}}
       /\ c[File(d)] \in {Absent, Missing} \cup [is : {"file"}, modified : Nat]

\* An event after the one with that number tells of the path.
Announced(es, p, from) == \E i \in DOMAIN es : i > from /\ es[i] = p

OnDiskTop(dk) == {Dir(d) : d \in {e \in Dirs : dk[e] # NoDir}}
HasFile(dk, d) == dk[d] \notin {0, NoDir}

\* What is known of a bundle is so, and no file is left of one that exists.
Fresh(c, dk, d) ==
  c[Dir(d)].is = "dir" =>
    /\ c[Dir(d)].items = IF HasFile(dk, d) THEN {File(d)} ELSE {}
    /\ c[File(d)].is = "file" /\ HasFile(dk, d) => c[File(d)].modified = dk[d]
LeftGone(c, dk, d) == c[File(d)] # Absent /\ c[Dir(d)].is # "dir" => dk[d] = NoDir

\* What is wrong is what an event is to come for, or a bundle that was installed;
\* but nothing is said of those that were changed unnoticed.
TopRight(c, dk, es, from, d) == (Dir(d) \in c[Top].items <=> dk[d] # NoDir) \/ Announced(es, Top, from)
BundleRight(c, dk, es, from, ds, d) == Announced(es, Dir(d), from) \/ d \in ds \/ dk[d] = NoDir \/ Fresh(c, dk, d)
Right(c, dk, es, from, ds, ms) ==
  \A d \in Dirs \ ms : TopRight(c, dk, es, from, d) /\ BundleRight(c, dk, es, from, ds, d) /\ LeftGone(c, dk, d)

\* All that the index needs is in the cache.
FullAt(c, d) ==
  Dir(d) \in c[Top].items =>
    c[Dir(d)] # Absent /\ (c[Dir(d)].is = "dir" /\ c[Dir(d)].items # {} => c[File(d)] # Absent)
Full(c) == \A d \in Dirs : FullAt(c, d)

\* What an index has of a bundle, and what the one made from the cache has.
Indexed(i, d) == {f \in i : f[1] = File(d)}
Reached(c, d) == Dir(d) \in c[Top].items /\ c[Dir(d)].is = "dir" /\ c[Dir(d)].items # {}
Shown(c, d) == IF Reached(c, d) /\ c[File(d)].is = "file" THEN {<<File(d), c[File(d)].modified>>} ELSE {}

\* The event that the cache is current for.
Since == IF app = "up" THEN seen ELSE IF cache[Top].id = 0 THEN Len(events) ELSE cache[Top].id - 1

BundleTypes ==
  /\ clock \in Nat /\ disk \in [Dirs -> Nat \cup {NoDir}] /\ events \in Seq({Top} \cup DirPaths)
  /\ app \in {"down", "built", "up"} /\ IsCache(cache) /\ IsCache(saved)
  /\ installing \in SUBSET Dirs /\ unsaved \in SUBSET Dirs /\ seen \in Nat /\ replay \in Nat
  /\ seen <= Len(events)

CacheRight ==
  /\ cache[Top].is = "dir" /\ Since \in 0 .. Len(events)
  /\ app = "up" => cache[Top].id = seen + 1
  /\ Right(cache, disk, events, Since, installing, missed)
  /\ ~needsIndex => Full(cache) /\ \A d \in Dirs \ stale : Indexed(index, d) = Shown(cache, d)

SavedRight ==
  /\ saved[Top].is = "dir" /\ saved[Top].id - 1 \in 0 .. Len(events)
  /\ Right(saved, disk, events, saved[Top].id - 1, installing \cup unsaved, missed)

BundleInd ==
  /\ BundleTypes
  /\ app = "down" => cache = NoCache
  /\ app # "up" => installing = {} /\ unsaved = {}
  /\ app # "down" => CacheRight
  /\ saved # NoCache => SavedRight

-----------------------------------------------------------------------------
(* Paths, and what the disk has for them.                                  *)

LEMMA PathFacts ==
  /\ Top \in Paths /\ Top \notin DirPaths
  /\ \A d \in Dirs :
       /\ Dir(d) \in Paths /\ File(d) \in Paths /\ Dir(d) \in DirPaths /\ File(d) \notin DirPaths
       /\ Dir(d) # Top /\ File(d) # Top /\ Dir(d)[1] = d /\ File(d)[1] = d
       /\ \A e \in Dirs : Dir(d) # File(e) /\ (Dir(d) = Dir(e) => d = e) /\ (File(d) = File(e) => d = e)
  /\ \A p \in Paths : p = Top \/ \E d \in Dirs : p \in {Dir(d), File(d)}
  /\ \A p \in DirPaths : \E d \in Dirs : p = Dir(d)
<1>1. \A d, e : <<d>> # <<e, 1>> /\ <<d>> # <<>> /\ <<d, 1>> # <<>> /\ <<d>>[1] = d /\ <<d, 1>>[1] = d
  OBVIOUS
<1>2. \A d, e : (<<d>> = <<e>> => d = e) /\ (<<d, 1>> = <<e, 1>> => d = e)
  OBVIOUS
<1>3. \A d, e : Dir(d) # File(e) /\ Dir(d) # Top /\ File(d) # Top /\ Dir(d)[1] = d /\ File(d)[1] = d
  BY <1>1 DEF Dir, File, Top
<1>4. \A d, e : (Dir(d) = Dir(e) => d = e) /\ (File(d) = File(e) => d = e)
  BY <1>2 DEF Dir, File
<1> QED  BY <1>3, <1>4 DEF Paths, DirPaths

OnDiskDir(dk, d) ==
  IF dk[d] = NoDir THEN Missing ELSE [is |-> "dir", items |-> IF HasFile(dk, d) THEN {File(d)} ELSE {}, id |-> 0]
OnDiskFile(dk, d) == IF HasFile(dk, d) THEN [is |-> "file", modified |-> dk[d]] ELSE Missing

LEMMA OnDiskFacts ==
  /\ OnDisk(Top) = [is |-> "dir", items |-> OnDiskTop(disk), id |-> 0]
  /\ \A d \in Dirs : OnDisk(Dir(d)) = OnDiskDir(disk, d) /\ OnDisk(File(d)) = OnDiskFile(disk, d)
<1>1. OnDisk(Top) = [is |-> "dir", items |-> OnDiskTop(disk), id |-> 0]
  BY DEF OnDisk, OnDiskTop
<1> SUFFICES ASSUME NEW d \in Dirs PROVE OnDisk(Dir(d)) = OnDiskDir(disk, d) /\ OnDisk(File(d)) = OnDiskFile(disk, d)
  BY <1>1
<1>2. Dir(d) # Top /\ File(d) # Top /\ Dir(d)[1] = d /\ File(d)[1] = d /\ Dir(d) \in DirPaths /\ File(d) \notin DirPaths
  BY PathFacts
<1>3. OnDisk(Dir(d)) = OnDiskDir(disk, d)
  BY <1>2 DEF OnDisk, OnDiskDir, Missing, HasFile
<1>4. OnDisk(File(d)) = OnDiskFile(disk, d)
  BY <1>2 DEF OnDisk, OnDiskFile, Missing, HasFile
<1> QED  BY <1>3, <1>4

\* The entries of a bundle.
DirEntry(d) == {Absent, Missing} \cup {[is |-> "dir", items |-> f, id |-> 0] : f \in {{}, {File(d)}}}
FileEntry == {Absent, Missing} \cup [is : {"file"}, modified : Nat]

LEMMA CacheFacts ==
  ASSUME NEW c, IsCache(c)
  PROVE  /\ DOMAIN c = Paths /\ \A p \in Paths : c[p] \in Entries
         /\ \A d \in Dirs : c[Dir(d)] \in DirEntry(d) /\ c[File(d)] \in FileEntry
BY DEF IsCache, DirEntry, FileEntry

LEMMA IsCacheBy ==
  ASSUME NEW c, c \in [Paths -> Entries],
         c[Top] = Absent \/ (c[Top].is = "dir" /\ c[Top].items \subseteq DirPaths),
         \A d \in Dirs : c[Dir(d)] \in DirEntry(d) /\ c[File(d)] \in FileEntry
  PROVE  IsCache(c)
BY DEF IsCache, DirEntry, FileEntry

LEMMA EntryKinds ==
  ASSUME NEW d \in Dirs
  PROVE  /\ \A e \in DirEntry(d) : e = Absent \/ e = Missing \/ (e.is = "dir" /\ e.items \in {{}, {File(d)}} /\ e = [is |-> "dir", items |-> e.items, id |-> 0])
         /\ \A e \in FileEntry : e = Absent \/ e = Missing \/ (e.is = "file" /\ e.modified \in Nat /\ e = [is |-> "file", modified |-> e.modified])
         /\ Absent.is = "absent" /\ Missing.is = "missing" /\ Absent # Missing
         /\ DirEntry(d) \subseteq Entries /\ FileEntry \subseteq Entries
<1>1. Absent.is = "absent" /\ Missing.is = "missing" /\ Absent # Missing
  BY DEF Absent, Missing
<1>2. \A e \in DirEntry(d) : e = Absent \/ e = Missing \/ (e.is = "dir" /\ e.items \in {{}, {File(d)}} /\ e = [is |-> "dir", items |-> e.items, id |-> 0])
  BY DEF DirEntry
<1>3. \A e \in FileEntry : e = Absent \/ e = Missing \/ (e.is = "file" /\ e.modified \in Nat /\ e = [is |-> "file", modified |-> e.modified])
  BY DEF FileEntry
<1>4. FileEntry \subseteq Entries
  BY DEF FileEntry, Entries
<1>5. DirEntry(d) \subseteq Entries
  <2>1. {} \subseteq Paths /\ {File(d)} \subseteq Paths
    BY PathFacts
  <2> QED  BY <2>1 DEF DirEntry, Entries
<1> QED  BY <1>1, <1>2, <1>3, <1>4, <1>5

-----------------------------------------------------------------------------
(* What reload does.                                                       *)

\* The entries of a bundle are as they were.
Same(c, r, d) == r[Dir(d)] = c[Dir(d)] /\ r[File(d)] = c[File(d)]

\* An entry is kept, or it is forgotten: and it is if it is not right.
LEMMA KeptFacts ==
  ASSUME NEW c, NEW d \in Dirs, c[Dir(d)] \in DirEntry(d), c[File(d)] \in FileEntry
  PROVE  /\ Kept(c, Dir(d)) \in {Absent, c[Dir(d)]} /\ (disk[d] = NoDir => Kept(c, Dir(d)).is # "dir")
         /\ c[Dir(d)].is = "dir" => Kept(c, Dir(d)) = Absent
         /\ disk[d] # NoDir => Kept(c, Dir(d)) = Absent
         /\ Kept(c, File(d)) \in {Absent, c[File(d)]}
         /\ HasFile(disk, d) /\ Kept(c, File(d)).is = "file" => Kept(c, File(d)).modified = disk[d]
<1> DEFINE x == c[Dir(d)]  y == c[File(d)]
<1>1. OnDisk(Dir(d)) = OnDiskDir(disk, d) /\ OnDisk(File(d)) = OnDiskFile(disk, d)
  BY OnDiskFacts
<1>2. /\ x = Absent \/ x = Missing \/ x.is = "dir"
      /\ y = Absent \/ y = Missing \/ y.is = "file"
      /\ Absent.is = "absent" /\ Missing.is = "missing"
  BY EntryKinds
<1>3. (disk[d] = NoDir => OnDiskDir(disk, d) = Missing) /\ (disk[d] # NoDir => OnDiskDir(disk, d).is = "dir")
  BY DEF OnDiskDir
<1>4. HasFile(disk, d) => OnDiskFile(disk, d).modified = disk[d]
  BY DEF OnDiskFile
<1>5. Kept(c, Dir(d)) = IF x # Absent /\ (IF x.is = "file" THEN x # OnDisk(Dir(d)) ELSE x.is # "missing" \/ OnDisk(Dir(d)).is # "missing")
                        THEN Absent ELSE x
  BY DEF Kept, Stale
<1>6. Kept(c, File(d)) = IF y # Absent /\ (IF y.is = "file" THEN y # OnDisk(File(d)) ELSE y.is # "missing" \/ OnDisk(File(d)).is # "missing")
                         THEN Absent ELSE y
  BY DEF Kept, Stale
<1> HIDE DEF x, y
<1>7. /\ Kept(c, Dir(d)) \in {Absent, x} /\ (disk[d] = NoDir => Kept(c, Dir(d)).is # "dir")
      /\ x.is = "dir" => Kept(c, Dir(d)) = Absent
      /\ disk[d] # NoDir => Kept(c, Dir(d)) = Absent
  BY <1>1, <1>2, <1>3, <1>5
<1>8. /\ Kept(c, File(d)) \in {Absent, y}
      /\ HasFile(disk, d) /\ Kept(c, File(d)).is = "file" => Kept(c, File(d)).modified = disk[d]
  BY <1>1, <1>2, <1>4, <1>6
<1> QED  BY <1>7, <1>8 DEF x, y

\* A bundle that is reloaded is right, and the others are as they were.
LEMMA ReloadDirFacts ==
  ASSUME NEW c, IsCache(c), NEW d \in Dirs, NEW recursive \in BOOLEAN, c[Dir(d)] # Absent
  PROVE  LET r == ReloadDir(c, Dir(d), recursive)
         IN  /\ r \in [Paths -> Entries] /\ r[Top] = c[Top]
             /\ r[Dir(d)] \in DirEntry(d) /\ r[File(d)] \in FileEntry
             /\ Fresh(r, disk, d) /\ (LeftGone(c, disk, d) => LeftGone(r, disk, d))
             /\ c[Dir(d)].is = "dir" /\ disk[d] # NoDir => r[Dir(d)] = OnDiskDir(disk, d)
             /\ \A e \in Dirs \ {d} : Same(c, r, e)
<1> DEFINE r == ReloadDir(c, Dir(d), recursive)  x == c[Dir(d)]  y == c[File(d)]
           listed == IF HasFile(disk, d) THEN {File(d)} ELSE {}
           new == [is |-> "dir", items |-> listed, id |-> 0]
           read == HasFile(disk, d) /\ (y.is = "file" \/ recursive)
<1>1. DOMAIN c = Paths /\ c \in [Paths -> Entries] /\ x \in DirEntry(d) /\ y \in FileEntry
  BY CacheFacts DEF IsCache
<1>2. /\ Dir(d) \in Paths /\ File(d) \in Paths /\ Top \in Paths /\ Dir(d)[1] = d /\ Dir(d) # File(d) /\ Top # Dir(d) /\ Top # File(d)
      /\ \A e \in Dirs \ {d} : Dir(e) \in Paths /\ File(e) \in Paths /\ Dir(e) # Dir(d) /\ Dir(e) # File(d) /\ File(e) # Dir(d) /\ File(e) # File(d)
  BY PathFacts
<1>3. /\ x = Missing \/ (x.is = "dir" /\ x = [is |-> "dir", items |-> x.items, id |-> 0])
      /\ Absent.is = "absent" /\ Missing.is = "missing" /\ Absent \in DirEntry(d) /\ Absent \in FileEntry
      /\ DirEntry(d) \subseteq Entries /\ FileEntry \subseteq Entries /\ new \in DirEntry(d)
      /\ y = Absent \/ y = Missing \/ y.is = "file"
  BY <1>1, EntryKinds DEF DirEntry, FileEntry
<1>4. OnDisk(Dir(d)) = OnDiskDir(disk, d)
  BY OnDiskFacts
<1>5. /\ disk[d] = NoDir => OnDiskDir(disk, d) = Missing
      /\ disk[d] # NoDir => OnDiskDir(disk, d) = new
  BY DEF OnDiskDir
<1>6. CASE x.is = "dir" /\ disk[d] # NoDir
  <2>1. OnDisk(Dir(d)).is = "dir" /\ OnDisk(Dir(d)).items = listed
    BY <1>4, <1>5, <1>6
  <2>2. r = [c EXCEPT ![Dir(d)].items = listed, ![File(d)] = IF listed # {} /\ (@.is = "file" \/ recursive) THEN Kept(c, File(d)) ELSE @]
    BY <1>2, <1>6, <2>1 DEF ReloadDir
  <2>3. [x EXCEPT !.items = listed] = new
    BY <1>3, <1>6
  <2>4. listed # {} <=> HasFile(disk, d)
    OBVIOUS
  <2>5. r = [c EXCEPT ![Dir(d)] = new, ![File(d)] = IF read THEN Kept(c, File(d)) ELSE y]
    BY <1>1, <1>2, <2>2, <2>3, <2>4
  <2> HIDE DEF r, new
  <2>6. r[Dir(d)] = new /\ r[File(d)] = IF read THEN Kept(c, File(d)) ELSE y
    BY <1>1, <1>2, <2>5
  <2>7. r[Top] = c[Top] /\ \A e \in Dirs \ {d} : Same(c, r, e)
    BY <1>1, <1>2, <2>5 DEF Same
  <2>8. /\ Kept(c, File(d)) \in {Absent, y}
        /\ HasFile(disk, d) /\ Kept(c, File(d)).is = "file" => Kept(c, File(d)).modified = disk[d]
    BY <1>1, KeptFacts
  <2>9. r[Dir(d)] \in DirEntry(d) /\ r[File(d)] \in FileEntry
    BY <1>1, <1>3, <2>6, <2>8
  <2>10. r \in [Paths -> Entries]
    <3>1. new \in Entries /\ (IF read THEN Kept(c, File(d)) ELSE y) \in Entries
      BY <1>3, <2>6, <2>9
    <3> QED  BY <1>1, <2>5, <3>1
  <2>11. Fresh(r, disk, d) /\ LeftGone(r, disk, d)
    <3>1. new.is = "dir" /\ new.items = listed
      BY DEF new
    <3>2. HasFile(disk, d) /\ r[File(d)].is = "file" => r[File(d)].modified = disk[d]
      BY <2>6, <2>8
    <3> QED  BY <1>6, <2>6, <3>1, <3>2 DEF Fresh, LeftGone
  <2>12. r[Dir(d)] = OnDiskDir(disk, d)
    BY <1>5, <1>6, <2>6 DEF new
  <2> QED  BY <2>7, <2>9, <2>10, <2>11, <2>12 DEF r
<1>7. CASE ~(x.is = "dir" /\ disk[d] # NoDir)
  <2>1. ~(x.is = "dir" /\ OnDisk(Dir(d)).is = "dir")
    BY <1>3, <1>4, <1>5, <1>7
  <2>2. r = [c EXCEPT ![Dir(d)] = Kept(c, Dir(d))]
    BY <2>1 DEF ReloadDir
  <2>3. /\ Kept(c, Dir(d)) \in {Absent, x} /\ (disk[d] = NoDir => Kept(c, Dir(d)).is # "dir")
        /\ disk[d] # NoDir => Kept(c, Dir(d)) = Absent
    BY <1>1, KeptFacts
  <2> HIDE DEF r
  <2>4. r[Dir(d)] = Kept(c, Dir(d)) /\ r[File(d)] = y /\ r[Top] = c[Top] /\ \A e \in Dirs \ {d} : Same(c, r, e)
    BY <1>1, <1>2, <2>2 DEF Same
  <2>5. r[Dir(d)] \in DirEntry(d)
    BY <1>1, <1>3, <2>3, <2>4
  <2>6. r \in [Paths -> Entries]
    <3>1. Kept(c, Dir(d)) \in Entries
      BY <1>3, <2>4, <2>5
    <3> QED  BY <1>1, <2>2, <3>1
  <2>7. Fresh(r, disk, d)
    BY <1>3, <2>3, <2>4 DEF Fresh
  <2>8. LeftGone(c, disk, d) => LeftGone(r, disk, d)
    BY <1>3, <1>7, <2>4 DEF LeftGone
  <2> QED  BY <1>1, <1>7, <2>4, <2>5, <2>6, <2>7, <2>8 DEF r
<1> QED  BY <1>6, <1>7

\* A bundle is right, or as it was; and the bundles directory.
BundleReloaded(c, r, d) == (LeftGone(c, disk, d) => LeftGone(r, disk, d)) /\ (Fresh(r, disk, d) \/ Same(c, r, d))
Reloaded(c, r) ==
  /\ IsCache(r) /\ r[Top].is = "dir" /\ r[Top].id = c[Top].id /\ r[Top].items \in {c[Top].items, OnDiskTop(disk)}
  /\ \A d \in Dirs : BundleReloaded(c, r, d)
Known(c) == IsCache(c) /\ c[Top].is = "dir"

LEMMA KnownFacts ==
  ASSUME NEW c, Known(c)
  PROVE  /\ IsCache(c) /\ DOMAIN c = Paths /\ c \in [Paths -> Entries] /\ c[Top] # Absent /\ c[Top].items \subseteq DirPaths
         /\ c[Top] \in [is : {"dir"}, items : SUBSET Paths, id : Nat]
         /\ \A d \in Dirs : c[Dir(d)] \in DirEntry(d) /\ c[File(d)] \in FileEntry
<1>1. IsCache(c) /\ c \in [Paths -> Entries] /\ c[Top].is = "dir" /\ Top \in Paths
  BY PathFacts DEF Known, IsCache
<1>2. c[Top] # Absent /\ c[Top] \in [is : {"dir"}, items : SUBSET Paths, id : Nat]
  BY <1>1 DEF Entries, Absent, Missing
<1>3. c[Top].items \subseteq DirPaths
  BY <1>1, <1>2 DEF IsCache
<1> QED  BY <1>1, <1>2, <1>3, CacheFacts DEF Known

LEMMA ReloadedTwice ==
  ASSUME NEW c, NEW r, NEW s, Known(c), Reloaded(c, r), Reloaded(r, s)
  PROVE  Reloaded(c, s)
<1> SUFFICES ASSUME NEW d \in Dirs PROVE BundleReloaded(c, s, d)
  BY DEF Reloaded
<1>1. BundleReloaded(c, r, d) /\ BundleReloaded(r, s, d)
  BY DEF Reloaded
<1> QED  BY <1>1 DEF BundleReloaded, Same, Fresh, LeftGone

LEMMA ReloadAllFacts ==
  ASSUME NEW c, Known(c), NEW ds \in SUBSET Dirs
  PROVE  LET r == ReloadAll(c, ds)
         IN  Reloaded(c, r) /\ r[Top] = c[Top] /\ \A d \in ds : c[Dir(d)] # Absent => Fresh(r, disk, d)
<1> DEFINE r == ReloadAll(c, ds)  new(d) == ReloadDir(c, Dir(d), TRUE)
<1>1. /\ IsCache(c) /\ c \in [Paths -> Entries] /\ c[Top].is = "dir" /\ c[Top].items \subseteq DirPaths
      /\ \A d \in Dirs : c[Dir(d)] \in DirEntry(d) /\ c[File(d)] \in FileEntry
  BY KnownFacts DEF Known
<1>2. \A p \in Paths : r[p] = IF \E d \in ds : p \in {Dir(d), File(d)} /\ c[Dir(d)] # Absent THEN new(p[1])[p] ELSE c[p]
  BY DEF ReloadAll
<1>3. DOMAIN r = Paths /\ r = [p \in Paths |-> r[p]]
  BY DEF ReloadAll
<1> HIDE DEF r
<1>4. Top \in Paths /\ \A d \in Dirs : Top \notin {Dir(d), File(d)}
  BY PathFacts
<1>5. r[Top] = c[Top]
  BY <1>2, <1>4
<1>6. ASSUME NEW d \in Dirs
      PROVE  /\ r[Dir(d)] \in DirEntry(d) /\ r[File(d)] \in FileEntry /\ BundleReloaded(c, r, d)
             /\ d \in ds /\ c[Dir(d)] # Absent => Fresh(r, disk, d)
  <2>1. /\ Dir(d) \in Paths /\ File(d) \in Paths /\ Dir(d)[1] = d /\ File(d)[1] = d
        /\ \A e \in Dirs : Dir(d) \in {Dir(e), File(e)} => e = d
        /\ \A e \in Dirs : File(d) \in {Dir(e), File(e)} => e = d
    BY PathFacts
  <2>2. CASE d \in ds /\ c[Dir(d)] # Absent
    <3>1. r[Dir(d)] = new(d)[Dir(d)] /\ r[File(d)] = new(d)[File(d)]
      BY <1>2, <2>1, <2>2
    <3>2. /\ new(d)[Dir(d)] \in DirEntry(d) /\ new(d)[File(d)] \in FileEntry
          /\ Fresh(new(d), disk, d) /\ (LeftGone(c, disk, d) => LeftGone(new(d), disk, d))
      BY <1>1, <2>2, ReloadDirFacts
    <3> HIDE DEF new
    <3> QED  BY <3>1, <3>2 DEF BundleReloaded, Fresh, LeftGone
  <2>3. CASE ~(d \in ds /\ c[Dir(d)] # Absent)
    <3>1. r[Dir(d)] = c[Dir(d)] /\ r[File(d)] = c[File(d)]
      BY <1>2, <2>1, <2>3
    <3> QED  BY <1>1, <2>3, <3>1 DEF BundleReloaded, Same, LeftGone
  <2> QED  BY <2>2, <2>3
<1>7. \A p \in Paths : r[p] \in Entries
  <2>1. r[Top] \in Entries
    BY <1>1, <1>4, <1>5
  <2>2. \A d \in Dirs : r[Dir(d)] \in Entries /\ r[File(d)] \in Entries
    BY <1>6, EntryKinds
  <2> QED  BY <2>1, <2>2, PathFacts
<1>8. r \in [Paths -> Entries]
  BY <1>3, <1>7
<1>9. IsCache(r)
  BY <1>1, <1>5, <1>6, <1>8, IsCacheBy
<1>10. \A d \in ds : d \in Dirs
  OBVIOUS
<1> QED  BY <1>1, <1>5, <1>6, <1>9, <1>10 DEF Reloaded, r

LEMMA TopSet ==
  ASSUME NEW c, Known(c), NEW y \in [is : {"dir"}, items : SUBSET DirPaths, id : Nat]
  PROVE  LET r == [c EXCEPT ![Top] = y]
         IN  IsCache(r) /\ r[Top] = y /\ (\A p \in Paths \ {Top} : r[p] = c[p]) /\ \A d \in Dirs : Same(c, r, d)
<1> DEFINE r == [c EXCEPT ![Top] = y]
<1>1. /\ c \in [Paths -> Entries] /\ \A d \in Dirs : c[Dir(d)] \in DirEntry(d) /\ c[File(d)] \in FileEntry
  BY KnownFacts
<1>2. Top \in Paths /\ \A d \in Dirs : Dir(d) \in Paths /\ File(d) \in Paths /\ Dir(d) # Top /\ File(d) # Top
  BY PathFacts
<1>3. y \in Entries
  BY DEF Entries, Paths
<1>4. r \in [Paths -> Entries] /\ r[Top] = y /\ \A p \in Paths \ {Top} : r[p] = c[p]
  BY <1>1, <1>2, <1>3
<1> HIDE DEF r
<1>5. \A d \in Dirs : Same(c, r, d)
  BY <1>2, <1>4 DEF Same
<1>6. \A d \in Dirs : r[Dir(d)] \in DirEntry(d) /\ r[File(d)] \in FileEntry
  BY <1>1, <1>5 DEF Same
<1>7. IsCache(r)
  BY <1>4, <1>6, IsCacheBy
<1> QED  BY <1>4, <1>5, <1>7 DEF r

LEMMA TopItemsSet ==
  ASSUME NEW c, Known(c), NEW is \in SUBSET DirPaths
  PROVE  LET r == [c EXCEPT ![Top].items = is]
         IN  /\ IsCache(r) /\ r[Top].is = "dir" /\ r[Top].id = c[Top].id /\ r[Top].items = is
             /\ \A d \in Dirs : Same(c, r, d)
<1> DEFINE x == c[Top]  y == [x EXCEPT !.items = is]  r == [c EXCEPT ![Top] = y]
<1>1. x \in [is : {"dir"}, items : SUBSET Paths, id : Nat]
  BY KnownFacts
<1> HIDE DEF x
<1>2. y \in [is : {"dir"}, items : SUBSET DirPaths, id : Nat] /\ y.id = x.id /\ y.items = is /\ y.is = "dir"
  BY <1>1
<1>3. [c EXCEPT ![Top].items = is] = r
  BY DEF x
<1> HIDE DEF y
<1>4. IsCache(r) /\ r[Top] = y /\ \A d \in Dirs : Same(c, r, d)
  BY <1>2, TopSet
<1> HIDE DEF r
<1> QED  BY <1>2, <1>3, <1>4 DEF x

LEMMA TopIdSet ==
  ASSUME NEW c, Known(c), NEW id \in Nat
  PROVE  LET r == SetEventId(c, id)
         IN  /\ IsCache(r) /\ r[Top].is = "dir" /\ r[Top].id = id /\ r[Top].items = c[Top].items
             /\ (\A p \in Paths \ {Top} : r[p] = c[p]) /\ \A d \in Dirs : Same(c, r, d)
<1> DEFINE x == c[Top]  y == [x EXCEPT !.id = id]  r == [c EXCEPT ![Top] = y]
<1>1. x \in [is : {"dir"}, items : SUBSET Paths, id : Nat] /\ x.items \subseteq DirPaths
  BY KnownFacts
<1> HIDE DEF x
<1>2. y \in [is : {"dir"}, items : SUBSET DirPaths, id : Nat] /\ y.items = x.items /\ y.id = id /\ y.is = "dir"
  BY <1>1
<1>3. SetEventId(c, id) = r
  BY DEF x, SetEventId
<1> HIDE DEF y
<1>4. IsCache(r) /\ r[Top] = y /\ (\A p \in Paths \ {Top} : r[p] = c[p]) /\ \A d \in Dirs : Same(c, r, d)
  BY <1>2, TopSet
<1> HIDE DEF r
<1> QED  BY <1>2, <1>3, <1>4 DEF x

LEMMA ReloadRootFacts ==
  ASSUME NEW c, Known(c), NEW recursive \in BOOLEAN
  PROVE  LET r == ReloadRoot(c, recursive)
         IN  Reloaded(c, r) /\ r[Top].items = OnDiskTop(disk)
<1> DEFINE is == OnDiskTop(disk)  t == [c EXCEPT ![Top].items = is]  ds == {d \in Dirs : Dir(d) \in t[Top].items}
<1>1. is \in SUBSET DirPaths
  BY DEF OnDiskTop, DirPaths
<1>2. OnDisk(Top).items = is
  BY OnDiskFacts
<1>3. ReloadRoot(c, recursive) = IF recursive THEN ReloadAll(t, ds) ELSE t
  BY <1>2 DEF ReloadRoot
<1>4. /\ IsCache(t) /\ t[Top].is = "dir" /\ t[Top].id = c[Top].id /\ t[Top].items = is
      /\ \A d \in Dirs : Same(c, t, d)
  <2> HIDE DEF is
  <2> QED  BY <1>1, TopItemsSet
<1>5. \A d \in Dirs : LeftGone(c, disk, d) => LeftGone(t, disk, d)
  BY <1>4 DEF Same, LeftGone
<1> HIDE DEF is, t
<1>6. Known(t) /\ Reloaded(c, t)
  BY <1>4, <1>5 DEF Known, Reloaded, BundleReloaded, is
<1>7. ds \in SUBSET Dirs
  OBVIOUS
<1> HIDE DEF ds
<1>8. Reloaded(t, ReloadAll(t, ds)) /\ ReloadAll(t, ds)[Top] = t[Top]
  BY <1>6, <1>7, ReloadAllFacts
<1>9. Reloaded(c, ReloadAll(t, ds))
  BY <1>6, <1>8, ReloadedTwice
<1> QED  BY <1>3, <1>4, <1>6, <1>8, <1>9 DEF is

LEMMA ReloadFacts ==
  ASSUME NEW c, Known(c), NEW p \in {Top} \cup DirPaths, NEW recursive \in BOOLEAN
  PROVE  LET r == Reload(c, p, recursive)
         IN  /\ Reloaded(c, r) /\ (p = Top => r[Top].items = OnDiskTop(disk))
             /\ \A d \in Dirs : p = Dir(d) => Fresh(r, disk, d)
<1>1. /\ c[Top] # Absent /\ IsCache(c) /\ c[Top].is = "dir" /\ c[Top].items \subseteq DirPaths
      /\ \A d \in Dirs : c[Dir(d)] \in DirEntry(d) /\ c[File(d)] \in FileEntry
  BY KnownFacts DEF Known
<1>2. CASE p \in DirPaths /\ c[p] # Absent
  <2> DEFINE r == ReloadDir(c, p, recursive)
  <2>1. Reload(c, p, recursive) = r
    BY <1>2 DEF Reload
  <2>2. PICK d \in Dirs : p = Dir(d)
    BY <1>2, PathFacts
  <2>3. /\ r \in [Paths -> Entries] /\ r[Top] = c[Top] /\ r[Dir(d)] \in DirEntry(d) /\ r[File(d)] \in FileEntry
        /\ Fresh(r, disk, d) /\ (LeftGone(c, disk, d) => LeftGone(r, disk, d)) /\ \A e \in Dirs \ {d} : Same(c, r, e)
    BY <1>1, <1>2, <2>2, ReloadDirFacts
  <2> HIDE DEF r
  <2>4. \A e \in Dirs : r[Dir(e)] \in DirEntry(e) /\ r[File(e)] \in FileEntry
    BY <1>1, <2>3 DEF Same
  <2>5. IsCache(r)
    BY <1>1, <2>3, <2>4, IsCacheBy
  <2>6. \A e \in Dirs : BundleReloaded(c, r, e)
    BY <1>1, <2>3 DEF BundleReloaded, Same, LeftGone
  <2>7. p # Top /\ \A e \in Dirs : p = Dir(e) => e = d
    BY <1>2, <2>2, PathFacts
  <2> QED  BY <1>1, <2>1, <2>3, <2>5, <2>6, <2>7 DEF Reloaded
<1>3. CASE ~(p \in DirPaths /\ c[p] # Absent)
  <2> DEFINE r == ReloadRoot(c, recursive)
  <2>1. Reload(c, p, recursive) = r
    BY <1>1, <1>3 DEF Reload
  <2>2. Reloaded(c, r) /\ r[Top].items = OnDiskTop(disk)
    BY ReloadRootFacts
  <2> HIDE DEF r
  <2>3. \A d \in Dirs : p = Dir(d) => Fresh(r, disk, d)
    <3> SUFFICES ASSUME NEW d \in Dirs, p = Dir(d) PROVE Fresh(r, disk, d)
      OBVIOUS
    <3>1. c[Dir(d)] = Absent
      BY <1>3, PathFacts
    <3>2. Absent.is # "dir"
      BY DEF Absent
    <3> QED  BY <2>2, <3>1, <3>2 DEF Reloaded, BundleReloaded, Same, Fresh
  <2> QED  BY <2>1, <2>2, <2>3
<1> QED  BY <1>2, <1>3

LEMMA ReinstalledFacts ==
  ASSUME NEW c, Known(c), NEW ds \in SUBSET Dirs
  PROVE  LET r == Reinstalled(c, ds)
         IN  Reloaded(c, r) /\ \A d \in ds : Fresh(r, disk, d)
<1> DEFINE a == ReloadAll(c, ds)  r == Reinstalled(c, ds)
<1>1. Reloaded(c, a) /\ a[Top] = c[Top] /\ \A d \in ds : c[Dir(d)] # Absent => Fresh(a, disk, d)
  BY ReloadAllFacts
<1>2. r = IF \E d \in ds : c[Dir(d)] = Absent THEN ReloadRoot(a, TRUE) ELSE a
  BY DEF Reinstalled
<1> HIDE DEF a, r
<1>3. Known(a)
  BY <1>1 DEF Reloaded, BundleReloaded, Known
<1>4. \A d \in ds : Fresh(a, disk, d)
  <2> SUFFICES ASSUME NEW d \in ds, c[Dir(d)] = Absent PROVE Fresh(a, disk, d)
    BY <1>1
  <2>1. Absent.is # "dir" /\ d \in Dirs
    BY DEF Absent
  <2> QED  BY <1>1, <2>1 DEF Reloaded, BundleReloaded, Same, Fresh
<1>5. Reloaded(a, ReloadRoot(a, TRUE))
  BY <1>3, ReloadRootFacts
<1>6. Reloaded(c, r)
  BY <1>1, <1>2, <1>5, ReloadedTwice
<1>7. \A d \in ds : Fresh(r, disk, d)
  <2> SUFFICES ASSUME NEW d \in ds PROVE Fresh(r, disk, d)
    OBVIOUS
  <2>1. r = a \/ BundleReloaded(a, r, d)
    BY <1>2, <1>5 DEF Reloaded
  <2> QED  BY <1>4, <2>1 DEF BundleReloaded, Same, Fresh
<1> QED  BY <1>6, <1>7 DEF r

-----------------------------------------------------------------------------
(* What filling and cleaning the cache do, and the index made from it.     *)

LEMMA ListedFacts ==
  ASSUME NEW c, IsCache(c), c[Top].is = "dir"
  PROVE  /\ \A d \in Dirs : File(d) \in Listed(c) <=> Dir(d) \in c[Top].items /\ c[Dir(d)].is = "dir" /\ c[Dir(d)].items # {}
         /\ Listed(c) \subseteq {File(d) : d \in Dirs}
         /\ \A d \in Dirs : Dir(d) \notin Listed(c) /\ Top \notin Listed(c)
<1>0. c[Top] # Absent
  BY DEF Absent
<1>1. c[Top].items \subseteq DirPaths /\ \A d \in Dirs : c[Dir(d)] \in DirEntry(d)
  BY <1>0, CacheFacts DEF IsCache
<1>2. \A d \in Dirs : c[Dir(d)].is = "dir" => c[Dir(d)].items \in {{}, {File(d)}}
  BY <1>1, EntryKinds
<1>3. \A f : f \in Listed(c) <=> \E q \in c[Top].items : c[q].is = "dir" /\ f \in c[q].items
  BY DEF Listed, Items
<1>4. \A f : f \in Listed(c) <=> \E e \in Dirs : Dir(e) \in c[Top].items /\ c[Dir(e)].is = "dir" /\ f \in c[Dir(e)].items
  BY <1>1, <1>3, PathFacts
<1>5. \A f : f \in Listed(c) <=> \E e \in Dirs : Dir(e) \in c[Top].items /\ c[Dir(e)].is = "dir" /\ c[Dir(e)].items # {} /\ f = File(e)
  BY <1>2, <1>4
<1> QED  BY <1>5, PathFacts

LEMMA FilledFacts ==
  ASSUME NEW c, IsCache(c), disk \in [Dirs -> Nat \cup {NoDir}]
  PROVE  LET r == Filled(c)
         IN  /\ IsCache(r) /\ r[Top].is = "dir" /\ Full(r)
             /\ c[Top] # Absent => r[Top] = c[Top]
             /\ c[Top] = Absent => r[Top].items = OnDiskTop(disk) /\ r[Top].id = 0
             /\ \A d \in Dirs : LeftGone(c, disk, d) => LeftGone(r, disk, d) /\ (Fresh(c, disk, d) => Fresh(r, disk, d))
<1> DEFINE a == Resolved(c, {Top})  b == Resolved(a, Items(a, Top))  r == Filled(c)
<1>1. /\ DOMAIN c = Paths
      /\ c[Top] = Absent \/ (c[Top].is = "dir" /\ c[Top].items \subseteq DirPaths)
      /\ c \in [Paths -> Entries] /\ \A d \in Dirs : c[Dir(d)] \in DirEntry(d) /\ c[File(d)] \in FileEntry
  BY CacheFacts DEF IsCache
<1>2. \A p \in Paths : a[p] = IF p = Top /\ c[p] = Absent THEN OnDisk(p) ELSE c[p]
  BY DEF Resolved
<1>3. \A p \in Paths : b[p] = IF p \in Items(a, Top) /\ a[p] = Absent THEN OnDisk(p) ELSE a[p]
  BY DEF Resolved
<1>4. /\ \A p \in Paths : r[p] = IF p \in Listed(b) /\ b[p].is \in {"absent", "missing"} THEN OnDisk(p) ELSE b[p]
      /\ r = [p \in Paths |-> r[p]]
  BY DEF Filled
<1>5. b = [p \in Paths |-> b[p]]
  BY DEF Resolved
<1> HIDE DEF a, b, r
<1>6. /\ Top \in Paths /\ Absent.is = "absent" /\ Missing.is = "missing"
      /\ \A d \in Dirs : Dir(d) \in Paths /\ File(d) \in Paths /\ Dir(d) # Top /\ File(d) # Top
      /\ \A d \in Dirs : File(d) \notin DirPaths
      /\ Top \notin DirPaths
  BY PathFacts DEF Absent, Missing
<1>7. /\ OnDisk(Top).is = "dir" /\ OnDisk(Top).items = OnDiskTop(disk) /\ OnDisk(Top).id = 0 /\ OnDisk(Top) \in Entries
      /\ OnDiskTop(disk) \subseteq DirPaths
      /\ \A d \in Dirs : OnDisk(Dir(d)) = OnDiskDir(disk, d) /\ OnDisk(File(d)) = OnDiskFile(disk, d)
  <2>1. OnDiskTop(disk) \subseteq DirPaths /\ DirPaths \subseteq Paths
    BY DEF OnDiskTop, DirPaths, Paths
  <2>2. [is |-> "dir", items |-> OnDiskTop(disk), id |-> 0] \in Entries
    BY <2>1 DEF Entries
  <2> QED  BY <2>1, <2>2, OnDiskFacts
<1>8. \A d \in Dirs : OnDiskDir(disk, d) \in DirEntry(d) /\ OnDiskFile(disk, d) \in FileEntry
  <2>1. \A d \in Dirs : HasFile(disk, d) => disk[d] \in Nat
    BY DEF HasFile
  <2> QED  BY <2>1 DEF OnDiskDir, OnDiskFile, DirEntry, FileEntry
<1>9. /\ a[Top].is = "dir" /\ a[Top].items \subseteq DirPaths
      /\ c[Top] # Absent => a[Top] = c[Top]
      /\ c[Top] = Absent => a[Top].items = OnDiskTop(disk) /\ a[Top].id = 0
      /\ a[Top] \in Entries
  BY <1>1, <1>2, <1>6, <1>7
<1>10. \A d \in Dirs : a[Dir(d)] = c[Dir(d)] /\ a[File(d)] = c[File(d)]
  BY <1>2, <1>6
<1>11. Items(a, Top) = a[Top].items
  BY <1>9 DEF Items
<1>12. /\ b[Top] = a[Top]
       /\ \A d \in Dirs : b[File(d)] = c[File(d)]
       /\ \A d \in Dirs : b[Dir(d)] = IF Dir(d) \in b[Top].items /\ c[Dir(d)] = Absent THEN OnDiskDir(disk, d) ELSE c[Dir(d)]
  BY <1>3, <1>6, <1>7, <1>9, <1>10, <1>11
<1>13. \A d \in Dirs : b[Dir(d)] \in DirEntry(d) /\ b[File(d)] \in FileEntry
  BY <1>1, <1>8, <1>12
<1>14. b \in [Paths -> Entries]
  <2>1. \A d \in Dirs : b[Dir(d)] \in Entries /\ b[File(d)] \in Entries
    BY <1>13, EntryKinds
  <2>2. \A p \in Paths : b[p] \in Entries
    BY <1>9, <1>12, <2>1, PathFacts
  <2> QED  BY <1>5, <2>2
<1>15. IsCache(b) /\ b[Top].is = "dir"
  BY <1>9, <1>12, <1>13, <1>14, IsCacheBy
<1>16. /\ \A d \in Dirs : File(d) \in Listed(b) <=> Dir(d) \in b[Top].items /\ b[Dir(d)].is = "dir" /\ b[Dir(d)].items # {}
       /\ \A d \in Dirs : Dir(d) \notin Listed(b)
       /\ Top \notin Listed(b)
  <2>1. /\ Listed(b) \subseteq {File(d) : d \in Dirs}
        /\ \A d \in Dirs : File(d) \in Listed(b) <=> Dir(d) \in b[Top].items /\ b[Dir(d)].is = "dir" /\ b[Dir(d)].items # {}
    BY <1>15, ListedFacts
  <2> QED  BY <2>1, PathFacts
<1>17. /\ r[Top] = b[Top]
       /\ \A d \in Dirs : r[Dir(d)] = b[Dir(d)]
       /\ \A d \in Dirs : r[File(d)] = IF File(d) \in Listed(b) /\ b[File(d)].is \in {"absent", "missing"} THEN OnDiskFile(disk, d) ELSE b[File(d)]
  BY <1>4, <1>6, <1>7, <1>16
<1>18. \A d \in Dirs : r[Dir(d)] \in DirEntry(d) /\ r[File(d)] \in FileEntry
  BY <1>8, <1>13, <1>17
<1>19. r \in [Paths -> Entries]
  <2>1. \A d \in Dirs : r[Dir(d)] \in Entries /\ r[File(d)] \in Entries
    BY <1>18, EntryKinds
  <2>2. \A p \in Paths : r[p] \in Entries
    BY <1>9, <1>12, <1>17, <2>1, PathFacts
  <2> QED  BY <1>4, <2>2
<1>20. IsCache(r)
  BY <1>9, <1>12, <1>17, <1>18, <1>19, IsCacheBy
<1>21. ASSUME NEW d \in Dirs
       PROVE  /\ LeftGone(c, disk, d) => LeftGone(r, disk, d) /\ (Fresh(c, disk, d) => Fresh(r, disk, d))
              /\ FullAt(r, d)
  <2>1. /\ disk[d] = NoDir => OnDiskDir(disk, d) = Missing
        /\ disk[d] # NoDir => OnDiskDir(disk, d).is = "dir" /\ OnDiskDir(disk, d).items = IF HasFile(disk, d) THEN {File(d)} ELSE {}
        /\ HasFile(disk, d) => OnDiskFile(disk, d).is = "file" /\ OnDiskFile(disk, d).modified = disk[d]
        /\ ~HasFile(disk, d) => OnDiskFile(disk, d) = Missing
    BY DEF OnDiskDir, OnDiskFile
  <2>2. /\ c[File(d)] = Absent \/ c[File(d)] = Missing \/ c[File(d)].is = "file"
        /\ c[Dir(d)] = Absent \/ c[Dir(d)] = Missing \/ c[Dir(d)].is = "dir"
    BY <1>1, EntryKinds
  <2>3. LeftGone(c, disk, d) => (c[File(d)] # Absent /\ c[Dir(d)].is # "dir" => disk[d] = NoDir)
    BY DEF LeftGone
  <2>4. LeftGone(c, disk, d) => LeftGone(r, disk, d)
    BY <1>6, <1>12, <1>16, <1>17, <2>1, <2>2, <2>3 DEF LeftGone
  <2>5. LeftGone(c, disk, d) /\ Fresh(c, disk, d) => Fresh(r, disk, d)
    BY <1>6, <1>12, <1>16, <1>17, <2>1, <2>2, <2>3 DEF Fresh
  <2>6. Dir(d) \in r[Top].items => r[Dir(d)] # Absent
    BY <1>6, <1>12, <1>17, <2>1
  <2>7. Dir(d) \in r[Top].items /\ r[Dir(d)].is = "dir" /\ r[Dir(d)].items # {} => r[File(d)] # Absent
    BY <1>6, <1>12, <1>16, <1>17, <2>1, <2>2
  <2> QED  BY <2>4, <2>5, <2>6, <2>7 DEF FullAt
<1>22. Full(r)
  BY <1>21 DEF Full
<1> QED  BY <1>9, <1>12, <1>17, <1>20, <1>21, <1>22 DEF r

LEMMA CleanedFacts ==
  ASSUME NEW c, Known(c)
  PROVE  LET r == Cleaned(c)
         IN  /\ IsCache(r) /\ r[Top] = c[Top] /\ (Full(c) => Full(r))
             /\ \A d \in Dirs : LeftGone(r, disk, d) /\ (Fresh(c, disk, d) => Fresh(r, disk, d)) /\ Shown(r, d) = Shown(c, d)
<1> DEFINE r == Cleaned(c)
<1>1. /\ IsCache(c) /\ DOMAIN c = Paths /\ c \in [Paths -> Entries] /\ c[Top].is = "dir" /\ c[Top].items \subseteq DirPaths
      /\ \A d \in Dirs : c[Dir(d)] \in DirEntry(d) /\ c[File(d)] \in FileEntry
  BY KnownFacts DEF Known
<1>2. /\ \A p \in Paths : r[p] = IF p \in {Top} \union c[Top].items \union Listed(c) THEN c[p] ELSE Absent
      /\ r = [p \in Paths |-> r[p]]
  BY <1>1 DEF Cleaned, Items
<1> HIDE DEF r
<1>3. /\ \A d \in Dirs : File(d) \in Listed(c) <=> Dir(d) \in c[Top].items /\ c[Dir(d)].is = "dir" /\ c[Dir(d)].items # {}
      /\ Listed(c) \subseteq {File(d) : d \in Dirs}
      /\ \A d \in Dirs : Dir(d) \notin Listed(c)
  BY <1>1, ListedFacts
<1>4. /\ r[Top] = c[Top]
      /\ \A d \in Dirs : r[Dir(d)] = IF Dir(d) \in c[Top].items THEN c[Dir(d)] ELSE Absent
      /\ \A d \in Dirs : r[File(d)] = IF File(d) \in Listed(c) THEN c[File(d)] ELSE Absent
  BY <1>1, <1>2, <1>3, PathFacts
<1>5. Absent.is = "absent" /\ Absent \in FileEntry /\ (\A d \in Dirs : Absent \in DirEntry(d)) /\ Absent \in Entries
  BY DEF Absent, FileEntry, DirEntry, Entries
<1>6. \A d \in Dirs : r[Dir(d)] \in DirEntry(d) /\ r[File(d)] \in FileEntry
  BY <1>1, <1>4, <1>5
<1>7. IsCache(r)
  <2>1. r \in [Paths -> Entries]
    BY <1>1, <1>2, <1>5
  <2> QED  BY <1>1, <1>4, <1>6, <2>1, IsCacheBy
<1>8. ASSUME NEW d \in Dirs
      PROVE  LeftGone(r, disk, d) /\ (Fresh(c, disk, d) => Fresh(r, disk, d)) /\ Shown(r, d) = Shown(c, d)
  <2>1. r[File(d)] # Absent => r[Dir(d)].is = "dir"
    BY <1>3, <1>4
  <2>2. LeftGone(r, disk, d)
    BY <2>1 DEF LeftGone
  <2>3. Fresh(c, disk, d) => Fresh(r, disk, d)
    BY <1>4, <1>5 DEF Fresh
  <2>4. Shown(r, d) = Shown(c, d)
    BY <1>3, <1>4, <1>5 DEF Shown, Reached
  <2> QED  BY <2>2, <2>3, <2>4
<1>9. Full(c) => Full(r)
  BY <1>3, <1>4 DEF Full, FullAt
<1> QED  BY <1>4, <1>7, <1>8, <1>9 DEF r

\* The index that is made has of a bundle what can be reached.
LEMMA IndexMade ==
  ASSUME NEW c, Known(c)
  PROVE  \A d \in Dirs : Indexed(Index(c), d) = Shown(c, d)
<1> SUFFICES ASSUME NEW d \in Dirs PROVE Indexed(Index(c), d) = Shown(c, d)
  OBVIOUS
<1>1. \A q, m : <<q, m>>[1] = q
  OBVIOUS
<1>2. Indexed(Index(c), d) = IF File(d) \in Listed(c) /\ c[File(d)].is = "file" THEN {<<File(d), c[File(d)].modified>>} ELSE {}
  BY <1>1 DEF Index, Indexed
<1>3. File(d) \in Listed(c) <=> Reached(c, d)
  BY ListedFacts DEF Known, Reached
<1> QED  BY <1>2, <1>3 DEF Shown

\* A bundle that is as it was, and listed as it was, is as good for the index.
LEMMA SameShown ==
  ASSUME NEW c, NEW r, NEW d \in Dirs, Same(c, r, d), Dir(d) \in r[Top].items <=> Dir(d) \in c[Top].items
  PROVE  Shown(r, d) = Shown(c, d) /\ (FullAt(c, d) => FullAt(r, d))
BY DEF Shown, Reached, FullAt, Same

\* A bundle whose file is not reached any more, and others that are as they were.
QuietAt(c, r, d) ==
  (FullAt(c, d) => FullAt(r, d)) /\ (Shown(r, d) = Shown(c, d) \/ (Reached(c, d) /\ ~Reached(r, d)))

\* An empty directory is all that a reload without a change can have found.
LEMMA QuietDir ==
  ASSUME NEW c, Known(c), NEW r, NEW d \in Dirs, NEW recursive \in BOOLEAN, c[Dir(d)] # Absent,
         ~Dirty(c, Dir(d), recursive), Same(ReloadDir(c, Dir(d), recursive), r, d), r[Top] = c[Top]
  PROVE  QuietAt(c, r, d)
<1> DEFINE n == ReloadDir(c, Dir(d), recursive)
<1>1. Dir(d) \in DirPaths /\ IsCache(c)
  BY PathFacts DEF Known
<1>2. Reload(c, Dir(d), recursive) = n
  BY <1>1 DEF Reload
<1>3. IF recursive /\ c[Dir(d)].is = "dir" /\ OnDisk(Dir(d)).is = "dir" THEN OnDisk(Dir(d)).items = {} ELSE n = c
  BY <1>1, <1>2 DEF Dirty
<1>4. OnDisk(Dir(d)) = OnDiskDir(disk, d)
  BY OnDiskFacts
<1>5. c[Dir(d)].is = "dir" /\ disk[d] # NoDir => n[Dir(d)] = OnDiskDir(disk, d)
  BY <1>1, ReloadDirFacts
<1> HIDE DEF n
<1>6. CASE n = c
  BY <1>6, SameShown DEF QuietAt, Same, n
<1>7. CASE c[Dir(d)].is = "dir" /\ OnDisk(Dir(d)).is = "dir" /\ OnDisk(Dir(d)).items = {}
  <2>1. disk[d] # NoDir
    BY <1>4, <1>7 DEF OnDiskDir, Missing
  <2>2. r[Dir(d)].is = "dir" /\ r[Dir(d)].items = {} /\ r[Dir(d)] # Absent
    BY <1>4, <1>5, <1>7, <2>1 DEF Same, n, Absent
  <2> QED  BY <2>2 DEF QuietAt, FullAt, Shown, Reached
<1> QED  BY <1>3, <1>6, <1>7

\* Nothing is reached in an empty directory of bundles.
LEMMA QuietTop ==
  ASSUME NEW c, NEW r, NEW d \in Dirs, r[Top].items = {}
  PROVE  QuietAt(c, r, d)
BY DEF QuietAt, FullAt, Shown, Reached

LEMMA QuietReload ==
  ASSUME NEW c, Known(c), NEW p \in {Top} \cup DirPaths, NEW recursive \in BOOLEAN, ~Dirty(c, p, recursive)
  PROVE  \A d \in Dirs : QuietAt(c, Reload(c, p, recursive), d)
<1> DEFINE r == Reload(c, p, recursive)
<1>1. c[Top].is = "dir" /\ c[Top] # Absent /\ IsCache(c)
  BY KnownFacts DEF Known
<1>2. CASE p \in DirPaths /\ c[p] # Absent
  <2>1. PICK d \in Dirs : p = Dir(d)
    BY <1>2, PathFacts
  <2>2. r = ReloadDir(c, Dir(d), recursive)
    BY <1>2, <2>1 DEF Reload
  <2> HIDE DEF r
  <2>3. r[Top] = c[Top] /\ \A e \in Dirs \ {d} : Same(c, r, e)
    BY <1>1, <1>2, <2>1, <2>2, ReloadDirFacts
  <2>4. Same(ReloadDir(c, Dir(d), recursive), r, d)
    BY <2>2 DEF Same
  <2>5. QuietAt(c, r, d)
    BY <1>2, <2>1, <2>3, <2>4, QuietDir
  <2>6. \A e \in Dirs \ {d} : QuietAt(c, r, e)
    BY <2>3, SameShown DEF QuietAt
  <2> QED  BY <2>5, <2>6 DEF r
<1>3. CASE ~(p \in DirPaths /\ c[p] # Absent)
  <2>1. r = ReloadRoot(c, recursive)
    BY <1>1, <1>3 DEF Reload
  <2>2. IF recursive /\ c[Top].is = "dir" /\ OnDisk(Top).is = "dir" THEN OnDisk(Top).items = {} ELSE r = c
    BY <1>3 DEF Dirty
  <2>3. OnDisk(Top).items = OnDiskTop(disk)
    BY OnDiskFacts
  <2>4. ReloadRoot(c, recursive)[Top].items = OnDiskTop(disk)
    BY ReloadRootFacts
  <2> HIDE DEF r
  <2>5. CASE r = c
    BY <2>5 DEF QuietAt, r
  <2>6. CASE OnDisk(Top).items = {}
    BY <2>1, <2>3, <2>4, <2>6, QuietTop DEF r
  <2> QED  BY <2>2, <2>5, <2>6
<1> QED  BY <1>2, <1>3

LEMMA QuietReinstalled ==
  ASSUME NEW c, Known(c), NEW ds \in SUBSET Dirs, \A d \in ds : ~Dirty(c, Dir(d), TRUE)
  PROVE  \A d \in Dirs : QuietAt(c, Reinstalled(c, ds), d)
<1> DEFINE a == ReloadAll(c, ds)  r == Reinstalled(c, ds)
<1>1. c[Top].is = "dir" /\ IsCache(c) /\ Reloaded(c, a) /\ a[Top] = c[Top]
  BY ReloadAllFacts DEF Known
<1>2. r = IF \E d \in ds : c[Dir(d)] = Absent THEN ReloadRoot(a, TRUE) ELSE a
  BY DEF Reinstalled
<1>3. \A p \in Paths : a[p] = IF \E d \in ds : p \in {Dir(d), File(d)} /\ c[Dir(d)] # Absent THEN ReloadDir(c, Dir(p[1]), TRUE)[p] ELSE c[p]
  BY DEF ReloadAll
<1> HIDE DEF a, r
<1>4. Known(a)
  BY <1>1 DEF Reloaded, Known
<1>5. CASE \E d \in ds : c[Dir(d)] = Absent
  <2>1. PICK d \in ds : c[Dir(d)] = Absent
    BY <1>5
  <2>2. OnDisk(Top).is = "dir" /\ OnDisk(Top).items = OnDiskTop(disk) /\ Dir(d) \in DirPaths
    BY OnDiskFacts, PathFacts
  <2>3. OnDiskTop(disk) = {}
    BY <1>1, <2>1, <2>2 DEF Dirty
  <2>4. ReloadRoot(a, TRUE)[Top].items = OnDiskTop(disk)
    BY <1>4, ReloadRootFacts
  <2> QED  BY <1>2, <1>5, <2>3, <2>4, QuietTop DEF r
<1>6. CASE ~\E d \in ds : c[Dir(d)] = Absent
  <2>1. r = a
    BY <1>2, <1>6
  <2>2. ASSUME NEW d \in Dirs PROVE QuietAt(c, a, d)
    <3>1. /\ Dir(d) \in Paths /\ File(d) \in Paths /\ Dir(d)[1] = d /\ File(d)[1] = d
          /\ \A e \in Dirs : Dir(d) \in {Dir(e), File(e)} => e = d
          /\ \A e \in Dirs : File(d) \in {Dir(e), File(e)} => e = d
      BY PathFacts
    <3>2. CASE d \in ds
      <4>1. Same(ReloadDir(c, Dir(d), TRUE), a, d)
        BY <1>3, <1>6, <3>1, <3>2 DEF Same
      <4>2. c[Dir(d)] # Absent /\ ~Dirty(c, Dir(d), TRUE)
        BY <1>6, <3>2
      <4> QED  BY <1>1, <4>1, <4>2, QuietDir
    <3>3. CASE d \notin ds
      <4>1. Same(c, a, d)
        BY <1>3, <3>1, <3>3 DEF Same
      <4> QED  BY <1>1, <4>1, SameShown DEF QuietAt
    <3> QED  BY <3>2, <3>3
  <2> QED  BY <2>1, <2>2 DEF r
<1> QED  BY <1>5, <1>6

\* What is not reached any more is dropped from the index when it is made again.
LEMMA QuietIndexed ==
  ASSUME NEW c, NEW r, Known(c), Known(r), \A d \in Dirs : QuietAt(c, r, d), NEW i, NEW olds, Full(c),
         \A d \in Dirs \ olds : Indexed(i, d) = Shown(c, d)
  PROVE  Full(r) /\ \A d \in Dirs \ (olds \cup Dropped(c, r)) : Indexed(i, d) = Shown(r, d)
<1>1. Full(r)
  BY DEF Full, QuietAt
<1>2. \A d \in Dirs : (File(d) \in Listed(c) <=> Reached(c, d)) /\ (File(d) \in Listed(r) <=> Reached(r, d))
  BY ListedFacts DEF Known, Reached
<1>3. \A d \in Dirs : Reached(c, d) /\ ~Reached(r, d) => d \in Dropped(c, r)
  BY <1>2 DEF Dropped
<1> QED  BY <1>1, <1>3 DEF QuietAt

LEMMA EraseFacts ==
  ASSUME NEW c, Known(c), NEW d \in Dirs, c[Dir(d)] # Absent
  PROVE  LET r == Erase(c, d)
         IN  /\ IsCache(r) /\ r[Top].is = "dir" /\ r[Top].id = c[Top].id /\ r[Dir(d)] = Absent
             /\ \A e \in Dirs \ {d} : Same(c, r, e) \/ (r[Dir(e)] = Absent /\ r[File(e)] = Absent)
<1> DEFINE r == Erase(c, d)  x == c[Top]  y == [x EXCEPT !.items = @ \ {Dir(d)}]
<1>1. /\ IsCache(c) /\ DOMAIN c = Paths /\ c \in [Paths -> Entries] /\ x.is = "dir" /\ x.items \subseteq DirPaths
      /\ x \in [is : {"dir"}, items : SUBSET Paths, id : Nat]
      /\ \A e \in Dirs : c[Dir(e)] \in DirEntry(e) /\ c[File(e)] \in FileEntry
  BY KnownFacts DEF Known
<1>2. /\ Top \in Paths /\ \A e \in Dirs : /\ Dir(e) \in Paths /\ File(e) \in Paths /\ Dir(e) # Top /\ File(e) # Top
                                          /\ Dir(e)[1] = e /\ File(e)[1] = e /\ File(e) # Dir(d) /\ (e # d => Dir(e) # Dir(d))
  BY PathFacts
<1>3. Absent \in FileEntry /\ (\A e \in Dirs : Absent \in DirEntry(e)) /\ Absent \in Entries
  BY DEF FileEntry, DirEntry, Entries
<1>4. CASE c[Dir(d)].is = "dir"
  <2>1. /\ \A p \in Paths : r[p] = IF p = Top THEN y ELSE IF p[1] >= d THEN Absent ELSE c[p]
        /\ r = [p \in Paths |-> r[p]]
    BY <1>1, <1>4 DEF Erase
  <2> HIDE DEF r, x
  <2>2. y \in [is : {"dir"}, items : SUBSET Paths, id : Nat] /\ y.is = "dir" /\ y.items \subseteq DirPaths /\ y.id = x.id
    BY <1>1
  <2> HIDE DEF y
  <2>3. /\ r[Top] = y
        /\ \A e \in Dirs : IF e >= d THEN r[Dir(e)] = Absent /\ r[File(e)] = Absent ELSE r[Dir(e)] = c[Dir(e)] /\ r[File(e)] = c[File(e)]
    BY <1>2, <2>1
  <2>4. \A e \in Dirs : r[Dir(e)] \in DirEntry(e) /\ r[File(e)] \in FileEntry
    BY <1>1, <1>3, <2>3
  <2>5. r \in [Paths -> Entries]
    <3>1. y \in Entries
      BY <2>2 DEF Entries
    <3>2. \A e \in Dirs : r[Dir(e)] \in Entries /\ r[File(e)] \in Entries
      BY <2>4, EntryKinds
    <3>3. \A p \in Paths : r[p] \in Entries
      BY <2>3, <3>1, <3>2, PathFacts
    <3> QED  BY <2>1, <3>3
  <2>6. IsCache(r)
    BY <2>2, <2>3, <2>4, <2>5, IsCacheBy
  <2>7. d >= d
    BY BundleAssumption
  <2> QED  BY <2>2, <2>3, <2>6, <2>7 DEF Same, r, x
<1>5. CASE c[Dir(d)].is # "dir"
  <2>1. r = [c EXCEPT ![Dir(d)] = Absent]
    BY <1>5 DEF Erase
  <2> HIDE DEF r
  <2>2. r \in [Paths -> Entries] /\ r[Top] = x /\ r[Dir(d)] = Absent /\ (\A e \in Dirs \ {d} : Same(c, r, e)) /\ r[File(d)] = c[File(d)]
    BY <1>1, <1>2, <1>3, <2>1 DEF Same
  <2>3. \A e \in Dirs : r[Dir(e)] \in DirEntry(e) /\ r[File(e)] \in FileEntry
    BY <1>1, <1>3, <2>2 DEF Same
  <2>4. IsCache(r)
    BY <1>1, <2>2, <2>3, IsCacheBy
  <2> QED  BY <1>1, <2>2, <2>4 DEF r
<1> QED  BY <1>4, <1>5

-----------------------------------------------------------------------------
(* What is right stays right.                                              *)

LEMMA SameRight ==
  ASSUME NEW c, NEW r, NEW dk, NEW es, NEW from, NEW ds, NEW ms, Right(c, dk, es, from, ds, ms),
         r[Top].items = c[Top].items, \A d \in Dirs : LeftGone(c, dk, d) => LeftGone(r, dk, d) /\ (Fresh(c, dk, d) => Fresh(r, dk, d))
  PROVE  Right(r, dk, es, from, ds, ms)
BY DEF Right, TopRight, BundleRight

LEMMA SameFresh ==
  ASSUME NEW c, NEW r, NEW dk, NEW es, NEW from, NEW ds, NEW ms, Right(c, dk, es, from, ds, ms),
         r[Top].items = c[Top].items, \A d \in Dirs : Same(c, r, d)
  PROVE  Right(r, dk, es, from, ds, ms)
<1>1. \A d \in Dirs : LeftGone(c, dk, d) => LeftGone(r, dk, d) /\ (Fresh(c, dk, d) => Fresh(r, dk, d))
  BY DEF LeftGone, Fresh, Same
<1> QED  BY <1>1, SameRight

\* What is reloaded for an event or a bundle that was installed needs to be
\* heard of no more.
LEMMA ReloadRight ==
  ASSUME NEW c, NEW r, NEW from, NEW ds, NEW to, NEW es, NEW ms, Right(c, disk, events, from, ds, ms), Reloaded(c, r),
         Announced(events, Top, from) => Announced(events, Top, to) \/ r[Top].items = OnDiskTop(disk),
         \A d \in Dirs : Announced(events, Dir(d), from) => Announced(events, Dir(d), to) \/ Fresh(r, disk, d),
         \A d \in Dirs : d \in ds => d \in es \/ Fresh(r, disk, d)
  PROVE  Right(r, disk, events, to, es, ms)
<1> SUFFICES ASSUME NEW d \in Dirs \ ms
             PROVE  TopRight(r, disk, events, to, d) /\ BundleRight(r, disk, events, to, es, d) /\ LeftGone(r, disk, d)
  BY DEF Right
<1>1. TopRight(c, disk, events, from, d) /\ BundleRight(c, disk, events, from, ds, d) /\ LeftGone(c, disk, d)
  BY DEF Right
<1>2. TopRight(r, disk, events, to, d)
  <2>1. Dir(d) \in OnDiskTop(disk) <=> disk[d] # NoDir
    BY PathFacts DEF OnDiskTop
  <2>2. r[Top].items \in {c[Top].items, OnDiskTop(disk)}
    BY DEF Reloaded
  <2> QED  BY <1>1, <2>1, <2>2 DEF TopRight
<1>3. LeftGone(r, disk, d) /\ (Fresh(r, disk, d) \/ Same(c, r, d))
  BY <1>1 DEF Reloaded, BundleReloaded
<1>4. Same(c, r, d) /\ Fresh(c, disk, d) => Fresh(r, disk, d)
  BY DEF Same, Fresh
<1> QED  BY <1>1, <1>2, <1>3, <1>4 DEF BundleRight

\* A change of the disk is announced, or the cache has nothing that it is about,
\* or it is unnoticed.
LEMMA ChangeRight ==
  ASSUME NEW c, NEW from, NEW ds, NEW ms, Right(c, disk, events, from, ds, ms),
         NEW d \in Dirs, NEW v, disk \in [Dirs -> Nat \cup {NoDir}],
         NEW dk, dk = [disk EXCEPT ![d] = v], NEW es, NEW ds2, ds \subseteq ds2, NEW ms2, ms \subseteq ms2,
         \A p : Announced(events, p, from) => Announced(es, p, from),
         d \in ms2 \/ (disk[d] = NoDir <=> v = NoDir) \/ Announced(es, Top, from),
         d \in ms2 \/ v = NoDir \/ (c[Dir(d)] = Absent /\ c[File(d)] = Absent)
           \/ (disk[d] # NoDir /\ (Announced(es, Dir(d), from) \/ d \in ds2))
  PROVE  Right(c, dk, es, from, ds2, ms2)
<1>1. dk[d] = v /\ \A e \in Dirs \ {d} : dk[e] = disk[e]
  OBVIOUS
<1> SUFFICES ASSUME NEW e \in Dirs \ ms2
             PROVE  TopRight(c, dk, es, from, e) /\ BundleRight(c, dk, es, from, ds2, e) /\ LeftGone(c, dk, e)
  BY DEF Right
<1>2. TopRight(c, disk, events, from, e) /\ BundleRight(c, disk, events, from, ds, e) /\ LeftGone(c, disk, e)
  BY DEF Right
<1>3. CASE e # d
  <2>1. dk[e] = disk[e]
    BY <1>1, <1>3
  <2> QED  BY <1>2, <2>1 DEF TopRight, BundleRight, Fresh, LeftGone, HasFile
<1>4. CASE e = d
  <2>1. TopRight(c, dk, es, from, d)
    BY <1>1, <1>2, <1>4 DEF TopRight
  <2>2. Absent.is # "dir"
    BY DEF Absent
  <2>3. BundleRight(c, dk, es, from, ds2, d)
    BY <1>1, <1>4, <2>2 DEF BundleRight, Fresh
  <2>4. LeftGone(c, dk, d)
    BY <1>1, <1>2, <1>4 DEF LeftGone
  <2> QED  BY <1>4, <2>1, <2>3, <2>4
<1> QED  BY <1>3, <1>4

\* What needs no event is right from whatever event on.
LEMMA NothingTold ==
  ASSUME NEW c, NEW ds, NEW ms, Right(c, disk, events, Len(events), ds, ms), events \in Seq({Top} \cup DirPaths),
         NEW dk, NEW es, NEW to, NEW ds2, ds \subseteq ds2, NEW ms2, ms \subseteq ms2, \A d \in Dirs \ ms2 : dk[d] = disk[d]
  PROVE  Right(c, dk, es, to, ds2, ms2)
<1> SUFFICES ASSUME NEW d \in Dirs \ ms2
             PROVE  TopRight(c, dk, es, to, d) /\ BundleRight(c, dk, es, to, ds2, d) /\ LeftGone(c, dk, d)
  BY DEF Right
<1>1. TopRight(c, disk, events, Len(events), d) /\ BundleRight(c, disk, events, Len(events), ds, d) /\ LeftGone(c, disk, d) /\ dk[d] = disk[d]
  BY DEF Right
<1>2. \A p : ~Announced(events, p, Len(events))
  <2>1. DOMAIN events = 1 .. Len(events) /\ Len(events) \in Nat
    BY LenProperties
  <2> QED  BY <2>1 DEF Announced
<1> QED  BY <1>1, <1>2 DEF TopRight, BundleRight, Fresh, LeftGone, HasFile

LEMMA AnnouncedAfter ==
  ASSUME NEW p, NEW from \in Nat, events[from + 1] # p, Announced(events, p, from), DOMAIN events \subseteq Nat
  PROVE  Announced(events, p, from + 1)
BY DEF Announced

-----------------------------------------------------------------------------
(* The invariant.                                                          *)

LEMMA NoCacheFacts ==
  /\ IsCache(NoCache) /\ NoCache[Top] = Absent /\ Absent.is = "absent"
  /\ \A d \in Dirs : NoCache[Dir(d)] = Absent /\ NoCache[File(d)] = Absent
<1>1. /\ \A p \in Paths : NoCache[p] = Absent
      /\ NoCache \in [Paths -> Entries]
  BY DEF NoCache, Entries
<1>2. NoCache[Top] = Absent /\ \A d \in Dirs : NoCache[Dir(d)] = Absent /\ NoCache[File(d)] = Absent
  BY <1>1, PathFacts
<1>3. Absent.is = "absent" /\ Absent \in FileEntry /\ \A d \in Dirs : Absent \in DirEntry(d)
  BY DEF Absent, FileEntry, DirEntry
<1> QED  BY <1>1, <1>2, <1>3, IsCacheBy

LEMMA BundleInitInd == BundleInit => BundleInd
<1> SUFFICES ASSUME BundleInit PROVE BundleInd
  OBVIOUS
<1>1. IsCache(NoCache)
  BY NoCacheFacts
<1>2. events = <<>> /\ <<>> \in Seq({Top} \cup DirPaths) /\ Len(events) = 0
  BY DEF BundleInit
<1>3. disk \in [Dirs -> Nat \cup {NoDir}]
  BY DEF BundleInit
<1> QED  BY <1>1, <1>2, <1>3 DEF BundleInit, BundleInd, BundleTypes

\* What is saved stays right as long as nothing changes on the disk.
LEMMA SavedStays ==
  ASSUME SavedRight, UNCHANGED <<saved, disk, events>>,
         installing \cup unsaved \cup missed \subseteq installing' \cup unsaved' \cup missed', missed \subseteq missed'
  PROVE  SavedRight'
BY DEF SavedRight, Right, TopRight, BundleRight

\* The cache of an application that runs, and what is saved.
LEMMA RunningFacts ==
  ASSUME BundleTypes, CacheRight
  PROVE  /\ Known(cache) /\ cache[Top] # Absent /\ cache[Top].id \in Nat /\ Since \in Nat /\ Len(events) \in Nat
         /\ DOMAIN events = 1 .. Len(events)
<1>1. Known(cache)
  BY DEF Known, BundleTypes, CacheRight
<1>2. cache[Top] # Absent /\ cache[Top] \in [is : {"dir"}, items : SUBSET Paths, id : Nat]
  BY <1>1, KnownFacts
<1>3. Len(events) \in Nat /\ DOMAIN events = 1 .. Len(events)
  BY LenProperties DEF BundleTypes
<1> QED  BY <1>1, <1>2, <1>3 DEF CacheRight

LEMMA SavedFacts ==
  ASSUME BundleTypes, SavedRight
  PROVE  /\ Known(saved) /\ saved[Top] # Absent /\ saved[Top].id \in Nat \ {0} /\ Len(events) \in Nat
         /\ saved[Top].id - 1 \in 0 .. Len(events)
<1>1. Known(saved)
  BY DEF Known, BundleTypes, SavedRight
<1>2. saved[Top] # Absent /\ saved[Top] \in [is : {"dir"}, items : SUBSET Paths, id : Nat]
  BY <1>1, KnownFacts
<1>3. Len(events) \in Nat /\ saved[Top].id \in Nat
  BY <1>2, LenProperties DEF BundleTypes
<1>4. saved[Top].id - 1 \in 0 .. Len(events)
  BY DEF SavedRight
<1> QED  BY <1>1, <1>2, <1>3, <1>4

\* A change, by somebody or by the application, and the events for it.
LEMMA DiskStep ==
  ASSUME BundleInd, NEW d \in Dirs, NEW v \in Nat \cup {NoDir}, disk' = [disk EXCEPT ![d] = v],
         NEW more \in Seq({Top} \cup DirPaths), events' = events \o more,
         d \in missed' \/ (disk[d] = NoDir <=> v = NoDir) \/ (\E i \in DOMAIN more : more[i] = Top),
         d \in missed' \/ v = NoDir \/ New(d)
           \/ (disk[d] # NoDir /\ ((\E i \in DOMAIN more : more[i] = Dir(d)) \/ d \in installing')),
         installing \subseteq installing', missed \subseteq missed', unsaved' = unsaved, saved' = saved
  PROVE  /\ app # "down" => Right(cache, disk', events', Since, installing', missed')
         /\ events' \in Seq({Top} \cup DirPaths) /\ Len(events') \in Nat /\ Len(events) <= Len(events')
         /\ disk' \in [Dirs -> Nat \cup {NoDir}]
         /\ saved' # NoCache => SavedRight'
         /\ \A p, from : from \in 0 .. Len(events) /\ (\E i \in DOMAIN more : more[i] = p) => Announced(events', p, from)
         /\ \A p, from : from \in 0 .. Len(events) /\ Announced(events, p, from) => Announced(events', p, from)
<1>1. events \in Seq({Top} \cup DirPaths) /\ disk \in [Dirs -> Nat \cup {NoDir}] /\ BundleTypes
  BY DEF BundleInd, BundleTypes
<1>2. /\ events' \in Seq({Top} \cup DirPaths) /\ Len(events) \in Nat /\ Len(more) \in Nat /\ Len(events') = Len(events) + Len(more)
      /\ \A i \in 1 .. Len(events) + Len(more) : events'[i] = IF i <= Len(events) THEN events[i] ELSE more[i - Len(events)]
      /\ DOMAIN events = 1 .. Len(events) /\ DOMAIN more = 1 .. Len(more) /\ DOMAIN events' = 1 .. Len(events')
  BY <1>1, ConcatProperties, LenProperties
<1>3. ASSUME NEW p, NEW from \in 0 .. Len(events)
      PROVE  /\ (\E i \in DOMAIN more : more[i] = p) => Announced(events', p, from)
             /\ Announced(events, p, from) => Announced(events', p, from)
  <2>1. ASSUME NEW i \in DOMAIN more, more[i] = p PROVE Announced(events', p, from)
    <3>1. Len(events) + i \in DOMAIN events' /\ Len(events) + i > from /\ events'[Len(events) + i] = more[i]
      BY <1>2
    <3> QED  BY <2>1, <3>1 DEF Announced
  <2>2. ASSUME Announced(events, p, from) PROVE Announced(events', p, from)
    BY <1>2, <2>2 DEF Announced
  <2> QED  BY <2>1, <2>2
<1>4. ASSUME NEW c \in {cache, saved}, NEW from \in 0 .. Len(events), NEW ds, NEW ds2, ds \subseteq ds2,
             Right(c, disk, events, from, ds, missed), d \in installing' => d \in ds2
      PROVE  Right(c, disk', events', from, ds2, missed')
  <2>1. \A p : Announced(events, p, from) => Announced(events', p, from)
    BY <1>3
  <2>2. d \in missed' \/ (disk[d] = NoDir <=> v = NoDir) \/ Announced(events', Top, from)
    BY <1>3
  <2>3. New(d) => c[Dir(d)] = Absent /\ c[File(d)] = Absent
    BY DEF New
  <2>4. d \in missed' \/ v = NoDir \/ (c[Dir(d)] = Absent /\ c[File(d)] = Absent)
          \/ (disk[d] # NoDir /\ (Announced(events', Dir(d), from) \/ d \in ds2))
    BY <1>3, <1>4, <2>3
  <2> QED  BY <1>1, <1>4, <2>1, <2>2, <2>4, ChangeRight
<1>5. app # "down" => Right(cache, disk', events', Since, installing', missed')
  <2>1. app # "down" => Since \in 0 .. Len(events) /\ Right(cache, disk, events, Since, installing, missed)
    BY DEF BundleInd, CacheRight
  <2> QED  BY <1>4, <2>1
<1>6. saved' # NoCache => SavedRight'
  <2> SUFFICES ASSUME saved # NoCache PROVE SavedRight'
    OBVIOUS
  <2>1. /\ saved[Top].is = "dir" /\ saved[Top].id - 1 \in 0 .. Len(events)
        /\ Right(saved, disk, events, saved[Top].id - 1, installing \cup unsaved, missed)
    BY DEF BundleInd, SavedRight
  <2>2. Right(saved, disk', events', saved[Top].id - 1, installing' \cup unsaved', missed')
    BY <1>4, <2>1
  <2>3. saved[Top].id - 1 \in 0 .. Len(events')
    BY <1>2, <2>1
  <2> QED  BY <2>1, <2>2, <2>3 DEF SavedRight
<1>7. disk' \in [Dirs -> Nat \cup {NoDir}]
  BY <1>1
<1> QED  BY <1>2, <1>3, <1>5, <1>6, <1>7

LEMMA StartKeeps ==
  ASSUME BundleInd, Launch
  PROVE  BundleInd'
<1>1. /\ app = "down" /\ app' = "built" /\ cache' = Filled(saved) /\ index' = Index(cache')
      /\ UNCHANGED <<clock, disk, events, installing, unsaved, seen, replay, saved, missed>>
  BY DEF Launch
<1>2. BundleTypes /\ installing = {} /\ unsaved = {} /\ (saved # NoCache => SavedRight)
  BY <1>1 DEF BundleInd
<1>3. IsCache(saved) /\ disk \in [Dirs -> Nat \cup {NoDir}] /\ Len(events) \in Nat
  BY <1>2, LenProperties DEF BundleTypes
<1>4. /\ IsCache(cache') /\ cache'[Top].is = "dir" /\ Full(cache')
      /\ saved[Top] # Absent => cache'[Top] = saved[Top]
      /\ saved[Top] = Absent => cache'[Top].items = OnDiskTop(disk) /\ cache'[Top].id = 0
      /\ \A d \in Dirs : LeftGone(saved, disk, d) => LeftGone(cache', disk, d) /\ (Fresh(saved, disk, d) => Fresh(cache', disk, d))
  BY <1>1, <1>3, FilledFacts
<1>5. Since' = IF cache'[Top].id = 0 THEN Len(events) ELSE cache'[Top].id - 1
  BY <1>1 DEF Since
<1>6. Since' \in 0 .. Len(events) /\ Right(cache', disk, events, Since', {}, missed)
  <2>1. CASE saved = NoCache
    <3>1. \A d \in Dirs : Fresh(saved, disk, d) /\ LeftGone(saved, disk, d)
      BY <2>1, NoCacheFacts DEF Fresh, LeftGone
    <3>2. cache'[Top].items = OnDiskTop(disk) /\ Since' = Len(events)
      BY <1>4, <1>5, <2>1, NoCacheFacts
    <3>3. \A d \in Dirs : Dir(d) \in OnDiskTop(disk) <=> disk[d] # NoDir
      BY PathFacts DEF OnDiskTop
    <3> QED  BY <1>3, <1>4, <3>1, <3>2, <3>3 DEF Right, TopRight, BundleRight
  <2>2. CASE saved # NoCache
    <3>1. saved[Top] # Absent /\ saved[Top].id \in Nat \ {0} /\ saved[Top].id - 1 \in 0 .. Len(events)
      BY <1>2, <2>2, SavedFacts
    <3>2. Since' = saved[Top].id - 1 /\ cache'[Top] = saved[Top]
      BY <1>4, <1>5, <3>1
    <3>3. Right(saved, disk, events, Since', {}, missed)
      <4>1. Right(saved, disk, events, saved[Top].id - 1, installing \cup unsaved, missed) /\ installing \cup unsaved = {}
        BY <1>2, <2>2 DEF SavedRight
      <4> QED  BY <3>2, <4>1
    <3>4. cache'[Top].items = saved[Top].items
      BY <3>2
    <3>5. Right(cache', disk, events, Since', {}, missed)
      BY <1>4, <3>3, <3>4, SameRight
    <3> QED  BY <3>1, <3>2, <3>5
  <2> QED  BY <2>1, <2>2
<1>7. CacheRight'
  <2>1. \A d \in Dirs : Indexed(index', d) = Shown(cache', d)
    BY <1>1, <1>4, IndexMade DEF Known
  <2> QED  BY <1>1, <1>2, <1>4, <1>6, <2>1 DEF CacheRight
<1>8. saved' # NoCache => SavedRight'
  BY <1>1, <1>2, SavedStays
<1>9. BundleTypes'
  BY <1>1, <1>2, <1>4 DEF BundleTypes
<1> QED  BY <1>1, <1>2, <1>7, <1>8, <1>9 DEF BundleInd

\* The event that the cache is current for is set.
LEMMA IdSet ==
  ASSUME NEW c, Known(c), NEW id \in Nat, NEW i, NEW olds, NEW ds, NEW from, Right(c, disk, events, from, ds, missed)
  PROVE  LET r == SetEventId(c, id)
         IN  /\ IsCache(r) /\ r[Top].is = "dir" /\ r[Top].id = id
             /\ Right(r, disk, events, from, ds, missed)
             /\ Full(c) /\ (\A d \in Dirs \ olds : Indexed(i, d) = Shown(c, d)) =>
                  Full(r) /\ \A d \in Dirs \ olds : Indexed(i, d) = Shown(r, d)
<1> DEFINE r == SetEventId(c, id)
<1>1. /\ IsCache(r) /\ r[Top].is = "dir" /\ r[Top].id = id /\ r[Top].items = c[Top].items /\ \A d \in Dirs : Same(c, r, d)
  BY TopIdSet
<1> HIDE DEF r
<1>2. Right(r, disk, events, from, ds, missed)
  BY <1>1, SameFresh
<1>3. \A d \in Dirs : Shown(r, d) = Shown(c, d) /\ (FullAt(c, d) => FullAt(r, d))
  BY <1>1, SameShown
<1> QED  BY <1>1, <1>2, <1>3 DEF Full, r

LEMMA WatchKeeps ==
  ASSUME BundleInd, Watch
  PROVE  BundleInd'
<1> DEFINE id == IF cache[Top].id = 0 THEN LastId ELSE cache[Top].id
<1>1. /\ app = "built" /\ app' = "up" /\ seen' = id - 1 /\ cache' = SetEventId(cache, id)
      /\ replay' = LastId /\ UNCHANGED <<clock, disk, events, needsIndex, index, installing, unsaved, saved, missed, stale>>
  BY DEF Watch
<1>2. BundleTypes /\ CacheRight /\ installing = {} /\ unsaved = {} /\ (saved # NoCache => SavedRight)
  BY <1>1 DEF BundleInd
<1>3. Known(cache) /\ cache[Top].id \in Nat /\ Len(events) \in Nat
  BY <1>2, RunningFacts
<1>4. Since = id - 1 /\ id \in Nat /\ LastId \in Nat
  BY <1>1, <1>3 DEF Since, LastId
<1> HIDE DEF id
<1>5. /\ Since' = Since /\ Since \in 0 .. Len(events) /\ Right(cache, disk, events, Since, installing, missed)
      /\ ~needsIndex => Full(cache) /\ \A d \in Dirs \ stale : Indexed(index, d) = Shown(cache, d)
  BY <1>1, <1>2, <1>4 DEF Since, CacheRight
<1>6. /\ IsCache(cache') /\ cache'[Top].is = "dir" /\ cache'[Top].id = id
      /\ Right(cache', disk, events, Since, installing, missed)
      /\ Full(cache) /\ (\A d \in Dirs \ stale : Indexed(index, d) = Shown(cache, d)) =>
           Full(cache') /\ \A d \in Dirs \ stale : Indexed(index, d) = Shown(cache', d)
  BY <1>1, <1>3, <1>4, <1>5, IdSet
<1>7. CacheRight'
  <2>1. cache'[Top].id = seen' + 1
    BY <1>1, <1>4, <1>6
  <2> QED  BY <1>1, <1>5, <1>6, <2>1 DEF CacheRight
<1>8. saved' # NoCache => SavedRight'
  BY <1>1, <1>2, SavedStays
<1>9. BundleTypes'
  BY <1>1, <1>2, <1>4, <1>5, <1>6 DEF BundleTypes
<1> QED  BY <1>1, <1>2, <1>7, <1>8, <1>9 DEF BundleInd

LEMMA EventKeeps ==
  ASSUME BundleInd, NEW recursive \in BOOLEAN, DidChange(recursive)
  PROVE  BundleInd'
<1> DEFINE p == events[seen + 1]  c == Reload(cache, p, recursive)  changed == Dirty(cache, p, recursive)
<1>1. /\ app = "up" /\ app' = "up" /\ seen < Len(events) /\ seen' = seen + 1 /\ cache' = SetEventId(c, seen' + 1)
      /\ needsIndex' = (needsIndex \/ changed) /\ stale' = (IF changed THEN stale ELSE stale \cup Dropped(cache, c))
      /\ UNCHANGED <<clock, disk, events, index, installing, unsaved, replay, saved, missed>>
  BY DEF DidChange
<1>2. BundleTypes /\ CacheRight /\ (saved # NoCache => SavedRight) /\ Since = seen /\ seen \in Nat
  BY <1>1 DEF BundleInd, Since, BundleTypes
<1>3. Known(cache) /\ Len(events) \in Nat /\ DOMAIN events = 1 .. Len(events)
  BY <1>2, RunningFacts
<1>4. p \in {Top} \cup DirPaths
  BY <1>1, <1>2, <1>3 DEF BundleTypes
<1>5. /\ Reloaded(cache, c) /\ (p = Top => c[Top].items = OnDiskTop(disk))
      /\ \A d \in Dirs : p = Dir(d) => Fresh(c, disk, d)
  BY <1>3, <1>4, ReloadFacts
<1>6. ~changed => \A d \in Dirs : QuietAt(cache, c, d)
  BY <1>3, <1>4, QuietReload
<1> HIDE DEF c, changed
<1>7. Known(c)
  BY <1>5 DEF Reloaded, Known
<1>8. Right(c, disk, events, seen + 1, installing, missed)
  <2>1. Right(cache, disk, events, seen, installing, missed)
    BY <1>2 DEF CacheRight
  <2>2. \A q : Announced(events, q, seen) => Announced(events, q, seen + 1) \/ q = p
    BY <1>2, <1>3, AnnouncedAfter
  <2>3. Announced(events, Top, seen) => Announced(events, Top, seen + 1) \/ c[Top].items = OnDiskTop(disk)
    BY <1>5, <2>2
  <2>4. \A d \in Dirs : Announced(events, Dir(d), seen) => Announced(events, Dir(d), seen + 1) \/ Fresh(c, disk, d)
    BY <1>5, <2>2
  <2>5. \A d \in Dirs : d \in installing => d \in installing \/ Fresh(c, disk, d)
    OBVIOUS
  <2> QED  BY <1>5, <2>1, <2>3, <2>4, <2>5, ReloadRight
<1>9. ~needsIndex' => Full(c) /\ \A d \in Dirs \ stale' : Indexed(index, d) = Shown(c, d)
  <2> SUFFICES ASSUME ~needsIndex, ~changed PROVE Full(c) /\ \A d \in Dirs \ stale' : Indexed(index, d) = Shown(c, d)
    BY <1>1
  <2>1. Full(cache) /\ \A d \in Dirs \ stale : Indexed(index, d) = Shown(cache, d)
    BY <1>2 DEF CacheRight
  <2>2. stale' = stale \cup Dropped(cache, c)
    BY <1>1
  <2>3. Full(c) /\ \A d \in Dirs \ (stale \cup Dropped(cache, c)) : Indexed(index, d) = Shown(c, d)
    BY <1>3, <1>6, <1>7, <2>1, QuietIndexed
  <2> QED  BY <2>2, <2>3
<1>10. seen + 2 \in Nat /\ seen' + 1 = seen + 2 /\ seen + 1 \in 0 .. Len(events)
  BY <1>1, <1>2, <1>3
<1>11. cache' = SetEventId(c, seen + 2)
  BY <1>1, <1>10
<1>12. /\ IsCache(cache') /\ cache'[Top].is = "dir" /\ cache'[Top].id = seen + 2
       /\ Right(cache', disk, events, seen + 1, installing, missed)
       /\ Full(c) /\ (\A d \in Dirs \ stale' : Indexed(index, d) = Shown(c, d)) =>
            Full(cache') /\ \A d \in Dirs \ stale' : Indexed(index, d) = Shown(cache', d)
  <2>1. ASSUME NEW olds
        PROVE  LET r == SetEventId(c, seen + 2)
               IN  /\ IsCache(r) /\ r[Top].is = "dir" /\ r[Top].id = seen + 2
                   /\ Right(r, disk, events, seen + 1, installing, missed)
                   /\ Full(c) /\ (\A d \in Dirs \ olds : Indexed(index, d) = Shown(c, d)) =>
                        Full(r) /\ \A d \in Dirs \ olds : Indexed(index, d) = Shown(r, d)
    BY <1>7, <1>8, <1>10, IdSet
  <2> QED  BY <1>11, <2>1
<1>13. Since' = seen + 1
  BY <1>1 DEF Since
<1>14. CacheRight'
  BY <1>1, <1>9, <1>10, <1>12, <1>13 DEF CacheRight
<1>15. saved' # NoCache => SavedRight'
  BY <1>1, <1>2, SavedStays
<1>16. BundleTypes'
  BY <1>1, <1>2, <1>10, <1>12 DEF BundleTypes
<1> QED  BY <1>1, <1>2, <1>14, <1>15, <1>16 DEF BundleInd

LEMMA ReplayKeeps ==
  ASSUME BundleInd, HistoryDone
  PROVE  BundleInd'
<1>1. /\ app = "up" /\ app' = "up" /\ seen + 1 >= replay /\ replay' = 0
      /\ cache' = SetEventId(cache, IF seen + 1 > replay THEN seen + 1 ELSE replay)
      /\ UNCHANGED <<clock, disk, events, needsIndex, index, installing, unsaved, seen, saved, missed, stale>>
  BY DEF HistoryDone, ReplayedId
<1>2. BundleTypes /\ CacheRight /\ (saved # NoCache => SavedRight) /\ Since = seen /\ Since' = seen /\ seen \in Nat /\ replay \in Nat
  BY <1>1 DEF BundleInd, Since, BundleTypes
<1>3. Known(cache) /\ Len(events) \in Nat
  BY <1>2, RunningFacts
<1>4. cache' = SetEventId(cache, seen + 1) /\ seen + 1 \in Nat
  <2>1. (IF seen + 1 > replay THEN seen + 1 ELSE replay) = seen + 1
    BY <1>1, <1>2
  <2> QED  BY <1>1, <1>2, <2>1
<1>5. /\ seen \in 0 .. Len(events) /\ Right(cache, disk, events, seen, installing, missed)
      /\ ~needsIndex => Full(cache) /\ \A d \in Dirs \ stale : Indexed(index, d) = Shown(cache, d)
  BY <1>2 DEF CacheRight
<1>6. /\ IsCache(cache') /\ cache'[Top].is = "dir" /\ cache'[Top].id = seen + 1
      /\ Right(cache', disk, events, seen, installing, missed)
      /\ Full(cache) /\ (\A d \in Dirs \ stale : Indexed(index, d) = Shown(cache, d)) =>
           Full(cache') /\ \A d \in Dirs \ stale : Indexed(index, d) = Shown(cache', d)
  BY <1>3, <1>4, <1>5, IdSet
<1>7. CacheRight'
  BY <1>1, <1>2, <1>5, <1>6 DEF CacheRight
<1>8. saved' # NoCache => SavedRight'
  BY <1>1, <1>2, SavedStays
<1>9. BundleTypes'
  BY <1>1, <1>2, <1>6 DEF BundleTypes
<1> QED  BY <1>1, <1>2, <1>7, <1>8, <1>9 DEF BundleInd

LEMMA IndexKeeps ==
  ASSUME BundleInd, CreateIndex
  PROVE  BundleInd'
<1>1. /\ app = "up" /\ app' = "up" /\ cache' = Filled(cache) /\ index' = Index(cache')
      /\ UNCHANGED <<clock, disk, events, installing, unsaved, seen, replay, saved, missed>>
  BY DEF CreateIndex
<1>2. BundleTypes /\ CacheRight /\ (saved # NoCache => SavedRight) /\ Since = seen /\ Since' = seen
  BY <1>1 DEF BundleInd, Since
<1>3. Known(cache) /\ cache[Top] # Absent /\ disk \in [Dirs -> Nat \cup {NoDir}]
  BY <1>2, RunningFacts DEF BundleTypes
<1>4. /\ IsCache(cache') /\ cache'[Top].is = "dir" /\ Full(cache') /\ cache'[Top] = cache[Top]
      /\ \A d \in Dirs : LeftGone(cache, disk, d) => LeftGone(cache', disk, d) /\ (Fresh(cache, disk, d) => Fresh(cache', disk, d))
  BY <1>1, <1>3, FilledFacts DEF Known
<1>5. seen \in 0 .. Len(events) /\ Right(cache, disk, events, seen, installing, missed) /\ cache[Top].id = seen + 1
  BY <1>1, <1>2 DEF CacheRight
<1>6. Right(cache', disk, events, seen, installing, missed)
  BY <1>4, <1>5, SameRight
<1>7. \A d \in Dirs : Indexed(index', d) = Shown(cache', d)
  BY <1>1, <1>4, IndexMade DEF Known
<1>8. CacheRight'
  BY <1>1, <1>2, <1>4, <1>5, <1>6, <1>7 DEF CacheRight
<1>9. saved' # NoCache => SavedRight'
  BY <1>1, <1>2, SavedStays
<1>10. BundleTypes'
  BY <1>1, <1>2, <1>4 DEF BundleTypes
<1> QED  BY <1>1, <1>2, <1>8, <1>9, <1>10 DEF BundleInd

LEMMA SaveKeeps ==
  ASSUME BundleInd, SaveIndex
  PROVE  BundleInd'
<1>1. /\ app = "up" /\ app' = "up" /\ cache' = Cleaned(cache)
      /\ (saved' = cache' /\ unsaved' = {}) \/ (saved' = saved /\ unsaved' = unsaved)
      /\ UNCHANGED <<clock, disk, events, needsIndex, index, installing, seen, replay, missed, stale>>
  BY DEF SaveIndex
<1>2. BundleTypes /\ CacheRight /\ Since = seen /\ Since' = seen /\ seen \in Nat /\ (saved # NoCache => SavedRight)
  BY <1>1 DEF BundleInd, Since, BundleTypes
<1>3. Known(cache) /\ Len(events) \in Nat
  BY <1>2, RunningFacts
<1>4. /\ IsCache(cache') /\ cache'[Top] = cache[Top] /\ (Full(cache) => Full(cache'))
      /\ \A d \in Dirs : LeftGone(cache', disk, d) /\ (Fresh(cache, disk, d) => Fresh(cache', disk, d)) /\ Shown(cache', d) = Shown(cache, d)
  BY <1>1, <1>3, CleanedFacts
<1>5. /\ seen \in 0 .. Len(events) /\ Right(cache, disk, events, seen, installing, missed) /\ cache[Top].id = seen + 1 /\ cache[Top].is = "dir"
      /\ ~needsIndex => Full(cache) /\ \A d \in Dirs \ stale : Indexed(index, d) = Shown(cache, d)
  BY <1>1, <1>2 DEF CacheRight
<1>6. Right(cache', disk, events, seen, installing, missed)
  BY <1>4, <1>5, SameRight
<1>7. CacheRight'
  BY <1>1, <1>2, <1>4, <1>5, <1>6 DEF CacheRight
<1>8. saved' # NoCache => SavedRight'
  <2>1. CASE saved' = cache' /\ unsaved' = {}
    <3>1. saved'[Top].is = "dir" /\ saved'[Top].id - 1 = seen
      BY <1>2, <1>4, <1>5, <2>1
    <3>2. installing' \cup unsaved' = installing
      BY <1>1, <2>1
    <3>3. Right(saved', disk', events', saved'[Top].id - 1, installing' \cup unsaved', missed')
      BY <1>1, <1>6, <2>1, <3>1, <3>2
    <3> QED  BY <1>1, <1>5, <3>1, <3>3 DEF SavedRight
  <2>2. CASE saved' = saved /\ unsaved' = unsaved
    BY <1>1, <1>2, <2>2, SavedStays
  <2> QED  BY <1>1, <2>1, <2>2
<1>9. BundleTypes'
  <2>1. IsCache(saved') /\ unsaved' \in SUBSET Dirs
    BY <1>1, <1>2, <1>4 DEF BundleTypes
  <2> QED  BY <1>1, <1>2, <1>4, <2>1 DEF BundleTypes
<1> QED  BY <1>1, <1>7, <1>8, <1>9 DEF BundleInd

LEMMA CrashKeeps ==
  ASSUME BundleInd, Crash
  PROVE  BundleInd'
<1>1. /\ app' = "down" /\ cache' = NoCache
      /\ saved' = NoCache \/ (saved' = saved /\ missed' = missed \cup installing \cup unsaved)
      /\ installing' = {} /\ unsaved' = {} /\ seen' = 0 /\ replay' = 0
      /\ UNCHANGED <<clock, disk, events>>
  BY DEF Crash
<1>2. BundleTypes /\ (saved # NoCache => SavedRight)
  BY DEF BundleInd
<1>3. saved' # NoCache => SavedRight'
  <2> SUFFICES ASSUME saved' # NoCache PROVE SavedRight'
    OBVIOUS
  <2>1. saved' = saved /\ missed' = missed \cup installing \cup unsaved /\ SavedRight
    BY <1>1, <1>2
  <2> QED  BY <1>1, <2>1, SavedStays
<1>4. BundleTypes'
  <2>1. Len(events) \in Nat
    BY <1>2, LenProperties DEF BundleTypes
  <2>2. IsCache(saved')
    BY <1>1, <1>2, NoCacheFacts DEF BundleTypes
  <2> QED  BY <1>1, <1>2, <2>1, <2>2, NoCacheFacts DEF BundleTypes
<1> QED  BY <1>1, <1>3, <1>4 DEF BundleInd

LEMMA MissedFacts ==
  ASSUME NEW d \in Dirs
  PROVE  /\ missed \subseteq Missed(d) /\ (d \in Missed(d) \/ disk[d] # NoDir \/ New(d))
         /\ app = "built" /\ cache[Top].id = 0 => d \in Missed(d)
         /\ Missed(d) \subseteq missed \cup {d}
BY DEF Missed

LEMMA ChangeKeeps ==
  ASSUME BundleInd, NEW d \in Dirs, ChangeBundle(d)
  PROVE  BundleInd'
<1>1. /\ clock' \in {clock, clock + 1} /\ missed' = Missed(d)
      /\ UNCHANGED <<app, cache, needsIndex, index, installing, unsaved, seen, replay, saved, stale>>
  BY DEF ChangeBundle, appVars
<1>2. BundleTypes
  BY DEF BundleInd
<1>3. /\ missed \subseteq missed' /\ (d \in missed' \/ disk[d] # NoDir \/ New(d))
      /\ app = "built" /\ cache[Top].id = 0 => d \in missed'
  BY <1>1, MissedFacts
<1>4. PICK v \in Nat \cup {NoDir}, p \in {Top, Dir(d)} :
        /\ disk' = [disk EXCEPT ![d] = v] /\ events' = Append(events, p)
        /\ (disk[d] = NoDir <=> v = NoDir) \/ p = Top
        /\ v = NoDir \/ disk[d] = NoDir \/ p = Dir(d)
  <2>1. clock + 1 \in Nat /\ 0 \in Nat /\ NoDir \notin Nat
    BY <1>2, BundleAssumption DEF BundleTypes
  <2> DEFINE Goal(v, p) ==
        /\ disk' = [disk EXCEPT ![d] = v] /\ events' = Append(events, p)
        /\ (disk[d] = NoDir <=> v = NoDir) \/ p = Top
        /\ v = NoDir \/ disk[d] = NoDir \/ p = Dir(d)
  <2>2. Goal(0, Top) \/ Goal(clock + 1, Top) \/ Goal(clock + 1, Dir(d)) \/ Goal(0, Dir(d)) \/ Goal(NoDir, Top)
    BY <2>1 DEF ChangeBundle, Event
  <2> HIDE DEF Goal
  <2>3. \E v \in Nat \cup {NoDir}, p \in {Top, Dir(d)} : Goal(v, p)
    BY <2>1, <2>2
  <2> QED  BY <2>3 DEF Goal
<1> DEFINE more == <<p>>
<1>5. more \in Seq({Top} \cup DirPaths) /\ DOMAIN more = {1} /\ more[1] = p
  BY PathFacts
<1>6. events' = events \o more
  BY <1>2, <1>4, PathFacts, AppendIsConcat DEF BundleTypes
<1> HIDE DEF more
<1>7. /\ app # "down" => Right(cache, disk', events', Since, installing', missed')
      /\ events' \in Seq({Top} \cup DirPaths) /\ Len(events') \in Nat /\ Len(events) <= Len(events')
      /\ disk' \in [Dirs -> Nat \cup {NoDir}]
      /\ saved' # NoCache => SavedRight'
  <2>1. d \in missed' \/ (disk[d] = NoDir <=> v = NoDir) \/ (\E i \in DOMAIN more : more[i] = Top)
    BY <1>4, <1>5
  <2>2. d \in missed' \/ v = NoDir \/ New(d)
          \/ (disk[d] # NoDir /\ ((\E i \in DOMAIN more : more[i] = Dir(d)) \/ d \in installing'))
    BY <1>3, <1>4, <1>5
  <2> QED  BY <1>1, <1>3, <1>4, <1>5, <1>6, <2>1, <2>2, DiskStep
<1>8. app # "down" => CacheRight'
  <2> SUFFICES ASSUME app # "down" PROVE CacheRight'
    OBVIOUS
  <2>1. CacheRight
    BY DEF BundleInd
  <2>2. app = "built" \/ app = "up"
    BY <1>2 DEF BundleTypes
  <2>3. Since \in 0 .. Len(events) /\ Len(events) \in Nat /\ events \in Seq({Top} \cup DirPaths)
    BY <1>2, <2>1, RunningFacts DEF CacheRight, BundleTypes
  <2>4. Since' \in 0 .. Len(events') /\ Right(cache, disk', events', Since', installing', missed')
    <3>1. CASE app = "built" /\ cache[Top].id = 0
      <4>1. Since = Len(events) /\ Since' = Len(events')
        BY <1>1, <3>1 DEF Since
      <4>2. Right(cache, disk, events, Len(events), installing, missed)
        BY <2>1, <4>1 DEF CacheRight
      <4>3. \A e \in Dirs \ missed' : disk'[e] = disk[e]
        BY <1>2, <1>3, <1>4, <3>1 DEF BundleTypes
      <4>4. Right(cache, disk', events', Since', installing', missed')
        BY <1>1, <1>3, <2>3, <4>2, <4>3, NothingTold
      <4> QED  BY <1>7, <4>1, <4>4
    <3>2. CASE ~(app = "built" /\ cache[Top].id = 0)
      <4>1. Since' = Since
        BY <1>1, <2>2, <3>2 DEF Since
      <4> QED  BY <1>7, <2>3, <4>1
    <3> QED  BY <3>1, <3>2
  <2> QED  BY <1>1, <2>1, <2>4 DEF CacheRight
<1>9. BundleTypes'
  <2>1. Len(events) \in Nat /\ seen \in Nat /\ seen <= Len(events) /\ clock' \in Nat
    BY <1>1, <1>2, LenProperties DEF BundleTypes
  <2>2. seen <= Len(events')
    BY <1>7, <2>1
  <2> QED  BY <1>1, <1>2, <1>7, <2>1, <2>2 DEF BundleTypes
<1> QED  BY <1>1, <1>7, <1>8, <1>9 DEF BundleInd

LEMMA InstallKeeps ==
  ASSUME BundleInd, NEW d \in Dirs, Install(d)
  PROVE  BundleInd'
<1>1. /\ app = "up" /\ clock' = clock + 1 /\ disk' = [disk EXCEPT ![d] = clock + 1]
      /\ events' = Append(events, Top) /\ installing' = installing \cup {d} /\ missed' = Missed(d)
      /\ UNCHANGED <<app, cache, needsIndex, index, unsaved, seen, replay, saved, stale>>
  BY DEF Install, Event
<1>2. BundleTypes /\ CacheRight /\ Since' = Since /\ clock + 1 \in Nat \cup {NoDir}
  BY <1>1 DEF BundleInd, BundleTypes, Since
<1> DEFINE more == <<Top>>
<1>3. more \in Seq({Top} \cup DirPaths) /\ DOMAIN more = {1} /\ more[1] = Top
  OBVIOUS
<1>4. events' = events \o more
  BY <1>1, <1>2, AppendIsConcat DEF BundleTypes
<1> HIDE DEF more
<1>5. /\ app # "down" => Right(cache, disk', events', Since, installing', missed')
      /\ events' \in Seq({Top} \cup DirPaths) /\ Len(events') \in Nat /\ Len(events) <= Len(events')
      /\ disk' \in [Dirs -> Nat \cup {NoDir}]
      /\ saved' # NoCache => SavedRight'
  <2>1. \E i \in DOMAIN more : more[i] = Top
    BY <1>3
  <2>2. d \in installing' /\ installing \subseteq installing' /\ unsaved' = unsaved /\ saved' = saved
    BY <1>1
  <2>3. PICK v \in Nat \cup {NoDir} : disk' = [disk EXCEPT ![d] = v]
    BY <1>1, <1>2
  <2>4. missed \subseteq missed' /\ (d \in missed' \/ disk[d] # NoDir \/ New(d))
    BY <1>1, MissedFacts
  <2> QED  BY <1>3, <1>4, <2>1, <2>2, <2>3, <2>4, DiskStep
<1>6. CacheRight'
  <2>1. Since \in 0 .. Len(events')
    <3>1. Since \in 0 .. Len(events) /\ Len(events) \in Nat
      BY <1>2, RunningFacts DEF CacheRight
    <3> QED  BY <1>5, <3>1
  <2> QED  BY <1>1, <1>2, <1>5, <2>1 DEF CacheRight
<1>7. BundleTypes'
  <2>1. Len(events) \in Nat /\ seen \in Nat /\ seen <= Len(events) /\ clock' \in Nat
    BY <1>1, <1>2, LenProperties DEF BundleTypes
  <2>2. seen <= Len(events')
    BY <1>5, <2>1
  <2> QED  BY <1>1, <1>2, <1>5, <2>1, <2>2 DEF BundleTypes
<1> QED  BY <1>1, <1>5, <1>6, <1>7 DEF BundleInd

LEMMA UninstallKeeps ==
  ASSUME BundleInd, NEW d \in Dirs, Uninstall(d)
  PROVE  BundleInd'
<1>1. /\ app = "up" /\ disk' = [disk EXCEPT ![d] = NoDir] /\ events' = events \o <<Dir(d), Top>>
      /\ UNCHANGED <<clock, app, index, installing, unsaved, seen, replay, saved, missed, stale>>
      /\ \/ cache' = cache /\ needsIndex' = needsIndex
         \/ cache[Dir(d)] # Absent /\ cache' = Erase(cache, d) /\ needsIndex' = TRUE
  BY DEF Uninstall
<1>2. BundleTypes /\ CacheRight /\ Since = seen /\ Since' = seen
  BY <1>1 DEF BundleInd, Since
<1> DEFINE more == <<Dir(d), Top>>
<1>3. more \in Seq({Top} \cup DirPaths) /\ (\E i \in DOMAIN more : more[i] = Top) /\ (\E i \in DOMAIN more : more[i] = Dir(d))
  <2>1. more[1] = Dir(d) /\ more[2] = Top /\ DOMAIN more = {1, 2}
    OBVIOUS
  <2>2. more \in Seq({Top} \cup DirPaths)
    BY PathFacts
  <2> QED  BY <2>1, <2>2
<1>4. events' = events \o more
  BY <1>1
<1> HIDE DEF more
<1>5. /\ app # "down" => Right(cache, disk', events', Since, installing', missed')
      /\ events' \in Seq({Top} \cup DirPaths) /\ Len(events') \in Nat /\ Len(events) <= Len(events')
      /\ disk' \in [Dirs -> Nat \cup {NoDir}]
      /\ saved' # NoCache => SavedRight'
      /\ \A p, from : from \in 0 .. Len(events) /\ (\E i \in DOMAIN more : more[i] = p) => Announced(events', p, from)
      /\ \A p, from : from \in 0 .. Len(events) /\ Announced(events, p, from) => Announced(events', p, from)
  <2>1. installing \subseteq installing' /\ missed \subseteq missed' /\ unsaved' = unsaved /\ saved' = saved
    BY <1>1
  <2>2. PICK v \in Nat \cup {NoDir} : disk' = [disk EXCEPT ![d] = v] /\ v = NoDir
    BY <1>1
  <2> QED  BY <1>3, <1>4, <2>1, <2>2, DiskStep
<1>6. /\ cache[Top].is = "dir" /\ cache[Top].id = seen + 1 /\ seen \in 0 .. Len(events)
      /\ Right(cache, disk, events, seen, installing, missed)
      /\ ~needsIndex => Full(cache) /\ \A e \in Dirs \ stale : Indexed(index, e) = Shown(cache, e)
  BY <1>1, <1>2 DEF CacheRight
<1>7. Len(events) \in Nat /\ seen \in 0 .. Len(events')
  BY <1>2, <1>5, <1>6, RunningFacts
<1>8. CASE cache' = cache /\ needsIndex' = needsIndex
  <2>1. CacheRight'
    BY <1>1, <1>2, <1>5, <1>6, <1>7, <1>8 DEF CacheRight
  <2>2. BundleTypes'
    BY <1>1, <1>2, <1>5, <1>7, <1>8 DEF BundleTypes
  <2> QED  BY <1>1, <1>5, <2>1, <2>2 DEF BundleInd
<1>9. CASE cache[Dir(d)] # Absent /\ cache' = Erase(cache, d) /\ needsIndex' = TRUE
  <2>1. Known(cache) /\ disk \in [Dirs -> Nat \cup {NoDir}]
    BY <1>2, RunningFacts DEF BundleTypes
  <2>2. /\ IsCache(cache') /\ cache'[Top].is = "dir" /\ cache'[Top].id = cache[Top].id /\ cache'[Dir(d)] = Absent
        /\ \A e \in Dirs \ {d} : Same(cache, cache', e) \/ (cache'[Dir(e)] = Absent /\ cache'[File(e)] = Absent)
    BY <1>9, <2>1, EraseFacts
  <2>3. Right(cache', disk', events', seen, installing', missed')
    <3>1. \A e \in Dirs : TopRight(cache', disk', events', seen, e)
      BY <1>3, <1>5, <1>6 DEF TopRight
    <3>2. disk'[d] = NoDir /\ \A e \in Dirs \ {d} : disk'[e] = disk[e]
      BY <1>1, <2>1
    <3>3. BundleRight(cache', disk', events', seen, installing', d) /\ LeftGone(cache', disk', d)
      BY <3>2 DEF BundleRight, LeftGone
    <3>4. ASSUME NEW e \in Dirs \ missed, e # d
          PROVE  BundleRight(cache', disk', events', seen, installing', e) /\ LeftGone(cache', disk', e)
      <4>1. BundleRight(cache, disk, events, seen, installing, e) /\ LeftGone(cache, disk, e)
        BY <1>6 DEF Right
      <4>2. Absent.is # "dir" /\ disk'[e] = disk[e]
        BY <3>2, <3>4 DEF Absent
      <4>3. Announced(events, Dir(e), seen) => Announced(events', Dir(e), seen)
        BY <1>5, <1>6
      <4>4. CASE Same(cache, cache', e)
        BY <1>1, <4>1, <4>2, <4>3, <4>4 DEF BundleRight, LeftGone, Fresh, HasFile, Same
      <4>5. CASE cache'[Dir(e)] = Absent /\ cache'[File(e)] = Absent
        BY <4>2, <4>5 DEF BundleRight, LeftGone, Fresh
      <4> QED  BY <2>2, <3>4, <4>4, <4>5
    <3>5. missed' = missed
      BY <1>1
    <3> QED  BY <3>1, <3>3, <3>4, <3>5 DEF Right
  <2>4. CacheRight'
    BY <1>1, <1>2, <1>6, <1>7, <1>9, <2>2, <2>3 DEF CacheRight
  <2>5. BundleTypes'
    BY <1>1, <1>2, <1>5, <1>7, <2>2 DEF BundleTypes
  <2> QED  BY <1>1, <1>5, <2>4, <2>5 DEF BundleInd
<1> QED  BY <1>1, <1>8, <1>9

LEMMA InstalledKeeps ==
  ASSUME BundleInd, Installed
  PROVE  BundleInd'
<1> DEFINE c == Reinstalled(cache, installing)
           changed == \E d \in installing : Dirty(cache, Dir(d), TRUE)
<1>1. /\ app = "up" /\ app' = "up" /\ installing' = {} /\ unsaved' = unsaved \cup installing
      /\ IF needsIndex \/ changed
           THEN cache' = Filled(c) /\ index' = Index(cache') /\ stale' = {}
           ELSE cache' = c /\ index' = index /\ stale' = stale \cup Dropped(cache, c)
      /\ needsIndex' = FALSE
      /\ UNCHANGED <<clock, disk, events, seen, replay, saved, missed>>
  BY DEF Installed
<1>2. BundleTypes /\ CacheRight /\ (saved # NoCache => SavedRight) /\ Since = seen /\ Since' = seen /\ installing \in SUBSET Dirs
  BY <1>1 DEF BundleInd, Since, BundleTypes
<1>3. Known(cache) /\ Len(events) \in Nat /\ disk \in [Dirs -> Nat \cup {NoDir}]
  BY <1>2, RunningFacts DEF BundleTypes
<1>4. Reloaded(cache, c) /\ \A d \in installing : Fresh(c, disk, d)
  BY <1>2, <1>3, ReinstalledFacts
<1>5. ~changed => \A d \in Dirs : QuietAt(cache, c, d)
  BY <1>2, <1>3, QuietReinstalled
<1> HIDE DEF c, changed
<1>6. /\ seen \in 0 .. Len(events) /\ Right(cache, disk, events, seen, installing, missed) /\ cache[Top].id = seen + 1
      /\ ~needsIndex => Full(cache) /\ \A d \in Dirs \ stale : Indexed(index, d) = Shown(cache, d)
  BY <1>1, <1>2 DEF CacheRight
<1>7. Right(c, disk, events, seen, {}, missed)
  BY <1>4, <1>6, ReloadRight
<1>8. Known(c) /\ IsCache(c) /\ c[Top] # Absent /\ c[Top].is = "dir" /\ c[Top].id = cache[Top].id
  <2>1. Known(c) /\ c[Top].id = cache[Top].id
    BY <1>4 DEF Reloaded, Known
  <2> QED  BY <2>1, KnownFacts DEF Known
<1>9. /\ IsCache(cache') /\ cache'[Top] = c[Top] /\ Right(cache', disk, events, seen, {}, missed)
      /\ Full(cache') /\ \A d \in Dirs \ stale' : Indexed(index', d) = Shown(cache', d)
  <2>1. CASE needsIndex \/ changed
    <3>0. cache' = Filled(c) /\ index' = Index(cache')
      BY <1>1, <2>1
    <3>1. /\ IsCache(cache') /\ Full(cache') /\ cache'[Top] = c[Top]
          /\ \A d \in Dirs : LeftGone(c, disk, d) => LeftGone(cache', disk, d) /\ (Fresh(c, disk, d) => Fresh(cache', disk, d))
      BY <1>3, <1>8, <3>0, FilledFacts
    <3>2. cache'[Top].items = c[Top].items /\ Known(cache')
      BY <1>8, <3>1 DEF Known
    <3>3. Right(cache', disk, events, seen, {}, missed)
      BY <1>7, <3>1, <3>2, SameRight
    <3>4. \A d \in Dirs : Indexed(index', d) = Shown(cache', d)
      BY <3>0, <3>2, IndexMade
    <3> QED  BY <3>1, <3>3, <3>4
  <2>2. CASE ~(needsIndex \/ changed)
    <3>1. cache' = c /\ index' = index /\ stale' = stale \cup Dropped(cache, c)
      BY <1>1, <2>2
    <3>2. Full(c) /\ \A d \in Dirs \ (stale \cup Dropped(cache, c)) : Indexed(index, d) = Shown(c, d)
      BY <1>3, <1>5, <1>6, <1>8, <2>2, QuietIndexed
    <3> QED  BY <1>7, <1>8, <3>1, <3>2
  <2> QED  BY <2>1, <2>2
<1>10. CacheRight'
  BY <1>1, <1>2, <1>6, <1>8, <1>9 DEF CacheRight
<1>11. saved' # NoCache => SavedRight'
  <2>1. installing \cup unsaved \cup missed \subseteq installing' \cup unsaved' \cup missed'
    BY <1>1
  <2> QED  BY <1>1, <1>2, <2>1, SavedStays
<1>12. BundleTypes'
  BY <1>1, <1>2, <1>9 DEF BundleTypes
<1> QED  BY <1>1, <1>10, <1>11, <1>12 DEF BundleInd

LEMMA BundleStepInd == BundleInd /\ [BundleNext]_bundleVars => BundleInd'
<1> SUFFICES ASSUME BundleInd, [BundleNext]_bundleVars PROVE BundleInd'
  OBVIOUS
<1>1. CASE UNCHANGED bundleVars
  <2>1. BundleTypes' /\ (CacheRight => CacheRight') /\ (SavedRight => SavedRight')
    BY <1>1 DEF bundleVars, BundleInd, BundleTypes, CacheRight, SavedRight, Right, TopRight, BundleRight, LeftGone, Since
  <2> QED  BY <1>1, <2>1 DEF bundleVars, BundleInd
<1>2. CASE BundleNext
  BY <1>2, StartKeeps, WatchKeeps, ReplayKeeps, IndexKeeps, SaveKeeps, InstalledKeeps, CrashKeeps, EventKeeps,
     ChangeKeeps, UninstallKeeps, InstallKeeps DEF BundleNext
<1> QED  BY <1>1, <1>2

-----------------------------------------------------------------------------
(* What follows from it.                                                   *)

LEMMA CurrentFollows == BundleInd => IndexCurrent
<1> SUFFICES ASSUME BundleInd, app = "up", seen = Len(events), ~needsIndex, installing = {},
                    NEW d \in Dirs, d \notin missed, d \notin stale, ~Away(d)
             PROVE  {f \in index : f[1] = File(d)} = IF disk[d] \in {0, NoDir} THEN {} ELSE {<<File(d), disk[d]>>}
  BY DEF IndexCurrent
<1>1. BundleTypes /\ CacheRight /\ Since = seen
  BY DEF BundleInd, Since
<1>2. Known(cache) /\ Len(events) \in Nat /\ DOMAIN events = 1 .. Len(events)
  BY <1>1, RunningFacts
<1>3. Right(cache, disk, events, Len(events), {}, missed) /\ FullAt(cache, d) /\ Indexed(index, d) = Shown(cache, d)
  BY <1>1 DEF CacheRight, Full
<1>4. \A p : ~Announced(events, p, Len(events))
  BY <1>2 DEF Announced
<1>5. (Dir(d) \in cache[Top].items <=> disk[d] # NoDir) /\ (disk[d] = NoDir \/ Fresh(cache, disk, d))
  BY <1>3, <1>4 DEF Right, TopRight, BundleRight
<1>6. cache[Dir(d)] \in DirEntry(d) /\ cache[File(d)] \in FileEntry
  BY <1>2, KnownFacts
<1>7. cache[Dir(d)].is # "missing" /\ cache[File(d)].is # "missing"
  BY DEF Away
<1>8. CASE disk[d] \in {0, NoDir}
  <2>1. ~Reached(cache, d)
    BY <1>5, <1>8 DEF Reached, Fresh, HasFile
  <2> QED  BY <1>3, <1>8, <2>1 DEF Indexed, Shown
<1>9. CASE disk[d] \notin {0, NoDir}
  <2>1. Dir(d) \in cache[Top].items
    BY <1>5, <1>9
  <2>2. cache[Dir(d)].is = "dir"
    BY <1>3, <1>6, <1>7, <2>1, EntryKinds DEF FullAt
  <2>3. cache[Dir(d)].items # {}
    BY <1>5, <1>9, <2>2 DEF Fresh, HasFile
  <2>4. cache[File(d)].is = "file"
    BY <1>3, <1>6, <1>7, <2>1, <2>2, <2>3, EntryKinds DEF FullAt
  <2>5. cache[File(d)].modified = disk[d]
    BY <1>5, <1>9, <2>2, <2>4 DEF Fresh, HasFile
  <2> QED  BY <1>3, <1>9, <2>1, <2>2, <2>3, <2>4, <2>5 DEF Indexed, Shown, Reached
<1> QED  BY <1>8, <1>9

LEMMA ResumesFollows == BundleInd => SavedResumes
<1> SUFFICES ASSUME BundleInd, saved # NoCache PROVE SavedResumes
  BY DEF SavedResumes
<1> DEFINE announced == {events[i] : i \in {j \in DOMAIN events : j + 1 > saved[Top].id}} \cup {Dir(d) : d \in installing \cup unsaved}
<1>1. BundleTypes /\ SavedRight
  BY DEF BundleInd
<1>2. Known(saved) /\ saved[Top].id \in Nat \ {0} /\ Len(events) \in Nat /\ DOMAIN events = 1 .. Len(events)
  BY <1>1, SavedFacts, LenProperties DEF BundleTypes
<1>3. Right(saved, disk, events, saved[Top].id - 1, installing \cup unsaved, missed)
  BY <1>1 DEF SavedRight
<1>4. \A p : Announced(events, p, saved[Top].id - 1) => p \in announced
  <2> SUFFICES ASSUME NEW i \in DOMAIN events, i > saved[Top].id - 1 PROVE events[i] \in announced
    BY DEF Announced
  <2>1. i + 1 > saved[Top].id
    BY <1>2
  <2> QED  BY <2>1
<1>5. \A d \in Dirs : d \in installing \cup unsaved => Dir(d) \in announced
  OBVIOUS
<1> HIDE DEF announced
<1>6. Items(saved, Top) = saved[Top].items
  BY <1>2 DEF Items, Known
<1>7. ASSUME NEW d \in Dirs \ missed
      PROVE  /\ Dir(d) \in Items(saved, Top) /\ disk[d] = NoDir => Top \in announced
             /\ Dir(d) \notin Items(saved, Top) /\ disk[d] # NoDir => Top \in announced
             /\ \A p \in {Dir(d), File(d)} \intersect (Items(saved, Top) \union Listed(saved)) :
                  saved[p].is \in {"dir", "file"} /\ saved[p] # OnDisk(p) => {Dir(d), Top} \intersect announced # {}
  <2>1. (Dir(d) \in saved[Top].items <=> disk[d] # NoDir) \/ Top \in announced
    BY <1>3, <1>4 DEF Right, TopRight
  <2>2. Dir(d) \in announced \/ disk[d] = NoDir \/ Fresh(saved, disk, d)
    BY <1>3, <1>4, <1>5 DEF Right, BundleRight
  <2>3. /\ saved[Dir(d)] \in DirEntry(d) /\ saved[File(d)] \in FileEntry
        /\ File(d) \in Listed(saved) <=> Dir(d) \in saved[Top].items /\ saved[Dir(d)].is = "dir" /\ saved[Dir(d)].items # {}
        /\ Dir(d) \notin Listed(saved) /\ File(d) \notin saved[Top].items
        /\ OnDisk(Dir(d)) = OnDiskDir(disk, d) /\ OnDisk(File(d)) = OnDiskFile(disk, d)
    <3>1. IsCache(saved) /\ saved[Top].is = "dir" /\ saved[Top].items \subseteq DirPaths
      BY <1>2, KnownFacts DEF Known
    <3> QED  BY <1>2, <3>1, KnownFacts, PathFacts, ListedFacts, OnDiskFacts
  <2>4. ASSUME NEW p \in {Dir(d), File(d)}, p \in saved[Top].items \union Listed(saved),
               saved[p].is \in {"dir", "file"}, saved[p] # OnDisk(p), Dir(d) \notin announced, Top \notin announced
        PROVE  FALSE
    <3>1. Dir(d) \in saved[Top].items
      BY <2>3, <2>4
    <3>2. disk[d] # NoDir /\ Fresh(saved, disk, d)
      BY <2>1, <2>2, <2>4, <3>1
    <3>3. CASE p = Dir(d)
      <4>1. saved[Dir(d)].is = "dir" /\ saved[Dir(d)] = [is |-> "dir", items |-> saved[Dir(d)].items, id |-> 0]
        BY <2>3, <2>4, <3>3, EntryKinds
      <4>2. saved[Dir(d)].items = IF HasFile(disk, d) THEN {File(d)} ELSE {}
        BY <3>2, <4>1 DEF Fresh
      <4> QED  BY <2>3, <2>4, <3>2, <3>3, <4>1, <4>2 DEF OnDiskDir
    <3>4. CASE p = File(d)
      <4>1. saved[Dir(d)].is = "dir" /\ saved[Dir(d)].items # {}
        BY <2>3, <2>4, <3>4
      <4>2. HasFile(disk, d)
        BY <3>2, <4>1 DEF Fresh
      <4>3. saved[File(d)].is = "file" /\ saved[File(d)] = [is |-> "file", modified |-> saved[File(d)].modified]
        BY <2>3, <2>4, <3>4, EntryKinds
      <4>4. saved[File(d)].modified = disk[d]
        BY <3>2, <4>1, <4>2, <4>3 DEF Fresh
      <4> QED  BY <2>3, <2>4, <3>4, <4>2, <4>3, <4>4 DEF OnDiskFile
    <3> QED  BY <3>3, <3>4
  <2> QED  BY <1>6, <2>1, <2>4
<1> QED  BY <1>2, <1>7 DEF SavedResumes, announced

\* Whatever was changed while the application was away, and wherever it ended,
\* the index is what the disk has once the events are delivered, and the saved
\* cache is wrong only where an event after its own, or an installation not yet
\* saved, says so: for each bundle that was not changed unnoticed (missed), and
\* for the index not those that a reload found empty and did not report (stale).
THEOREM BundlesStayCurrent == BundleSpec => []BundlesCurrent
<1>1. BundleInd => BundlesCurrent
  BY CurrentFollows, ResumesFollows DEF BundlesCurrent
<1> QED  BY <1>1, BundleInitInd, BundleStepInd, PTL DEF BundleSpec
=============================================================================
