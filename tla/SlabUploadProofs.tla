--------------------------- MODULE SlabUploadProofs ----------------------------
(***************************************************************************)
(* For any number of sectors, hosts and overdrives: the types of the       *)
(* upload of a slab, that no two sectors end up on the same host, and that *)
(* no sector is forgotten while no uploader is stopped.                    *)
(***************************************************************************)
EXTENDS SlabUpload, Uploader, SequenceTheorems, FiniteSetTheorems, TLAPS

Resp == [host : Hosts, req : Req, err : Outcomes]

\* A request is in one place at a time: to be launched, at an uploader, answered or
\* in the buffer.  The host that stored a sector holds the request it did so for,
\* which is nowhere any more.  hl, wr, rs, bf, sc and nx stand for held, wire, resps,
\* buffer, sector and next.
Sound(hl, wr, rs, bf, sc, nx) ==
  /\ \A c \in Hosts : wr[c] # None => hl[c] = wr[c]
  /\ \A c, d \in Hosts : wr[c] # None /\ wr[c] = wr[d] => c = d
  /\ \A k \in 1..Len(rs) :
       hl[rs[k].host] = rs[k].req /\ \A c \in Hosts : wr[c] # rs[k].req
  /\ \A j, k \in 1..Len(rs) : rs[j].req = rs[k].req => j = k
  /\ \A k \in 1..Len(bf) :
       /\ \A c \in Hosts : wr[c] # bf[k]
       /\ \A j \in 1..Len(rs) : rs[j].req # bf[k]
  /\ \A j, k \in 1..Len(bf) : bf[j] = bf[k] => j = k
  /\ \A i \in nx..NumSectors :
       /\ \A c \in Hosts : hl[c] # Original(i)
       /\ \A k \in 1..Len(rs) : rs[k].req # Original(i)
       /\ \A k \in 1..Len(bf) : bf[k] # Original(i)
  /\ \A i \in Sectors : sc[i] # None =>
       /\ hl[sc[i]] # None /\ hl[sc[i]].idx = i
       /\ \A c \in Hosts : wr[c] # hl[sc[i]]
       /\ \A k \in 1..Len(rs) : rs[k].req # hl[sc[i]]
       /\ \A k \in 1..Len(bf) : bf[k] # hl[sc[i]]

\* A request that may be launched.
Unused(r, hl, wr, rs, bf, sc, nx) ==
  /\ \A c \in Hosts : wr[c] # r
  /\ \A k \in 1..Len(rs) : rs[k].req # r
  /\ \A k \in 1..Len(bf) : bf[k] # r
  /\ \A i \in nx..NumSectors : r # Original(i)
  /\ \A i \in Sectors : sc[i] # None => hl[sc[i]] # r

\* Who is told that a request's context is done is told the truth.
Truthful ==
  /\ \A h \in dead : CtxDone(wire[h].idx)
  /\ \A k \in 1..Len(resps) :
       resps[k].err \in {"finished", "canceled"} => CtxDone(resps[k].req.idx)

Wanted(i) ==
  \/ i >= next
  \/ \E h \in Hosts : wire[h] = Original(i)
  \/ \E k \in 1..Len(resps) : resps[k].req = Original(i)
  \/ \E k \in 1..Len(buffer) : buffer[k] = Original(i)

Remembered ==
  /\ pc = "loop" => next > NumSectors
  /\ pc \in {"launch", "loop"} /\ stopped = {} /\ ~ctxDone =>
       \A i \in Sectors \ Uploaded : Wanted(i)

Inv ==
  /\ TypeOK
  /\ Sound(held, wire, resps, buffer, sector, next)
  /\ Truthful
  /\ Remembered

-----------------------------------------------------------------------------
LEMMA HeadTailFacts ==
  ASSUME NEW S, NEW q \in Seq(S), q # <<>>
  PROVE  /\ Head(q) \in S /\ Head(q) = q[1] /\ Tail(q) \in Seq(S)
         /\ Len(q) \in Nat /\ Len(q) >= 1 /\ Len(Tail(q)) = Len(q) - 1
         /\ \A k \in 1..Len(Tail(q)) : k + 1 \in 1..Len(q) /\ Tail(q)[k] = q[k + 1]
<1>1. Len(q) \in Nat /\ Len(q) # 0
  BY EmptySeq
<1>. QED  BY <1>1, HeadTailProperties

LEMMA AppendFacts ==
  ASSUME NEW S, NEW q \in Seq(S), NEW e \in S
  PROVE  /\ Append(q, e) \in Seq(S) /\ Len(q) \in Nat /\ Len(Append(q, e)) = Len(q) + 1
         /\ Append(q, e)[Len(q) + 1] = e
         /\ \A k \in 1..Len(q) : Append(q, e)[k] = q[k]
  OBVIOUS

LEMMA ElementFacts ==
  ASSUME NEW S, NEW q \in Seq(S)
  PROVE  Len(q) \in Nat /\ \A k \in 1..Len(q) : q[k] \in S
  OBVIOUS

LEMMA ReqFacts ==
  /\ \A r \in Req : r.idx \in Sectors /\ r.n \in 0..NumHosts
  /\ \A i \in Sectors : Original(i) \in Req /\ Original(i).idx = i /\ ~Overdrive(Original(i))
  /\ \A r \in Req : ~Overdrive(r) => r = Original(r.idx)
  /\ \A i, j : Original(i) = Original(j) => i = j
  BY SlabUploadAssumption DEF Req, Original, Overdrive

LEMMA InitHolds == Init => Inv
<1>. SUFFICES ASSUME Init PROVE Inv
  OBVIOUS
<1>. USE SlabUploadAssumption, NoneAssumption DEF Init
<1>1. TypeOK
  <2>1. /\ resps = <<>> /\ resps \in Seq(Resp)
        /\ buffer = <<>> /\ buffer \in Seq({Original(i) : i \in Sectors})
    OBVIOUS
  <2>2. next \in 1..NumSectors + 1 /\ inflight \in Nat
    OBVIOUS
  <2>. QED  BY <2>1, <2>2 DEF TypeOK, OnWire, Resp
<1>2. Sound(held, wire, resps, buffer, sector, next)
  <2>1. Len(resps) = 0 /\ Len(buffer) = 0
    OBVIOUS
  <2>. QED  BY <2>1, ReqFacts DEF Sound, Sectors
<1>3. Truthful /\ Remembered
  BY DEF Truthful, Remembered, Wanted, Sectors
<1>. QED  BY <1>1, <1>2, <1>3 DEF Inv

-----------------------------------------------------------------------------
\* Launching a request that is nowhere at a host that holds none.
LEMMA SoundLaunch ==
  ASSUME NEW hl \in [Hosts -> Req \cup {None}], NEW wr \in [Hosts -> Req \cup {None}],
         NEW rs \in Seq(Resp), NEW bf, NEW sc \in [Sectors -> Hosts \cup {None}], NEW nx,
         Sound(hl, wr, rs, bf, sc, nx),
         NEW r \in Req, Unused(r, hl, wr, rs, bf, sc, nx),
         NEW c \in Hosts, hl[c] = None
  PROVE  Sound([hl EXCEPT ![c] = r], [wr EXCEPT ![c] = r], rs, bf, sc, nx)
<1>. DEFINE hm == [hl EXCEPT ![c] = r]
            wm == [wr EXCEPT ![c] = r]
<1>a. \A d \in Hosts : /\ hm[d] = (IF d = c THEN r ELSE hl[d])
                       /\ wm[d] = (IF d = c THEN r ELSE wr[d])
  OBVIOUS
<1>b. \A k \in 1..Len(rs) : rs[k].host \in Hosts /\ rs[k].req \in Req
  <2>1. \A k \in 1..Len(rs) : rs[k] \in Resp
    BY ElementFacts
  <2>. QED  BY <2>1 DEF Resp
<1>c. r # None
  BY NoneAssumption
<1>0. /\ \A d \in Hosts : hm[d] = (IF d = c THEN r ELSE hl[d])
                          /\ wm[d] = (IF d = c THEN r ELSE wr[d])
      /\ \A k \in 1..Len(rs) : rs[k].host \in Hosts /\ rs[k].req \in Req
      /\ r # None
  BY <1>a, <1>b, <1>c
<1>. HIDE DEF hm, wm
<1>1. \A d \in Hosts : wm[d] # None => hm[d] = wm[d]
  BY <1>0 DEF Sound
<1>2. \A d, e \in Hosts : wm[d] # None /\ wm[d] = wm[e] => d = e
  BY <1>0 DEF Sound, Unused
<1>3. \A k \in 1..Len(rs) :
        hm[rs[k].host] = rs[k].req /\ \A d \in Hosts : wm[d] # rs[k].req
  BY <1>0, NoneAssumption DEF Sound, Unused
<1>4. \A k \in 1..Len(bf) : \A d \in Hosts : wm[d] # bf[k]
  BY <1>0 DEF Sound, Unused
<1>5. \A i \in nx..NumSectors : \A d \in Hosts : hm[d] # Original(i)
  BY <1>0 DEF Sound, Unused
<1>6. ASSUME NEW i \in Sectors, sc[i] # None
      PROVE  hm[sc[i]] = hl[sc[i]] /\ \A d \in Hosts : wm[d] # hm[sc[i]]
  BY <1>0, <1>6 DEF Sound, Unused
<1>7. Sound(hm, wm, rs, bf, sc, nx)
  BY <1>1, <1>2, <1>3, <1>4, <1>5, <1>6 DEF Sound
<1>. QED  BY <1>7 DEF hm, wm

\* An answer is taken from the channel, and a redundant one releases a host.
LEMMA SoundReleased ==
  ASSUME TypeOK, Sound(held, wire, resps, buffer, sector, next), resps # <<>>,
         NEW h \in Released(Head(resps))
  PROVE  LET resp == Head(resps) IN
         /\ resp \in Resp /\ resp = resps[1] /\ Tail(resps) \in Seq(Resp)
         /\ \A k \in 1..Len(Tail(resps)) : \E j \in 1..Len(resps) : Tail(resps)[k] = resps[j]
         /\ h \in [Hosts -> Req \cup {None}]
         /\ Sound(h, wire, Tail(resps), buffer, sector, next)
         /\ Unused(resp.req, h, wire, Tail(resps), buffer, sector, next)
         /\ resp.req.idx \notin Uploaded => h[resp.host] = resp.req
<1>. DEFINE resp == Head(resps)
            rs == Tail(resps)
<1>0. resps \in Seq(Resp) /\ held \in [Hosts -> Req \cup {None}] /\ sector \in [Sectors -> Hosts \cup {None}]
  BY DEF TypeOK, Resp
<1>1. /\ resp \in Resp /\ resp = resps[1] /\ rs \in Seq(Resp) /\ Len(resps) \in Nat
      /\ Len(resps) >= 1 /\ Len(rs) = Len(resps) - 1
      /\ \A k \in 1..Len(rs) : k + 1 \in 1..Len(resps) /\ rs[k] = resps[k + 1]
  BY <1>0, HeadTailFacts
<1>2. /\ resp.host \in Hosts /\ resp.req \in Req
      /\ held[resp.host] = resp.req
      /\ \A c \in Hosts : wire[c] # resp.req
      /\ \A k \in 1..Len(buffer) : buffer[k] # resp.req
      /\ \A i \in next..NumSectors : resp.req # Original(i)
      /\ \A i \in Sectors : sector[i] # None => held[sector[i]] # resp.req
  <2>1. 1 \in 1..Len(resps)
    BY <1>1
  <2>2. resp.host \in Hosts /\ resp.req \in Req
    BY <1>1 DEF Resp
  <2>. QED  BY <1>1, <2>1, <2>2 DEF Sound
<1>3. \A k \in 1..Len(rs) : /\ rs[k].req # resp.req
                            /\ \E j \in 1..Len(resps) : j = k + 1 /\ rs[k] = resps[j]
  <2>. SUFFICES ASSUME NEW k \in 1..Len(rs)
                PROVE  rs[k].req # resp.req /\ k + 1 \in 1..Len(resps) /\ rs[k] = resps[k + 1]
    OBVIOUS
  <2>1. k + 1 \in 1..Len(resps) /\ 1 \in 1..Len(resps) /\ k + 1 # 1
    BY <1>1
  <2>. QED  BY <1>1, <2>1 DEF Sound
<1>. HIDE DEF rs
<1>4. Sound(held, wire, rs, buffer, sector, next)
  <2>1. \A j, k \in 1..Len(rs) : rs[j].req = rs[k].req => j = k
    <3>. SUFFICES ASSUME NEW j \in 1..Len(rs), NEW k \in 1..Len(rs), rs[j].req = rs[k].req
                  PROVE  j = k
      OBVIOUS
    <3>1. j + 1 \in 1..Len(resps) /\ k + 1 \in 1..Len(resps) /\ j \in Nat /\ k \in Nat
      BY <1>1
    <3>2. rs[j] = resps[j + 1] /\ rs[k] = resps[k + 1]
      BY <1>1
    <3>3. \A x, y \in 1..Len(resps) : resps[x].req = resps[y].req => x = y
      BY DEF Sound
    <3>4. j + 1 = k + 1
      BY <3>1, <3>2, <3>3
    <3>. QED  BY <3>1, <3>4
  <2>2. ASSUME NEW k \in 1..Len(rs)
        PROVE  /\ held[rs[k].host] = rs[k].req
               /\ \A c \in Hosts : wire[c] # rs[k].req
               /\ \A j \in 1..Len(buffer) : rs[k].req # buffer[j]
               /\ \A i \in next..NumSectors : rs[k].req # Original(i)
               /\ \A i \in Sectors : sector[i] # None => rs[k].req # held[sector[i]]
    <3>1. PICK j \in 1..Len(resps) : rs[k] = resps[j]
      BY <1>3
    <3>. QED  BY <3>1, SMTT(30) DEF Sound
  <2>. QED  BY <2>1, <2>2 DEF Sound
<1>5. Unused(resp.req, held, wire, rs, buffer, sector, next)
  BY <1>2, <1>3 DEF Unused
<1>6. CASE h = held
  BY <1>0, <1>1, <1>2, <1>3, <1>4, <1>5, <1>6 DEF rs
<1>7. CASE h # held
  <2>1. PICK c \in Hosts : held[c] = resp.req /\ h = [held EXCEPT ![c] = None]
    BY <1>7 DEF Released, First
  <2>2. /\ h \in [Hosts -> Req \cup {None}] /\ resp.req.idx \in Uploaded
        /\ \A d \in Hosts : held[d] # resp.req => h[d] = held[d]
        /\ \A d \in Hosts : h[d] \in {held[d], None}
    BY <1>0, <1>7, <2>1 DEF Released
  <2>3. Sound(h, wire, rs, buffer, sector, next)
    <3>1. \A d \in Hosts : wire[d] # None => h[d] = wire[d]
      BY <1>2, <1>4, <2>2 DEF Sound
    <3>2. \A k \in 1..Len(rs) : h[rs[k].host] = rs[k].req
      <4>1. \A k \in 1..Len(rs) : rs[k] \in Resp
        BY <1>1, ElementFacts
      <4>2. \A k \in 1..Len(rs) : rs[k].host \in Hosts
        BY <4>1 DEF Resp
      <4>. QED  BY <1>3, <1>4, <2>2, <4>2 DEF Sound
    <3>3. \A i \in next..NumSectors : \A d \in Hosts : h[d] # Original(i)
      <4>1. \A i \in next..NumSectors : Original(i) # None
        <5>1. next \in 1..NumSectors + 1
          BY DEF TypeOK
        <5>2. next..NumSectors \subseteq Sectors
          BY <5>1, SlabUploadAssumption DEF Sectors
        <5>. QED  BY <5>2, ReqFacts, NoneAssumption
      <4>. QED  BY <1>4, <2>2, <4>1 DEF Sound
    <3>4. \A i \in Sectors : sector[i] # None => h[sector[i]] = held[sector[i]]
      BY <1>0, <1>2, <2>2
    <3>. QED  BY <1>4, <3>1, <3>2, <3>3, <3>4 DEF Sound
  <2>4. Unused(resp.req, h, wire, rs, buffer, sector, next)
    BY <1>0, <1>2, <1>5, <2>2 DEF Unused
  <2>. QED  BY <1>1, <1>3, <2>2, <2>3, <2>4 DEF rs
<1>. QED  BY <1>6, <1>7

\* The answered request stores its sector.
LEMMA SoundStore ==
  ASSUME NEW hl, NEW wr, NEW rs, NEW bf, NEW sc \in [Sectors -> Hosts \cup {None}], NEW nx,
         Sound(hl, wr, rs, bf, sc, nx),
         NEW r \in Req, Unused(r, hl, wr, rs, bf, sc, nx), NEW g \in Hosts, hl[g] = r
  PROVE  Sound(hl, wr, rs, bf, [sc EXCEPT ![r.idx] = g], nx)
<1>. DEFINE i == r.idx
            sd == [sc EXCEPT ![i] = g]
<1>1. i \in Sectors /\ r # None
  BY ReqFacts, NoneAssumption
<1>2. \A j \in Sectors : sd[j] = IF j = i THEN g ELSE sc[j]
  BY <1>1
<1>. HIDE DEF sd
<1>3. Sound(hl, wr, rs, bf, sd, nx)
  BY <1>1, <1>2 DEF Sound, Unused
<1>. QED  BY <1>3 DEF sd

\* A request goes into the buffer, or leaves it.
LEMMA SoundAppend ==
  ASSUME NEW hl, NEW wr, NEW rs, NEW bf \in Seq(Req), NEW sc, NEW nx,
         Sound(hl, wr, rs, bf, sc, nx),
         NEW r \in Req, Unused(r, hl, wr, rs, bf, sc, nx)
  PROVE  Sound(hl, wr, rs, Append(bf, r), sc, nx)
<1>. DEFINE bg == Append(bf, r)
<1>1. /\ Len(bf) \in Nat /\ Len(bg) = Len(bf) + 1
      /\ \A k \in 1..Len(bg) : (k \in 1..Len(bf) /\ bg[k] = bf[k]) \/ (k = Len(bf) + 1 /\ bg[k] = r)
  <2>1. Len(bf) \in Nat /\ Len(bg) = Len(bf) + 1 /\ bg[Len(bf) + 1] = r
    OBVIOUS
  <2>2. \A k \in 1..Len(bf) : bg[k] = bf[k]
    OBVIOUS
  <2>. HIDE DEF bg
  <2>. QED  BY <2>1, <2>2
<1>. HIDE DEF bg
<1>2. \A j, k \in 1..Len(bg) : bg[j] = bg[k] => j = k
  BY <1>1 DEF Sound, Unused
<1>3. Sound(hl, wr, rs, bg, sc, nx)
  BY <1>1, <1>2 DEF Sound, Unused
<1>. QED  BY <1>3 DEF bg

LEMMA SoundPop ==
  ASSUME NEW hl, NEW wr, NEW rs, NEW bf \in Seq(Req), NEW sc, NEW nx, bf # <<>>,
         Sound(hl, wr, rs, bf, sc, nx)
  PROVE  /\ Sound(hl, wr, rs, Tail(bf), sc, nx)
         /\ Unused(Head(bf), hl, wr, rs, Tail(bf), sc, nx)
<1>. DEFINE bg == Tail(bf)
            r == Head(bf)
<1>1. /\ Len(bf) \in Nat /\ Len(bf) >= 1 /\ Len(bg) = Len(bf) - 1 /\ r = bf[1]
      /\ \A k \in 1..Len(bg) : k + 1 \in 1..Len(bf) /\ bg[k] = bf[k + 1]
  BY HeadTailFacts
<1>2. 1 \in 1..Len(bf)
  BY <1>1
<1>. HIDE DEF bg, r
<1>3. \A j, k \in 1..Len(bg) : bg[j] = bg[k] => j = k
  <2>. SUFFICES ASSUME NEW j \in 1..Len(bg), NEW k \in 1..Len(bg), bg[j] = bg[k]
                PROVE  j = k
    OBVIOUS
  <2>1. j + 1 = k + 1
    BY <1>1 DEF Sound
  <2>. QED  BY <1>1, <2>1
<1>4. \A k \in 1..Len(bg) : bg[k] # r
  <2>. SUFFICES ASSUME NEW k \in 1..Len(bg), bg[k] = r PROVE FALSE
    OBVIOUS
  <2>1. k + 1 = 1
    BY <1>1, <1>2 DEF Sound
  <2>. QED  BY <1>1, <2>1
<1>5. Sound(hl, wr, rs, bg, sc, nx)
  BY <1>1, <1>3 DEF Sound
<1>6. Unused(r, hl, wr, rs, bg, sc, nx)
  BY <1>1, <1>2, <1>4 DEF Sound, Unused
<1>. QED  BY <1>5, <1>6 DEF bg, r

\* A new overdrive request is nowhere.
LEMMA UnusedNext ==
  ASSUME NEW hl \in [Hosts -> Req \cup {None}], NEW wr, NEW rs \in Seq(Resp),
         NEW bf \in Seq({Original(i) : i \in Sectors}), NEW sc \in [Sectors -> Hosts \cup {None}], NEW nx \in Nat,
         nx >= 1, Sound(hl, wr, rs, bf, sc, nx), NEW missing \in SUBSET Sectors, NEW r \in NextRequest(hl, missing)
  PROVE  r \in Req /\ Unused(r, hl, wr, rs, bf, sc, nx)
<1>1. /\ r \in Req /\ r.n \in 1..NumHosts
      /\ \A c \in Hosts : hl[c] # [idx |-> r.idx, n |-> r.n]
  BY DEF NextRequest, First
<1>2. r = [idx |-> r.idx, n |-> r.n]
  BY <1>1 DEF Req
<1>3. \A c \in Hosts : hl[c] # r
  BY <1>1, <1>2
<1>4. \A i : r # Original(i)
  BY <1>1 DEF Original
<1>5. \A k \in 1..Len(bf) : bf[k] # r
  BY <1>4, ElementFacts
<1>6. \A k \in 1..Len(rs) : rs[k].host \in Hosts
  <2>1. \A k \in 1..Len(rs) : rs[k] \in Resp
    BY ElementFacts
  <2>. QED  BY <2>1 DEF Resp
<1>7. \A i \in Sectors : sc[i] # None => hl[sc[i]] # r
  BY <1>3
<1>8. /\ \A c \in Hosts : wr[c] # r
      /\ \A k \in 1..Len(rs) : rs[k].req # r
  BY <1>1, <1>3, <1>6, NoneAssumption DEF Sound
<1>. QED  BY <1>1, <1>4, <1>5, <1>7, <1>8 DEF Unused

-----------------------------------------------------------------------------
\* What launching and buffering leave behind: rs, sc and nx stand for resps', sector'
\* and next'.
Moved(rs, sc, nx) ==
  /\ held' \in [Hosts -> Req \cup {None}]
  /\ wire' \in [Hosts -> Req \cup {None}]
  /\ inflight' \in Nat
  /\ Sound(held', wire', rs, buffer', sc, nx)
  /\ \A c \in Hosts : wire[c] # None => wire'[c] = wire[c]
  /\ \A c \in dead' : c \in Hosts /\ wire'[c] # None /\ (c \in dead \/ CtxDone(wire'[c].idx))

\* A request is launched.
LEMMA LaunchFacts ==
  ASSUME TypeOK, NEW hl \in [Hosts -> Req \cup {None}], NEW n \in Nat, NEW r \in Req,
         NEW rs \in Seq(Resp), NEW sc \in [Sectors -> Hosts \cup {None}], NEW nx,
         Sound(hl, wire, rs, buffer', sc, nx), Unused(r, hl, wire, rs, buffer', sc, nx),
         Launch(hl, n, r)
  PROVE  Moved(rs, sc, nx) /\ (stopped = {} => \E c \in Hosts : wire'[c] = r)
<1>1. wire \in [Hosts -> Req \cup {None}] /\ dead \subseteq Hosts /\ \A c \in dead : wire[c] # None
  BY DEF TypeOK, OnWire
<1>2. PICK c \in Hosts :
        /\ hl[c] = None
        /\ \/ c \in stopped /\ NoLaunch(hl, n)
           \/ /\ held' = [hl EXCEPT ![c] = r]
              /\ wire' = [wire EXCEPT ![c] = r]
              /\ dead' = IF CtxDone(r.idx) THEN dead \cup {c} ELSE dead
              /\ inflight' = n + 1
  BY DEF Launch, First, Free
<1>3. CASE c \in stopped /\ NoLaunch(hl, n)
  BY <1>1, <1>3 DEF NoLaunch, Moved
<1>4. CASE /\ held' = [hl EXCEPT ![c] = r]
           /\ wire' = [wire EXCEPT ![c] = r]
           /\ dead' = IF CtxDone(r.idx) THEN dead \cup {c} ELSE dead
           /\ inflight' = n + 1
  <2>1. wire[c] = None /\ r # None
    BY <1>2, NoneAssumption DEF Sound
  <2>2. Sound(held', wire', rs, buffer', sc, nx)
    BY <1>1, <1>2, <1>4, SoundLaunch
  <2>3. /\ held' \in [Hosts -> Req \cup {None}]
        /\ wire' \in [Hosts -> Req \cup {None}]
        /\ \A d \in Hosts : wire'[d] = IF d = c THEN r ELSE wire[d]
    BY <1>1, <1>4
  <2>4. inflight' \in Nat
    BY <1>4
  <2>5. ASSUME NEW d \in dead'
        PROVE  d \in Hosts /\ wire'[d] # None /\ (d \in dead \/ CtxDone(wire'[d].idx))
    BY <1>1, <1>4, <2>1, <2>3
  <2>. QED  BY <2>1, <2>2, <2>3, <2>4, <2>5 DEF Moved
<1>. QED  BY <1>2, <1>3, <1>4

\* Nothing is launched.
LEMMA NoLaunchFacts ==
  ASSUME TypeOK, NEW hl \in [Hosts -> Req \cup {None}], NEW n \in Nat, NEW rs, NEW sc, NEW nx,
         Sound(hl, wire, rs, buffer', sc, nx), NoLaunch(hl, n)
  PROVE  Moved(rs, sc, nx)
<1>1. wire \in [Hosts -> Req \cup {None}] /\ dead \subseteq Hosts /\ \A c \in dead : wire[c] # None
  BY DEF TypeOK, OnWire
<1>. QED  BY <1>1 DEF NoLaunch, Moved

Originals == {Original(i) : i \in Sectors}

LEMMA OriginalsFacts ==
  /\ Originals \subseteq Req
  /\ \A q : q \in Seq(Originals) => q \in Seq(Req)
<1>1. Originals \subseteq Req
  BY ReqFacts DEF Originals
<1>2. ASSUME NEW q \in Seq(Originals) PROVE q \in Seq(Req)
  BY <1>1
<1>. QED  BY <1>1, <1>2

\* A buffered request is launched, or an overdrive is.
LEMMA BufferOrOverdriveFacts ==
  ASSUME TypeOK, NEW hl \in [Hosts -> Req \cup {None}], NEW n \in Nat, NEW rs \in Seq(Resp),
         NEW sc \in [Sectors -> Hosts \cup {None}],
         Sound(hl, wire, rs, buffer, sc, next), NEW missing \in SUBSET Sectors,
         BufferOrOverdrive(hl, n, missing)
  PROVE  /\ Moved(rs, sc, next)
         /\ buffer' \in Seq(Originals)
         /\ stopped = {} => \A k \in 1..Len(buffer) :
              \/ \E c \in Hosts : wire'[c] = buffer[k]
              \/ \E j \in 1..Len(buffer') : buffer'[j] = buffer[k]
<1>1. buffer \in Seq(Originals) /\ buffer \in Seq(Req) /\ next \in Nat /\ next >= 1
  <2>1. buffer \in Seq(Originals) /\ next \in 1..NumSectors + 1
    BY DEF TypeOK, Originals
  <2>. QED  BY <2>1, OriginalsFacts, SlabUploadAssumption
<1>2. CASE buffer # <<>> /\ Free(hl) # {}
  <2>1. buffer' = Tail(buffer) /\ Launch(hl, n, Head(buffer))
    BY <1>2 DEF BufferOrOverdrive
  <2>2. /\ Head(buffer) \in Originals /\ Head(buffer) = buffer[1]
        /\ Tail(buffer) \in Seq(Originals) /\ Len(buffer) \in Nat
        /\ Len(Tail(buffer)) = Len(buffer) - 1
        /\ \A k \in 1..Len(Tail(buffer)) : Tail(buffer)[k] = buffer[k + 1]
    BY <1>1, <1>2, HeadTailFacts
  <2>3. Head(buffer) \in Req
    BY <2>2, OriginalsFacts
  <2>4. /\ Sound(hl, wire, rs, buffer', sc, next)
        /\ Unused(Head(buffer), hl, wire, rs, buffer', sc, next)
    BY <1>1, <1>2, <2>1, SoundPop
  <2>5. Moved(rs, sc, next) /\ (stopped = {} => \E c \in Hosts : wire'[c] = Head(buffer))
    BY <2>1, <2>3, <2>4, LaunchFacts
  <2>6. ASSUME NEW k \in 1..Len(buffer), stopped = {}
        PROVE  \/ \E c \in Hosts : wire'[c] = buffer[k]
               \/ \E j \in 1..Len(buffer') : buffer'[j] = buffer[k]
    <3>1. CASE k = 1
      BY <2>2, <2>5, <2>6, <3>1
    <3>2. CASE k # 1
      <4>1. k - 1 \in 1..Len(Tail(buffer)) /\ (k - 1) + 1 = k
        BY <2>2, <3>2
      <4>2. Tail(buffer)[k - 1] = buffer[(k - 1) + 1]
        BY <2>2, <4>1
      <4>3. buffer'[k - 1] = buffer[k]
        BY <2>1, <4>1, <4>2
      <4>. QED  BY <2>1, <4>1, <4>3
    <3>. QED  BY <3>1, <3>2
  <2>. QED  BY <2>1, <2>2, <2>5, <2>6
<1>3. CASE buffer = <<>> /\ \E r \in NextRequest(hl, missing) : Launch(hl, n, r) /\ UNCHANGED buffer
  <2>1. PICK r \in NextRequest(hl, missing) : Launch(hl, n, r) /\ buffer' = buffer
    BY <1>3
  <2>2. r \in Req /\ Unused(r, hl, wire, rs, buffer, sc, next)
    BY <1>1, UnusedNext DEF Originals
  <2>3. Moved(rs, sc, next)
    BY <2>1, <2>2, LaunchFacts
  <2>. QED  BY <1>1, <2>1, <2>3
<1>4. CASE NoLaunch(hl, n) /\ UNCHANGED buffer
  BY <1>1, <1>4, NoLaunchFacts
<1>. QED  BY <1>2, <1>3, <1>4 DEF BufferOrOverdrive

-----------------------------------------------------------------------------
(* One lemma per action *)

\* What the steps do not touch but may not disturb either.
Steady ==
  /\ pc' \in {"launch", "loop", "ok", "failed", "cancelled"}
  /\ pc \notin {"launch", "loop"} => pc' \notin {"launch", "loop"}
  /\ next' \in 1..NumSectors + 1
  /\ sector' \in [Sectors -> Hosts \cup {None}]
  /\ \A i \in Sectors : sector[i] # None => sector'[i] # None
  /\ buffer' \in Seq(Originals)
  /\ stopped' \subseteq Hosts
  /\ ctxDone' \in BOOLEAN /\ (ctxDone => ctxDone')
  /\ reported' \subseteq Sectors

LEMMA DoneStays ==
  ASSUME Steady, NEW i \in Sectors, CtxDone(i)
  PROVE  ctxDone' \/ i \in Uploaded' \/ pc' \notin {"launch", "loop"}
  BY DEF Steady, CtxDone, Uploaded

\* The steps of the upload: the answers left are answers that were there.
LEMMA MovedKeeps ==
  ASSUME Inv, Steady, resps' \in Seq(Resp), Moved(resps', sector', next'),
         \A k \in 1..Len(resps') : \E j \in 1..Len(resps) : resps'[k] = resps[j]
  PROVE  TypeOK' /\ Sound(held, wire, resps, buffer, sector, next)' /\ Truthful'
<1>1. TypeOK'
  <2>1. \A h \in Hosts : wire'[h] # None => held'[h] = wire'[h]
    BY DEF Moved, Sound
  <2>. QED  BY <2>1 DEF TypeOK, OnWire, Moved, Steady, Resp, Originals
<1>2. \A h \in dead' : wire'[h].idx \in Sectors
  BY ReqFacts DEF Moved
<1>3. \A h \in dead : wire[h] # None /\ h \in Hosts /\ CtxDone(wire[h].idx)
  BY DEF Inv, TypeOK, OnWire, Truthful
<1>4. \A h \in dead' : CtxDone(wire'[h].idx)
  BY <1>3 DEF Moved
<1>5. \A h \in dead' : ctxDone' \/ wire'[h].idx \in Uploaded' \/ pc' \notin {"launch", "loop"}
  BY <1>2, <1>4, DoneStays
<1>6. ASSUME NEW k \in 1..Len(resps'), resps'[k].err \in {"finished", "canceled"}
      PROVE  ctxDone' \/ resps'[k].req.idx \in Uploaded' \/ pc' \notin {"launch", "loop"}
  <2>1. PICK j \in 1..Len(resps) : resps'[k] = resps[j]
    OBVIOUS
  <2>2. CtxDone(resps[j].req.idx)
    BY <1>6, <2>1 DEF Inv, Truthful
  <2>3. resps'[k] \in Resp
    BY ElementFacts
  <2>4. resps'[k].req.idx \in Sectors
    BY <2>3, ReqFacts DEF Resp
  <2>. QED  BY <2>1, <2>2, <2>4, DoneStays
<1>7. Truthful'
  BY <1>5, <1>6 DEF Truthful, CtxDone
<1>. QED  BY <1>1, <1>7 DEF Moved

\* The same candidates, requests and answers.
LEMMA StillKeeps ==
  ASSUME Inv, Steady, UNCHANGED <<next, held, wire, dead, resps, sector, inflight, buffer>>
  PROVE  TypeOK' /\ Sound(held, wire, resps, buffer, sector, next)' /\ Truthful'
<1>1. resps' \in Seq(Resp) /\ dead \subseteq Hosts /\ \A h \in dead : wire[h] # None
  BY DEF Inv, TypeOK, Resp, OnWire
<1>2. Moved(resps', sector', next')
  BY <1>1 DEF Inv, TypeOK, Moved
<1>3. \A k \in 1..Len(resps') : \E j \in 1..Len(resps) : resps'[k] = resps[j]
  OBVIOUS
<1>. QED  BY <1>1, <1>2, <1>3, MovedKeeps

LEMMA InvFacts ==
  ASSUME Inv
  PROVE  /\ resps \in Seq(Resp) /\ buffer \in Seq(Originals) /\ buffer \in Seq(Req)
         /\ held \in [Hosts -> Req \cup {None}] /\ wire \in [Hosts -> Req \cup {None}]
         /\ sector \in [Sectors -> Hosts \cup {None}]
         /\ dead \subseteq Hosts /\ \A c \in dead : wire[c] # None
  BY OriginalsFacts DEF Inv, TypeOK, Resp, Originals, OnWire

LEMMA LaunchOriginalKeeps ==
  ASSUME Inv, LaunchOriginal PROVE Inv'
<1>0. TypeOK /\ Sound(held, wire, resps, buffer, sector, next)
  BY DEF Inv
<1>. USE DEF LaunchOriginal
<1>1. CASE Free(held) = {}
  <2>1. Steady /\ UNCHANGED <<next, held, wire, dead, resps, sector, inflight, buffer>>
    BY <1>0, <1>1 DEF Steady, TypeOK, Originals
  <2>2. Remembered'
    BY <1>1 DEF Remembered
  <2>. QED  BY <2>1, <2>2, StillKeeps DEF Inv
<1>2. CASE Free(held) # {}
  <2>1. Launch(held, inflight, Original(next)) /\ next' = next + 1 /\ pc' = pc
    BY <1>2
  <2>2. next \in Sectors /\ next + 1 \in 1..NumSectors + 1
    BY <1>0, SlabUploadAssumption DEF TypeOK, Sectors
  <2>3. Steady
    BY <1>0, <2>1, <2>2 DEF Steady, TypeOK, Originals
  <2>4. Sound(held, wire, resps, buffer, sector, next + 1)
    <3>1. next + 1..NumSectors \subseteq next..NumSectors
      BY <2>2 DEF Sectors
    <3>. QED  BY <1>0, <3>1 DEF Sound
  <2>5. Unused(Original(next), held, wire, resps, buffer, sector, next + 1)
    <3>1. next \in next..NumSectors /\ \A i \in next + 1..NumSectors : i # next
      BY <2>2 DEF Sectors
    <3>2. \A c \in Hosts : held[c] # Original(next) /\ wire[c] # Original(next)
      BY <1>0, <2>2, <3>1, ReqFacts, NoneAssumption DEF Sound
    <3>3. \A i \in next + 1..NumSectors : Original(next) # Original(i)
      BY <3>1, ReqFacts
    <3>4. \A i \in Sectors : sector[i] # None => held[sector[i]] # Original(next)
      BY <1>0, <3>2 DEF TypeOK
    <3>. QED  BY <1>0, <3>1, <3>2, <3>3, <3>4 DEF Sound, Unused
  <2>6. /\ Moved(resps', sector', next')
        /\ stopped = {} => \E c \in Hosts : wire'[c] = Original(next)
    <3>1. Original(next) \in Req
      BY <2>2, ReqFacts
    <3>2. inflight \in Nat
      BY <1>0 DEF TypeOK
    <3>3. Sound(held, wire, resps, buffer', sector, next + 1)
          /\ Unused(Original(next), held, wire, resps, buffer', sector, next + 1)
      BY <2>4, <2>5
    <3>4. /\ Moved(resps, sector, next + 1)
          /\ stopped = {} => \E c \in Hosts : wire'[c] = Original(next)
      BY <1>0, <2>1, <3>1, <3>2, <3>3, InvFacts, LaunchFacts
    <3>. QED  BY <2>1, <3>4
  <2>7. \A k \in 1..Len(resps') : \E j \in 1..Len(resps) : resps'[k] = resps[j]
    OBVIOUS
  <2>8. TypeOK' /\ Sound(held, wire, resps, buffer, sector, next)' /\ Truthful'
    BY <2>3, <2>6, <2>7, InvFacts, MovedKeeps
  <2>9. Remembered'
    <3>. SUFFICES ASSUME stopped = {}, ~ctxDone, NEW i \in Sectors, i \notin Uploaded
                  PROVE  Wanted(i)'
      BY <2>1 DEF Remembered, Uploaded
    <3>1. Wanted(i)
      BY DEF Inv, Remembered
    <3>2. CASE i = next
      BY <2>6, <3>2 DEF Wanted
    <3>3. CASE i # next
      <4>1. i >= next => i >= next + 1
        BY <2>2, <3>3 DEF Sectors
      <4>2. \A h \in Hosts : wire[h] = Original(i) => wire'[h] = Original(i)
        BY <2>6, ReqFacts, NoneAssumption DEF Moved
      <4>. QED  BY <2>1, <3>1, <4>1, <4>2 DEF Wanted
    <3>. QED  BY <3>2, <3>3
  <2>. QED  BY <2>8, <2>9 DEF Inv
<1>. QED  BY <1>1, <1>2

LEMMA CollectKeeps ==
  ASSUME Inv, Collect PROVE Inv'
<1>1. Steady
  BY DEF Inv, TypeOK, Collect, Steady, Originals
<1>2. Remembered'
  BY DEF Inv, Collect, Remembered, Wanted, Uploaded
<1>. QED  BY <1>1, <1>2, StillKeeps DEF Inv, Collect

LEMMA TimerKeeps ==
  ASSUME Inv, Timer PROVE Inv'
<1>. USE DEF Timer
<1>1. Steady
  <2>1. buffer' \in Seq(Originals) /\ Moved(resps, sector, next)
    BY InvFacts, BufferOrOverdriveFacts DEF Inv, TypeOK
  <2>. QED  BY <2>1 DEF Inv, TypeOK, Steady
<1>2. /\ Moved(resps', sector', next')
      /\ stopped = {} => \A k \in 1..Len(buffer) :
           \/ \E c \in Hosts : wire'[c] = buffer[k]
           \/ \E j \in 1..Len(buffer') : buffer'[j] = buffer[k]
  <2>1. /\ Moved(resps, sector, next)
        /\ stopped = {} => \A k \in 1..Len(buffer) :
             \/ \E c \in Hosts : wire'[c] = buffer[k]
             \/ \E j \in 1..Len(buffer') : buffer'[j] = buffer[k]
    BY InvFacts, BufferOrOverdriveFacts DEF Inv, TypeOK
  <2>. QED  BY <2>1
<1>3. \A k \in 1..Len(resps') : \E j \in 1..Len(resps) : resps'[k] = resps[j]
  OBVIOUS
<1>4. TypeOK' /\ Sound(held, wire, resps, buffer, sector, next)' /\ Truthful'
  BY <1>1, <1>2, <1>3, InvFacts, MovedKeeps
<1>5. Remembered'
  <2>. SUFFICES ASSUME stopped = {}, ~ctxDone, NEW i \in Sectors, i \notin Uploaded
                PROVE  Wanted(i)'
    BY DEF Inv, Remembered, Uploaded
  <2>1. Wanted(i)
    BY DEF Inv, Remembered
  <2>2. \A h \in Hosts : wire[h] = Original(i) => wire'[h] = Original(i)
    BY <1>2, ReqFacts, NoneAssumption DEF Moved
  <2>. QED  BY <1>2, <2>1, <2>2 DEF Wanted
<1>. QED  BY <1>4, <1>5 DEF Inv

\* The answers that are left when the first is taken.
LEMMA LeftAnswers ==
  ASSUME Inv, resps # <<>>, NEW i \in Sectors, Wanted(i), Head(resps).req # Original(i)
  PROVE  \/ i >= next
         \/ \E h \in Hosts : wire[h] = Original(i)
         \/ \E k \in 1..Len(Tail(resps)) : Tail(resps)[k].req = Original(i)
         \/ \E k \in 1..Len(buffer) : buffer[k] = Original(i)
<1>. SUFFICES ASSUME NEW k \in 1..Len(resps), resps[k].req = Original(i)
              PROVE  \E j \in 1..Len(Tail(resps)) : Tail(resps)[j].req = Original(i)
  BY DEF Wanted
<1>1. /\ Head(resps) = resps[1] /\ Len(resps) \in Nat /\ Len(Tail(resps)) = Len(resps) - 1
      /\ \A j \in 1..Len(Tail(resps)) : Tail(resps)[j] = resps[j + 1]
  BY InvFacts, HeadTailFacts
<1>2. k # 1
  BY <1>1
<1>3. k - 1 \in 1..Len(Tail(resps)) /\ (k - 1) + 1 = k
  BY <1>1, <1>2
<1>4. Tail(resps)[k - 1] = resps[(k - 1) + 1]
  BY <1>1, <1>3
<1>. QED  BY <1>3, <1>4

LEMMA ReceiveKeeps ==
  ASSUME Inv, Receive PROVE Inv'
<1>. DEFINE resp == Head(resps)
            i == resp.req.idx
            redundant == i \in Uploaded
            used == ~redundant /\ resp.err = "ok"
            failed == resp.err \in {"failed", "finished"}
            n == inflight - 1
            missing == Sectors \ (IF used THEN Uploaded \cup {i} ELSE Uploaded)
<1>1. /\ pc = "loop" /\ inflight > 0 /\ resps # <<>> /\ resps' = Tail(resps)
      /\ UNCHANGED <<next, stopped, ctxDone>>
      /\ sector' = IF used THEN [sector EXCEPT ![i] = resp.host] ELSE sector
  BY DEF Receive
<1>2. PICK h \in Released(resp) :
        \/ /\ used /\ pc' = "ok" /\ reported' = Sectors /\ NoLaunch(h, n) /\ UNCHANGED buffer
        \/ /\ UNCHANGED <<pc, reported>>
           /\ \/ /\ failed /\ ~Overdrive(resp.req) /\ Launch(h, n, resp.req) /\ UNCHANGED buffer
              \/ /\ failed /\ ~Overdrive(resp.req)
                 /\ NoLaunch(h, n) /\ buffer' = Append(buffer, resp.req)
              \/ resp.err = "ok" /\ redundant /\ BufferOrOverdrive(h, n, missing)
              \/ /\ used \/ resp.err = "canceled" \/ (failed /\ Overdrive(resp.req)) \/ (resp.err = "ok" /\ redundant)
                 /\ NoLaunch(h, n) /\ UNCHANGED buffer
  BY DEF Receive
<1>3. /\ resp \in Resp /\ resp = resps[1] /\ Tail(resps) \in Seq(Resp)
      /\ \A k \in 1..Len(Tail(resps)) : \E j \in 1..Len(resps) : Tail(resps)[k] = resps[j]
      /\ h \in [Hosts -> Req \cup {None}]
      /\ Sound(h, wire, Tail(resps), buffer, sector, next)
      /\ Unused(resp.req, h, wire, Tail(resps), buffer, sector, next)
      /\ resp.req.idx \notin Uploaded => h[resp.host] = resp.req
  BY <1>1, SoundReleased DEF Inv
<1>4. /\ resp.req \in Req /\ resp.host \in Hosts /\ i \in Sectors /\ n \in Nat
      /\ missing \in SUBSET Sectors /\ Len(resps) \in Nat /\ Len(resps) >= 1
  <2>1. resp.req \in Req /\ resp.host \in Hosts
    BY <1>3 DEF Resp
  <2>2. n \in Nat
    BY <1>1 DEF Inv, TypeOK
  <2>. QED  BY <1>1, <2>1, <2>2, InvFacts, HeadTailFacts, ReqFacts
<1>. DEFINE Kept == /\ Moved(resps', sector', next')
                    /\ buffer' \in Seq(Originals)
                    /\ stopped = {} => \A k \in 1..Len(buffer) :
                         \/ \E c \in Hosts : wire'[c] = buffer[k]
                         \/ \E j \in 1..Len(buffer') : buffer'[j] = buffer[k]
                    /\ stopped = {} /\ failed /\ ~Overdrive(resp.req) =>
                         \/ \E c \in Hosts : wire'[c] = resp.req
                         \/ \E j \in 1..Len(buffer') : buffer'[j] = resp.req
<1>5. sector' \in [Sectors -> Hosts \cup {None}] /\ Sound(h, wire, resps', buffer, sector', next')
  <2>1. CASE used
    BY <1>1, <1>3, <1>4, <2>1, InvFacts, SoundStore
  <2>2. CASE ~used
    <3>1. sector' = sector
      BY <1>1, <2>2
    <3>. QED  BY <1>1, <1>3, <3>1, InvFacts
  <2>. QED  BY <2>1, <2>2
<1>6. ~used => sector' = sector
  BY <1>1
<1>. HIDE DEF resp, missing, n
<1>7. ASSUME NoLaunch(h, n) /\ UNCHANGED buffer /\ ~(failed /\ ~Overdrive(resp.req))
      PROVE  Kept
  <2>1. Sound(h, wire, resps', buffer', sector', next')
    BY <1>5, <1>7
  <2>2. Moved(resps', sector', next')
    BY <1>3, <1>4, <1>7, <2>1, NoLaunchFacts DEF Inv
  <2>. QED  BY <1>7, <2>2, InvFacts
<1>8. ASSUME failed /\ ~Overdrive(resp.req) /\ Launch(h, n, resp.req) /\ UNCHANGED buffer
      PROVE  Kept
  <2>1. sector' = sector /\ resps' \in Seq(Resp) /\ TypeOK
    BY <1>1, <1>3, <1>6, <1>8 DEF Inv, resp
  <2>2. Sound(h, wire, resps', buffer', sector', next') /\ Unused(resp.req, h, wire, resps', buffer', sector', next')
    <3>1. resps' = Tail(resps) /\ next' = next /\ buffer' = buffer
      BY <1>1, <1>8
    <3>. QED  BY <1>3, <1>5, <2>1, <3>1 DEF resp
  <2>3. Moved(resps', sector', next') /\ (stopped = {} => \E c \in Hosts : wire'[c] = resp.req)
    BY <1>3, <1>4, <1>5, <1>8, <2>1, <2>2, LaunchFacts
  <2>. QED  BY <1>8, <2>3, InvFacts
<1>9. ASSUME failed /\ ~Overdrive(resp.req) /\ NoLaunch(h, n) /\ buffer' = Append(buffer, resp.req)
      PROVE  Kept
  <2>1. sector' = sector /\ TypeOK
    BY <1>6, <1>9 DEF Inv
  <2>2. resp.req \in Originals
    <3>1. resp.req = Original(i)
      BY <1>4, <1>9, ReqFacts
    <3>. QED  BY <1>4, <3>1 DEF Originals
  <2>3. /\ buffer' \in Seq(Originals) /\ Len(buffer) \in Nat /\ Len(buffer') = Len(buffer) + 1
        /\ buffer'[Len(buffer) + 1] = resp.req
        /\ \A k \in 1..Len(buffer) : buffer'[k] = buffer[k]
    BY <1>9, <2>2, InvFacts, AppendFacts
  <2>4. Sound(h, wire, resps', buffer', sector', next')
    BY <1>1, <1>3, <1>4, <1>9, <2>1, InvFacts, SoundAppend DEF resp
  <2>5. Moved(resps', sector', next')
    BY <1>3, <1>4, <1>9, <2>1, <2>4, NoLaunchFacts
  <2>6. Len(buffer) + 1 \in 1..Len(buffer') /\ 1..Len(buffer) \subseteq 1..Len(buffer')
    BY <2>3
  <2>. QED  BY <2>3, <2>5, <2>6
<1>10. ASSUME resp.err = "ok" /\ redundant /\ BufferOrOverdrive(h, n, missing)
      PROVE  Kept
  <2>1. sector' = sector /\ next' = next /\ TypeOK /\ resps' \in Seq(Resp)
    BY <1>1, <1>3, <1>6, <1>10 DEF Inv
  <2>2. /\ Moved(resps', sector', next)
        /\ buffer' \in Seq(Originals)
        /\ stopped = {} => \A k \in 1..Len(buffer) :
             \/ \E c \in Hosts : wire'[c] = buffer[k]
             \/ \E j \in 1..Len(buffer') : buffer'[j] = buffer[k]
    BY <1>3, <1>4, <1>5, <1>10, <2>1, BufferOrOverdriveFacts
  <2>. QED  BY <1>10, <2>1, <2>2
<1>11. Kept
  BY <1>2, <1>7, <1>8, <1>9, <1>10
<1>12. Steady
  <2>1. /\ pc' \in {"loop", "ok"} /\ reported' \subseteq Sectors
    BY <1>1, <1>2 DEF Inv, TypeOK
  <2>2. \A j \in Sectors : sector[j] # None => sector'[j] # None
    <3>1. resp.host # None
      BY <1>4, NoneAssumption
    <3>. QED  BY <1>1, <1>4, <3>1, InvFacts
  <2>. QED  BY <1>1, <1>5, <1>11, <2>1, <2>2 DEF Inv, TypeOK, Steady
<1>13. TypeOK' /\ Sound(held, wire, resps, buffer, sector, next)' /\ Truthful'
  BY <1>1, <1>3, <1>11, <1>12, MovedKeeps DEF resp
<1>14. Remembered'
  <2>. SUFFICES ASSUME stopped = {}, ~ctxDone, NEW j \in Sectors, j \notin Uploaded'
                PROVE  Wanted(j)'
    BY <1>1, <1>2 DEF Inv, Remembered
  <2>1. j \notin Uploaded
    BY <1>12 DEF Steady, Uploaded
  <2>2. Wanted(j)
    BY <1>1, <2>1 DEF Inv, Remembered
  <2>3. \A c \in Hosts : wire[c] = Original(j) => wire'[c] = Original(j)
    BY <1>11, ReqFacts, NoneAssumption DEF Moved
  <2>4. CASE resp.req # Original(j)
    <3>1. \/ j >= next
          \/ \E c \in Hosts : wire[c] = Original(j)
          \/ \E k \in 1..Len(resps') : resps'[k].req = Original(j)
          \/ \E k \in 1..Len(buffer) : buffer[k] = Original(j)
      BY <1>1, <2>2, <2>4, LeftAnswers DEF resp
    <3>. QED  BY <1>1, <1>11, <2>3, <3>1 DEF Wanted
  <2>5. CASE resp.req = Original(j)
    <3>1. i = j /\ ~Overdrive(resp.req)
      BY <2>5, ReqFacts
    <3>2. resp.err # "ok"
      <4>. SUFFICES ASSUME resp.err = "ok" PROVE j \in Uploaded'
        OBVIOUS
      <4>1. used
        BY <2>1, <3>1
      <4>2. sector'[j] = resp.host
        BY <1>1, <1>4, <3>1, <4>1, InvFacts
      <4>. QED  BY <1>4, <4>2, NoneAssumption DEF Uploaded
    <3>3. resp.err # "canceled"
      <4>. SUFFICES ASSUME resp.err = "canceled" PROVE FALSE
        OBVIOUS
      <4>1. CtxDone(i)
        BY <1>3, <1>4 DEF Inv, Truthful, resp
      <4>. QED  BY <1>1, <2>1, <3>1, <4>1 DEF CtxDone
    <3>4. failed
      BY <1>3, <3>2, <3>3 DEF Resp, Outcomes, resp
    <3>. QED  BY <1>11, <2>5, <3>1, <3>4 DEF Wanted
  <2>. QED  BY <2>4, <2>5
<1>. QED  BY <1>13, <1>14 DEF Inv

\* The steps that only end the upload, cancel it or stop an uploader.
LEMMA EndKeeps ==
  ASSUME Inv, LoopEnds \/ LoopCancelled \/ Cancel \/ \E h \in Hosts : StopUploader(h)
  PROVE  Inv'
<1>. USE DEF LoopEnds, LoopCancelled, Cancel, StopUploader
<1>1. UNCHANGED <<next, held, wire, dead, resps, sector, inflight, buffer>>
  OBVIOUS
<1>2. Steady
  BY DEF Inv, TypeOK, Steady, Originals, Uploaded
<1>3. Remembered'
  <2>1. pc' = "loop" => pc = "loop"
    OBVIOUS
  <2>2. (pc' \in {"launch", "loop"} /\ stopped' = {} /\ ~ctxDone') => FALSE
    BY DEF Inv, TypeOK
  <2>. QED  BY <1>1, <2>1, <2>2 DEF Inv, Remembered
<1>. QED  BY <1>1, <1>2, <1>3, StillKeeps DEF Inv

\* The request of a host leaves its uploader, and the answer q is added.
LEMMA GoneKeeps ==
  ASSUME Inv, NEW h \in Hosts, wire[h] # None,
         wire' = [wire EXCEPT ![h] = None], dead' = dead \ {h},
         UNCHANGED <<pc, next, held, sector, inflight, buffer, stopped, ctxDone, reported>>,
         \/ resps' = resps
         \/ \E err \in Outcomes :
              /\ resps' = Append(resps, [host |-> h, req |-> wire[h], err |-> err])
              /\ err \in {"finished", "canceled"} => CtxDone(wire[h].idx)
  PROVE  TypeOK' /\ Sound(held, wire, resps, buffer, sector, next)' /\ Truthful'
<1>1. wire[h] \in Req /\ held[h] = wire[h]
  BY InvFacts DEF Inv, Sound
<1>2. /\ wire' \in [Hosts -> Req \cup {None}]
      /\ \A c \in Hosts : wire'[c] = IF c = h THEN None ELSE wire[c]
  BY InvFacts
<1>3. /\ resps' \in Seq(Resp) /\ Len(resps) \in Nat /\ Len(resps') \in Nat
      /\ \A k \in 1..Len(resps') :
           \/ k \in 1..Len(resps) /\ resps'[k] = resps[k]
           \/ /\ k = Len(resps) + 1 /\ resps'[k].host = h /\ resps'[k].req = wire[h]
              /\ resps'[k].err \in {"finished", "canceled"} => CtxDone(wire[h].idx)
  <2>1. CASE resps' = resps
    BY <2>1, InvFacts, ElementFacts
  <2>2. CASE resps' # resps
    <3>1. PICK err \in Outcomes :
            /\ resps' = Append(resps, [host |-> h, req |-> wire[h], err |-> err])
            /\ err \in {"finished", "canceled"} => CtxDone(wire[h].idx)
      BY <2>2
    <3>2. [host |-> h, req |-> wire[h], err |-> err] \in Resp
      BY <1>1 DEF Resp
    <3>3. /\ resps' \in Seq(Resp) /\ Len(resps) \in Nat /\ Len(resps') = Len(resps) + 1
          /\ resps'[Len(resps) + 1] = [host |-> h, req |-> wire[h], err |-> err]
          /\ \A k \in 1..Len(resps) : resps'[k] = resps[k]
      BY <3>1, <3>2, InvFacts, AppendFacts
    <3>4. \A k \in 1..Len(resps') : k \in 1..Len(resps) \/ k = Len(resps) + 1
      BY <3>3
    <3>. QED  BY <3>1, <3>3, <3>4
  <2>. QED  BY <2>1, <2>2
<1>4. Sound(held, wire, resps, buffer, sector, next)
  BY DEF Inv
<1>5. Sound(held, wire', resps', buffer, sector, next)
  <2>1. \A c, d \in Hosts : wire'[c] # None /\ wire'[c] = wire'[d] => c = d
    BY <1>2, <1>4 DEF Sound
  <2>2. \A k \in 1..Len(resps') :
          held[resps'[k].host] = resps'[k].req /\ \A c \in Hosts : wire'[c] # resps'[k].req
    <3>1. \A c \in Hosts : wire'[c] # wire[h]
      BY <1>1, <1>2, <1>4, NoneAssumption DEF Sound
    <3>2. \A k \in 1..Len(resps) : resps[k] \in Resp
      BY InvFacts, ElementFacts
    <3>3. \A k \in 1..Len(resps) : resps[k].req # None
      BY <3>2, NoneAssumption DEF Resp
    <3>. QED  BY <1>1, <1>2, <1>3, <1>4, <3>1, <3>3 DEF Sound
  <2>3. \A j, k \in 1..Len(resps') : resps'[j].req = resps'[k].req => j = k
    <3>1. \A k \in 1..Len(resps) : resps[k].req # wire[h]
      BY <1>4 DEF Sound
    <3>. QED  BY <1>3, <1>4, <3>1 DEF Sound
  <2>4. \A k \in 1..Len(buffer) : buffer[k] \in Req
    BY InvFacts, ElementFacts
  <2>5. \A k \in 1..Len(buffer) : /\ \A c \in Hosts : wire'[c] # buffer[k]
                                  /\ \A j \in 1..Len(resps') : resps'[j].req # buffer[k]
    BY <1>2, <1>3, <1>4, <2>4, NoneAssumption DEF Sound
  <2>6. \A i \in next..NumSectors : \A k \in 1..Len(resps') : resps'[k].req # Original(i)
    BY <1>1, <1>3, <1>4 DEF Sound
  <2>7. ASSUME NEW i \in Sectors, sector[i] # None
        PROVE  /\ \A c \in Hosts : wire'[c] # held[sector[i]]
               /\ \A k \in 1..Len(resps') : resps'[k].req # held[sector[i]]
    BY <1>2, <1>3, <1>4, <2>7, NoneAssumption DEF Sound
  <2>8. \A c \in Hosts : wire'[c] # None => held[c] = wire'[c]
    BY <1>2, <1>4 DEF Sound
  <2>. QED  BY <1>4, <2>1, <2>2, <2>3, <2>5, <2>6, <2>7, <2>8 DEF Sound
<1>6. TypeOK'
  <2>1. \A c \in Hosts : wire'[c] # None => held[c] = wire'[c]
    BY <1>5 DEF Sound
  <2>2. dead' \subseteq Hosts /\ \A c \in dead' : wire'[c] # None
    BY <1>2, InvFacts
  <2>. QED  BY <1>2, <1>3, <2>1, <2>2 DEF Inv, TypeOK, OnWire, Resp
<1>7. Truthful'
  <2>1. \A c \in dead' : c \in dead /\ wire'[c] = wire[c]
    BY <1>2, InvFacts
  <2>. QED  BY <1>3, <2>1 DEF Inv, Truthful, CtxDone, Uploaded
<1>. QED  BY <1>5, <1>6, <1>7

LEMMA AnswerKeeps ==
  ASSUME Inv, NEW h \in Hosts, Answer(h) PROVE Inv'
<1>1. PICK err \in Outcomes :
        /\ resps' = Append(resps, [host |-> h, req |-> wire[h], err |-> err])
        /\ err \in {"finished", "canceled"} => CtxDone(wire[h].idx)
  <2>1. h \in dead => CtxDone(wire[h].idx)
    BY DEF Inv, Truthful
  <2>. QED  BY <2>1 DEF Answer, Outcomes
<1>2. TypeOK' /\ Sound(held, wire, resps, buffer, sector, next)' /\ Truthful'
  BY <1>1, GoneKeeps DEF Answer
<1>3. Remembered'
  <2>1. /\ wire[h] # None /\ wire' = [wire EXCEPT ![h] = None]
        /\ UNCHANGED <<pc, next, held, sector, inflight, buffer, stopped, ctxDone, reported>>
    BY DEF Answer
  <2>. SUFFICES ASSUME pc \in {"launch", "loop"}, stopped = {}, ~ctxDone, NEW i \in Sectors, i \notin Uploaded
                PROVE  Wanted(i)'
    BY <2>1 DEF Inv, Remembered, Uploaded
  <2>2. Wanted(i)
    BY DEF Inv, Remembered
  <2>3. [host |-> h, req |-> wire[h], err |-> err] \in Resp
    BY <2>1, InvFacts DEF Resp
  <2>4. /\ Len(resps) \in Nat /\ Len(resps') = Len(resps) + 1
        /\ resps'[Len(resps) + 1].req = wire[h]
        /\ \A k \in 1..Len(resps) : resps'[k] = resps[k]
    BY <1>1, <2>3, InvFacts, AppendFacts
  <2>5. Len(resps) + 1 \in 1..Len(resps') /\ 1..Len(resps) \subseteq 1..Len(resps')
    BY <2>4
  <2>6. \A c \in Hosts : wire[c] = Original(i) => c = h \/ wire'[c] = Original(i)
    BY <2>1, InvFacts
  <2>. QED  BY <2>1, <2>2, <2>4, <2>5, <2>6 DEF Wanted
<1>. QED  BY <1>2, <1>3 DEF Inv

LEMMA StepKeeps ==
  ASSUME Inv, [Next]_vars PROVE Inv'
<1>1. CASE UNCHANGED vars
  <2>1. Steady
    BY <1>1 DEF vars, Inv, TypeOK, Steady, Originals
  <2>2. Remembered'
    BY <1>1 DEF vars, Inv, Remembered, Wanted, Uploaded
  <2>. QED  BY <1>1, <2>1, <2>2, StillKeeps DEF vars, Inv
<1>2. CASE LoopEnds \/ LoopCancelled \/ Cancel \/ \E h \in Hosts : StopUploader(h)
  BY <1>2, EndKeeps
<1>. QED  BY <1>1, <1>2, LaunchOriginalKeeps, CollectKeeps, ReceiveKeeps, TimerKeeps,
             AnswerKeeps DEF Next, Upload, Uploaders

LEMMA Invariance == Spec => []Inv
  BY InitHolds, StepKeeps, PTL DEF Spec

-----------------------------------------------------------------------------
\* The variables of an upload keep their types, whatever the hosts and the contexts do.
THEOREM TypeCorrect == Spec => []TypeOK
<1>1. Inv => TypeOK
  BY DEF Inv
<1>. QED  BY <1>1, Invariance, PTL

\* No two sectors of a slab are stored on the same host: the host that stored a
\* sector is released by no answer.
THEOREM DistinctHostsHolds == Spec => []DistinctHosts
<1>1. Inv => DistinctHosts
  BY DEF Inv, Sound, DistinctHosts, Uploaded
<1>. QED  BY <1>1, Invariance, PTL

\* While no uploader is stopped and the upload is not cancelled, a sector that is not
\* stored is requested, answered or in the buffer.
THEOREM NoSectorForgottenHolds == Spec => []NoSectorForgotten
<1>1. Inv => NoSectorForgotten
  <2>1. ASSUME Inv, pc = "loop" PROVE \A i \in Sectors : ~(i >= next)
    BY <2>1, SlabUploadAssumption DEF Inv, TypeOK, Remembered, Sectors
  <2>. QED  BY <2>1 DEF Inv, Remembered, Wanted, NoSectorForgotten
<1>. QED  BY <1>1, Invariance, PTL


-----------------------------------------------------------------------------
(* The queue of one host's uploader (module Uploader, with requests and    *)
(* variables of its own), for any requests and any number of renewals.     *)

USE UploaderAssumption


QInv == UploaderTypeOK /\ NoForgottenWork

LEMMA QueueInitHolds == UploaderInit => QInv
<1>. SUFFICES ASSUME UploaderInit PROVE QInv
  OBVIOUS
<1>1. queue \in Seq(Reqs) /\ queue = <<>>
  BY DEF UploaderInit
<1>2. answers \in [Reqs -> Nat]
  BY DEF UploaderInit
<1>3. renewals \in 0..MaxRetry
  BY DEF UploaderInit
<1>. QED  BY <1>1, <1>2, <1>3 DEF UploaderInit, QInv, UploaderTypeOK, NoForgottenWork, Ended

\* A response keeps the type of the counts.
LEMMA FinishFacts ==
  ASSUME answers \in [Reqs -> Nat], NEW r \in Reqs, Finish(r)
  PROVE  answers' \in [Reqs -> Nat]
  BY DEF Finish

\* The head of a queue is a request, and what is left is a queue.
LEMMA PopFacts ==
  ASSUME NEW q \in Seq(Reqs), q # <<>>
  PROVE  Head(q) \in Reqs /\ Tail(q) \in Seq(Reqs)
  OBVIOUS

\* The steps of Enqueue, and the context of a request.
LEMMA EnqueueKeeps ==
  ASSUME QInv, NEW r \in Reqs, Enqueue(r) \/ CancelRequest(r)
  PROVE  QInv'
<1>. USE DEF QInv, UploaderTypeOK, NoForgottenWork, Ended
<1>1. CASE EnqueueChecks(r)
  BY <1>1 DEF EnqueueChecks
<1>2. CASE EnqueueAppends(r)
  <2>1. Append(queue, r) \in Seq(Reqs)
    OBVIOUS
  <2>. QED  BY <1>2, <2>1 DEF EnqueueAppends, QueueUp
<1>3. CASE EnqueueSignals(r)
  BY <1>3 DEF EnqueueSignals
<1>4. CASE CancelRequest(r)
  BY <1>4 DEF CancelRequest
<1>. QED  BY <1>1, <1>2, <1>3, <1>4 DEF Enqueue

\* The steps of Start.
LEMMA StartKeeps ==
  ASSUME QInv, Start
  PROVE  QInv'
<1>. USE DEF QInv, UploaderTypeOK, NoForgottenWork, Ended
<1>1. CASE LoopStops
  BY <1>1 DEF LoopStops
<1>2. CASE LoopWakes
  BY <1>2 DEF LoopWakes
<1>3. CASE LoopChecks
  BY <1>3 DEF LoopChecks
<1>4. CASE LoopPops
  <2>1. CASE queue = <<>>
    BY <1>4, <2>1 DEF LoopPops
  <2>2. CASE queue # <<>>
    <3>1. Head(queue) \in Reqs /\ Tail(queue) \in Seq(Reqs)
      BY <2>2, PopFacts
    <3>2. CASE Head(queue) \in cancelled
      BY <1>4, <2>2, <3>1, <3>2, FinishFacts DEF LoopPops
    <3>3. CASE Head(queue) \notin cancelled
      BY <1>4, <2>2, <3>1, <3>3 DEF LoopPops
    <3>. QED  BY <3>2, <3>3
  <2>. QED  BY <2>1, <2>2
<1>5. CASE LoopFinishes
  BY <1>5 DEF LoopFinishes, Finish
<1>6. CASE LoopRefreshes
  BY <1>6 DEF LoopRefreshes
<1>7. CASE RetryChecks
  BY <1>7 DEF RetryChecks
<1>8. CASE RetryAppends
  <2>1. cur \in Reqs
    BY <1>8 DEF RetryAppends
  <2>2. Append(queue, cur) \in Seq(Reqs)
    BY <2>1
  <2>. QED  BY <1>8, <2>1, <2>2 DEF RetryAppends, QueueUp
<1>9. CASE RetrySignals
  BY <1>9 DEF RetrySignals
<1>. QED  BY <1>1, <1>2, <1>3, <1>4, <1>5, <1>6, <1>7, <1>8, <1>9 DEF Start

\* The steps of Stop, and the manager's context.
LEMMA StopKeeps ==
  ASSUME QInv, Stop \/ Shutdown
  PROVE  QInv'
<1>. USE DEF QInv, UploaderTypeOK, NoForgottenWork, Ended
<1>1. CASE StopCloses
  BY <1>1 DEF StopCloses
<1>2. CASE StopDrains
  <2>1. CASE queue = <<>>
    BY <1>2, <2>1 DEF StopDrains
  <2>2. CASE queue # <<>>
    <3>1. Head(queue) \in Reqs /\ Tail(queue) \in Seq(Reqs)
      BY <2>2, PopFacts
    <3>. QED  BY <1>2, <2>2, <3>1, FinishFacts DEF StopDrains
  <2>. QED  BY <2>1, <2>2
<1>3. CASE Shutdown
  BY <1>3 DEF Shutdown
<1>. QED  BY <1>1, <1>2, <1>3 DEF Stop

LEMMA QueueStepKeeps == QInv /\ [UploaderNext]_uploaderVars => QInv'
<1>. SUFFICES ASSUME QInv, [UploaderNext]_uploaderVars PROVE QInv'
  OBVIOUS
<1>1. CASE UNCHANGED uploaderVars
  BY <1>1 DEF uploaderVars, QInv, UploaderTypeOK, NoForgottenWork
<1>. QED  BY <1>1, EnqueueKeeps, StartKeeps, StopKeeps DEF UploaderNext

THEOREM QueueInvariance == UploaderSpec => []QInv
  BY QueueInitHolds, QueueStepKeeps, PTL DEF UploaderSpec

\* The uploader's variables keep their types.
THEOREM QueueTypeCorrect == UploaderSpec => []UploaderTypeOK
<1>1. QInv => UploaderTypeOK
  BY DEF QInv
<1>. QED  BY <1>1, QueueInvariance, PTL

\* No wake-up is lost between the append under the mutex and the signal after it.
THEOREM NoForgottenWorkHolds == UploaderSpec => []NoForgottenWork
<1>1. QInv => NoForgottenWork
  BY DEF QInv
<1>. QED  BY <1>1, QueueInvariance, PTL

-----------------------------------------------------------------------------
(* Answers *)

Distinct(q) == \A i, j \in 1..Len(q) : q[i] = q[j] => i = j

\* A request is in one place, and without an answer there.
Once ==
  /\ Distinct(queue)
  /\ \A r \in Reqs :
       /\ answers[r] \in {0, 1}
       /\ answers[r] = 1 => r \notin Members(queue) /\ cur # r
       /\ cur = r => r \notin Members(queue)
       /\ caller[r] \in {"new", "checked", "refused"} =>
            answers[r] = 0 /\ r \notin Members(queue) /\ cur # r

\* A request without an answer is somewhere, and after Stop it has met the closed
\* channel.
Kept ==
  /\ \A r \in Reqs :
       caller[r] \in {"appended", "accepted"} /\ answers[r] = 0 =>
         r \in Members(queue) \/ cur = r \/ r \in late
  /\ stop # "no" => stoppedChan
  /\ stop = "done" => Members(queue) \subseteq late

AInv == QInv /\ Once /\ Kept

LEMMA AppendMembers ==
  ASSUME NEW q \in Seq(Reqs), NEW r \in Reqs
  PROVE  /\ Members(Append(q, r)) = Members(q) \cup {r}
         /\ Distinct(q) /\ r \notin Members(q) => Distinct(Append(q, r))
<1>1. /\ Len(Append(q, r)) = Len(q) + 1 /\ Len(q) \in Nat
      /\ \A i \in 1..Len(q) : Append(q, r)[i] = q[i]
      /\ Append(q, r)[Len(q) + 1] = r
  OBVIOUS
<1>2. 1..(Len(q) + 1) = 1..Len(q) \cup {Len(q) + 1}
  BY <1>1
<1>3. Members(Append(q, r)) = Members(q) \cup {r}
  BY <1>1, <1>2 DEF Members
<1>4. Distinct(q) /\ r \notin Members(q) => Distinct(Append(q, r))
  BY <1>1, <1>2 DEF Members, Distinct
<1>. QED  BY <1>3, <1>4

LEMMA TailMembers ==
  ASSUME NEW q \in Seq(Reqs), q # <<>>
  PROVE  /\ Members(q) = Members(Tail(q)) \cup {Head(q)}
         /\ Distinct(q) => Distinct(Tail(q)) /\ Head(q) \notin Members(Tail(q))
<1>1. /\ Len(q) \in Nat /\ Len(q) >= 1 /\ Len(Tail(q)) = Len(q) - 1
      /\ \A i \in 1..(Len(q) - 1) : Tail(q)[i] = q[i + 1]
      /\ Head(q) = q[1]
  OBVIOUS
<1>2. Members(Tail(q)) = {q[i + 1] : i \in 1..(Len(q) - 1)}
  BY <1>1 DEF Members
<1>3. \A k \in 1..Len(q) : k = 1 \/ (k - 1 \in 1..(Len(q) - 1) /\ k = (k - 1) + 1)
  BY <1>1
<1>4. \A i \in 1..(Len(q) - 1) : i + 1 \in 1..Len(q) /\ i + 1 # 1
  BY <1>1
<1>5. Members(q) = Members(Tail(q)) \cup {Head(q)}
  <2>1. \A k \in 1..Len(q) : q[k] \in Members(Tail(q)) \cup {Head(q)}
    <3>. TAKE k \in 1..Len(q)
    <3>1. CASE k = 1
      BY <3>1, <1>1
    <3>2. CASE k # 1
      <4>1. k - 1 \in 1..(Len(q) - 1) /\ q[k] = q[(k - 1) + 1]
        BY <3>2, <1>3
      <4>. QED  BY <4>1, <1>2
    <3>. QED  BY <3>1, <3>2
  <2>2. \A i \in 1..(Len(q) - 1) : q[i + 1] \in Members(q)
    BY <1>4 DEF Members
  <2>3. Head(q) \in Members(q)
    BY <1>1 DEF Members
  <2>. QED  BY <2>1, <2>2, <2>3, <1>2 DEF Members
<1>6. Distinct(q) => Distinct(Tail(q)) /\ Head(q) \notin Members(Tail(q))
  <2>. SUFFICES ASSUME Distinct(q) PROVE Distinct(Tail(q)) /\ Head(q) \notin Members(Tail(q))
    OBVIOUS
  <2>1. Distinct(Tail(q))
    BY <1>1, <1>4 DEF Distinct
  <2>2. Head(q) \notin Members(Tail(q))
    BY <1>1, <1>2, <1>4 DEF Distinct
  <2>. QED  BY <2>1, <2>2
<1>. QED  BY <1>5, <1>6

LEMMA AnswersInit == UploaderInit => Once /\ Kept
<1>. SUFFICES ASSUME UploaderInit PROVE Once /\ Kept
  OBVIOUS
<1>1. queue = <<>> /\ Len(queue) = 0 /\ Members(queue) = {}
  BY DEF UploaderInit, Members
<1>. QED  BY <1>1 DEF UploaderInit, Once, Kept, Distinct

\* A request taken from the head of the queue.
LEMMA PopAnswers ==
  ASSUME AInv, queue # <<>>
  PROVE  /\ Head(queue) \in Reqs /\ Tail(queue) \in Seq(Reqs)
         /\ Members(queue) = Members(Tail(queue)) \cup {Head(queue)}
         /\ Distinct(Tail(queue)) /\ Head(queue) \notin Members(Tail(queue))
         /\ answers[Head(queue)] = 0 /\ cur # Head(queue)
         /\ caller[Head(queue)] \in {"appended", "accepted"}
<1>1. queue \in Seq(Reqs) /\ Distinct(queue)
  BY DEF AInv, QInv, UploaderTypeOK, Once
<1>2. Head(queue) \in Reqs /\ Tail(queue) \in Seq(Reqs)
  BY <1>1, PopFacts
<1>3. Members(queue) = Members(Tail(queue)) \cup {Head(queue)}
  BY <1>1, TailMembers
<1>4. Distinct(Tail(queue)) /\ Head(queue) \notin Members(Tail(queue))
  BY <1>1, TailMembers
<1>5. Head(queue) \in Members(queue)
  BY <1>3
<1>. QED  BY <1>2, <1>3, <1>4, <1>5 DEF AInv, QInv, UploaderTypeOK, Once

\* The steps that leave queue, answers, cur and late alone.
LEMMA EnqueueAnswers ==
  ASSUME AInv, NEW r \in Reqs, Enqueue(r) \/ CancelRequest(r)
  PROVE  (Once /\ Kept)'
<1>. USE DEF AInv, QInv, UploaderTypeOK, Once, Kept
<1>1. CASE EnqueueChecks(r)
  BY <1>1 DEF EnqueueChecks
<1>2. CASE EnqueueAppends(r)
  <2>1. r \notin Members(queue) /\ queue \in Seq(Reqs)
    BY <1>2 DEF EnqueueAppends
  <2>2. Members(queue') = Members(queue) \cup {r} /\ Distinct(queue')
    BY <1>2, <2>1, AppendMembers DEF EnqueueAppends, QueueUp
  <2>. QED  BY <1>2, <2>2 DEF EnqueueAppends, QueueUp
<1>3. CASE EnqueueSignals(r)
  BY <1>3 DEF EnqueueSignals
<1>4. CASE CancelRequest(r)
  BY <1>4 DEF CancelRequest
<1>. QED  BY <1>1, <1>2, <1>3, <1>4 DEF Enqueue

LEMMA StartAnswers ==
  ASSUME AInv, Start
  PROVE  (Once /\ Kept)'
<1>. USE DEF AInv, QInv, UploaderTypeOK, Once, Kept
<1>1. CASE LoopStops
  BY <1>1 DEF LoopStops
<1>2. CASE LoopWakes
  BY <1>2 DEF LoopWakes
<1>3. CASE LoopChecks
  BY <1>3 DEF LoopChecks
<1>4. CASE LoopPops
  <2>1. CASE queue = <<>>
    BY <1>4, <2>1 DEF LoopPops
  <2>2. CASE queue # <<>> /\ Head(queue) \in cancelled
    <3>1. queue' = Tail(queue) /\ Finish(Head(queue)) /\ UNCHANGED <<caller, cur, late, stop, stoppedChan>>
      BY <1>4, <2>2 DEF LoopPops
    <3>. QED  BY <2>2, <3>1, PopAnswers DEF Finish
  <2>3. CASE queue # <<>> /\ Head(queue) \notin cancelled
    <3>1. queue' = Tail(queue) /\ cur' = Head(queue) /\ UNCHANGED <<answers, caller, late, stop, stoppedChan>>
      BY <1>4, <2>3 DEF LoopPops
    <3>2. cur = NoReq
      BY <1>4 DEF LoopPops, Ended
    <3>. QED  BY <2>3, <3>1, <3>2, PopAnswers
  <2>. QED  BY <2>1, <2>2, <2>3
<1>5. CASE LoopFinishes
  <2>1. cur \in Reqs
    BY <1>5 DEF LoopFinishes
  <2>. QED  BY <1>5, <2>1 DEF LoopFinishes, Finish
<1>6. CASE LoopRefreshes
  BY <1>6 DEF LoopRefreshes
<1>7. CASE RetryChecks
  <2>1. cur \in Reqs
    BY <1>7 DEF RetryChecks
  <2>. QED  BY <1>7, <2>1 DEF RetryChecks
<1>8. CASE RetryAppends
  <2>1. cur \in Reqs /\ cur \notin Members(queue)
    BY <1>8 DEF RetryAppends
  <2>2. Members(queue') = Members(queue) \cup {cur} /\ Distinct(queue')
    BY <1>8, <2>1, AppendMembers DEF RetryAppends, QueueUp
  <2>. QED  BY <1>8, <2>1, <2>2 DEF RetryAppends, QueueUp
<1>9. CASE RetrySignals
  BY <1>9 DEF RetrySignals
<1>. QED  BY <1>1, <1>2, <1>3, <1>4, <1>5, <1>6, <1>7, <1>8, <1>9 DEF Start

LEMMA StopAnswers ==
  ASSUME AInv, Stop \/ Shutdown
  PROVE  (Once /\ Kept)'
<1>. USE DEF AInv, QInv, UploaderTypeOK, Once, Kept
<1>1. CASE StopCloses
  BY <1>1 DEF StopCloses
<1>2. CASE StopDrains
  <2>1. CASE queue = <<>>
    <3>1. Members(queue) = {}
      BY <2>1 DEF Members
    <3>. QED  BY <1>2, <2>1, <3>1 DEF StopDrains
  <2>2. CASE queue # <<>>
    <3>1. queue' = Tail(queue) /\ Finish(Head(queue)) /\ UNCHANGED <<caller, cur, late, stop, stoppedChan>>
      BY <1>2, <2>2 DEF StopDrains
    <3>. QED  BY <1>2, <2>2, <3>1, PopAnswers DEF Finish, StopDrains
  <2>. QED  BY <2>1, <2>2
<1>3. CASE Shutdown
  BY <1>3 DEF Shutdown
<1>. QED  BY <1>1, <1>2, <1>3 DEF Stop

THEOREM AnswersInvariance == UploaderSpec => []AInv
<1>1. UploaderInit => AInv
  BY QueueInitHolds, AnswersInit DEF AInv
<1>2. AInv /\ [UploaderNext]_uploaderVars => AInv'
  <2>. SUFFICES ASSUME AInv, [UploaderNext]_uploaderVars PROVE AInv'
    OBVIOUS
  <2>1. QInv'
    BY QueueStepKeeps DEF AInv
  <2>2. CASE UNCHANGED uploaderVars
    BY <2>1, <2>2 DEF AInv, Once, Kept, uploaderVars
  <2>3. CASE UploaderNext
    BY <2>1, <2>3, EnqueueAnswers, StartAnswers, StopAnswers DEF AInv, UploaderNext
  <2>. QED  BY <2>2, <2>3
<1>. QED  BY <1>1, <1>2, PTL DEF UploaderSpec

\* No request is answered twice, though the loop, Stop and the retry after a renewal
\* all answer and put back requests.
THEOREM AnsweredOnceHolds == UploaderSpec => []AnsweredOnce
<1>1. AInv => AnsweredOnce
  <2>. SUFFICES ASSUME AInv, NEW r \in Reqs
                PROVE  answers[r] + Cardinality({i \in 1..Len(queue) : queue[i] = r})
                         + (IF cur = r THEN 1 ELSE 0) <= 1
    BY DEF AnsweredOnce
  <2>. DEFINE at == {i \in 1..Len(queue) : queue[i] = r}
  <2>1. CASE r \notin Members(queue)
    <3>1. at = {}
      BY <2>1 DEF Members
    <3>2. Cardinality(at) = 0
      BY <3>1, FS_EmptySet
    <3>. QED  BY <2>1, <3>2 DEF AInv, Once
  <2>2. CASE r \in Members(queue)
    <3>1. PICK k \in 1..Len(queue) : queue[k] = r
      BY <2>2 DEF Members
    <3>2. at = {k}
      BY <3>1 DEF AInv, Once, Distinct
    <3>3. Cardinality(at) = 1
      BY <3>2, FS_Singleton
    <3>4. answers[r] = 0 /\ cur # r
      BY <2>2 DEF AInv, Once
    <3>. QED  BY <3>3, <3>4
  <2>. QED  BY <2>1, <2>2
<1>. QED  BY <1>1, AnswersInvariance, PTL

\* When the uploader and its Stop are over, an accepted request without an answer met
\* the closed channel on its way into the queue.
THEOREM StopAnswersEarlierHolds == UploaderSpec => []StopAnswersEarlier
<1>1. AInv => StopAnswersEarlier
  BY DEF AInv, QInv, UploaderTypeOK, Once, Kept, StopAnswersEarlier, AllEnded, Ended
<1>. QED  BY <1>1, AnswersInvariance, PTL
=============================================================================
