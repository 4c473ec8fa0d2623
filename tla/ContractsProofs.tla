---------------------------- MODULE ContractsProofs ----------------------------
(***************************************************************************)
(* For any number of contracts, any chain and any reorganisations: what    *)
(* the rows of the contracts say of the chain, of each other and of the    *)
(* elements, and that at most one contract with the host is active.        *)
(*                                                                         *)
(* The argument.  The database is a function of the chain up to the stored *)
(* index, but for what the contractor writes.  Consistent says so of the   *)
(* rows and elements after the first n blocks of a legal chain, one in     *)
(* which a contract is created once and resolved once, later.  Applying    *)
(* and reverting a block each keep it, with n one more or one less; a      *)
(* transaction of the subscriber is a number of those, by induction.  What *)
(* the contractor writes is of contracts that no block seen has created,   *)
(* late ones excepted.                                                     *)
(***************************************************************************)
EXTENDS Contracts, Recursion, FiniteSetTheorems, SequenceTheorems, TLAPS

-----------------------------------------------------------------------------
(* The inductive invariant *)

Transaction == [kind : {"create", "proof", "expire"}, id : Contracts]

CompletedBy(b) == RenewedBy(b) \cup ProvedBy(b)

\* What the first n blocks of a chain do.
CreatedTo(ch, n) == UNION {CreatedBy(ch[h]) : h \in 1..n}
CompletedTo(ch, n) == UNION {CompletedBy(ch[h]) : h \in 1..n}
ExpiredTo(ch, n) == UNION {ExpiredBy(ch[h]) : h \in 1..n}

\* A contract is created once, and then resolved once, in one way.
Legal(ch) ==
  /\ ch \in Seq(SUBSET Transaction)
  /\ \A h \in 1..Len(ch) :
       /\ CreatedBy(ch[h]) \subseteq Agreed \ CreatedTo(ch, h - 1)
       /\ CompletedBy(ch[h]) \cup ExpiredBy(ch[h])
            \subseteq CreatedTo(ch, h - 1) \ (CompletedTo(ch, h - 1) \cup ExpiredTo(ch, h - 1))
       /\ CompletedBy(ch[h]) \cap ExpiredBy(ch[h]) = {}

\* A contract is renewed once, by a later one; the rows are of contracts agreed, and
\* the one that has no row yet is the last.
Deals ==
  /\ \A c \in Agreed : From(c) < c
  /\ \A c, d \in Agreed : From(c) = From(d) /\ From(c) # 0 => c = d
  /\ Known(row) \subseteq Agreed \ {deal}
  /\ DOMAIN snapshot \subseteq Known(row)
  /\ deal # 0 => /\ deal = Len(agreed)
                 /\ IF From(deal) = 0 THEN ActiveRows = {} ELSE From(deal) \in Known(row)

OneActive == \A c, d \in ActiveRows : c = d

\* The state of a contract's row after n blocks of ch, when blocks up to top have
\* been applied.
StateAt(c, s, ch, n, top) ==
  IF c \notin CreatedTo(ch, n) THEN s = "pending" \/ reset
  ELSE IF c \in CompletedTo(ch, n) THEN s = "complete"
  ELSE IF c \in ExpiredTo(ch, n) THEN s = "failed"
  ELSE s = "active" \/ (s = "failed" /\ WindowEnd(c) <= top - PruneWindow)

OpenAt(c, ch, n) ==
  c \in CreatedTo(ch, n) /\ c \notin CompletedTo(ch, n) /\ c \notin ExpiredTo(ch, n)

StatesAt(r, ch, n, top) ==
  \A c \in Known(r) \ late : StateAt(c, r[c].state, ch, n, top)

ElementsAt(r, e, ch, n, top) ==
  /\ \A c \in Contracts \ Known(r) : e[c] = 0
  /\ \A c \in Known(r) : e[c] \in {0, c} \/ From(c) # 0
  /\ \A c \in Known(r) \ late :
       r[c].archived = "no" /\ OpenAt(c, ch, n) /\ WindowEnd(c) >= top - PruneWindow
         => e[c] # 0

Links(r) ==
  \A c \in Known(r) :
    From(c) # 0 => /\ r[c].from = From(c)
                   /\ From(c) \in Known(r)
                   /\ r[From(c)].to = c /\ r[From(c)].archived # "no"

\* A database after n blocks.
Database == [row : [Contracts -> Row \cup {None}], element : [Contracts -> 0..MaxContracts]]

Consistent(db, ch, n, top) ==
  /\ db \in Database
  /\ Links(db.row)
  /\ StatesAt(db.row, ch, n, top)
  /\ ElementsAt(db.row, db.element, ch, n, top)

CInv ==
  /\ TypeOK /\ highest \in Nat
  /\ Deals /\ OneActive
  /\ Legal(chain) /\ Legal(seen)
  /\ Consistent([row |-> row, element |-> element], seen, Len(seen), highest)

-----------------------------------------------------------------------------
(* Chains *)

LEMMA Numbers ==
  /\ Period \in Nat /\ RenewWindow \in Nat /\ Buffer \in Nat /\ Deadline \in Nat
  /\ ProofWindow \in Nat /\ PruneWindow \in Nat /\ Batch \in Nat \ {0}
  /\ MaxContracts \in Nat /\ MaxHeight \in Nat /\ MaxReorg \in Nat /\ MaxDisturbances \in Nat
BY ContractsAssumption

LEMMA NextPrefix ==
  ASSUME NEW ch, NEW n \in Nat
  PROVE  /\ CreatedTo(ch, n + 1) = CreatedTo(ch, n) \cup CreatedBy(ch[n + 1])
         /\ CompletedTo(ch, n + 1) = CompletedTo(ch, n) \cup CompletedBy(ch[n + 1])
         /\ ExpiredTo(ch, n + 1) = ExpiredTo(ch, n) \cup ExpiredBy(ch[n + 1])
<1>1. 1..n + 1 = (1..n) \cup {n + 1}
  OBVIOUS
<1>. QED  BY <1>1 DEF CreatedTo, CompletedTo, ExpiredTo

LEMMA SamePrefix ==
  ASSUME NEW a, NEW b, NEW n, \A h \in 1..n : a[h] = b[h]
  PROVE  /\ CreatedTo(a, n) = CreatedTo(b, n)
         /\ CompletedTo(a, n) = CompletedTo(b, n)
         /\ ExpiredTo(a, n) = ExpiredTo(b, n)
BY DEF CreatedTo, CompletedTo, ExpiredTo

LEMMA ResolvedWereCreated ==
  ASSUME NEW ch, Legal(ch), NEW n \in 0..Len(ch)
  PROVE  CompletedTo(ch, n) \cup ExpiredTo(ch, n) \subseteq CreatedTo(ch, n)
<1>. SUFFICES ASSUME NEW h \in 1..n, NEW c \in CompletedBy(ch[h]) \cup ExpiredBy(ch[h])
              PROVE  c \in CreatedTo(ch, n)
  BY DEF CompletedTo, ExpiredTo
<1>1. Len(ch) \in Nat
  BY DEF Legal
<1>2. h \in 1..Len(ch) /\ 1..h - 1 \subseteq 1..n
  BY <1>1
<1>3. c \in CreatedTo(ch, h - 1)
  BY <1>2 DEF Legal
<1>. QED  BY <1>2, <1>3 DEF CreatedTo

LEMMA WholeChain ==
  ASSUME NEW ch \in Seq(SUBSET Transaction)
  PROVE  /\ Created(ch) = CreatedTo(ch, Len(ch))
         /\ On(ch, RenewedBy) \cup On(ch, ProvedBy) = CompletedTo(ch, Len(ch))
         /\ On(ch, ExpiredBy) = ExpiredTo(ch, Len(ch))
         /\ Open(ch) = CreatedTo(ch, Len(ch))
                         \ (CompletedTo(ch, Len(ch)) \cup ExpiredTo(ch, Len(ch)))
<1>1. DOMAIN ch = 1..Len(ch)
  OBVIOUS
<1>2. Created(ch) = CreatedTo(ch, Len(ch)) /\ On(ch, ExpiredBy) = ExpiredTo(ch, Len(ch))
  BY <1>1 DEF Created, On, CreatedTo, ExpiredTo
<1>3. On(ch, RenewedBy) \cup On(ch, ProvedBy) = CompletedTo(ch, Len(ch))
  BY <1>1 DEF On, CompletedTo, CompletedBy
<1>. QED  BY <1>2, <1>3 DEF Open, Resolved

LEMMA Ranges ==
  ASSUME TypeOK
  PROVE  /\ Agreed = 1..Len(agreed) /\ Agreed \subseteq Contracts /\ Len(agreed) \in Nat
         /\ \A c \in Agreed : From(c) \in 0..MaxContracts /\ WindowEnd(c) \in Nat /\ End(c) \in Nat
<1>1. Agreed = 1..Len(agreed) /\ Len(agreed) \in Nat /\ Len(agreed) <= MaxContracts
  BY DEF TypeOK, Agreed
<1>2. \A c \in Agreed : agreed[c] \in [from : 0..MaxContracts, start : Nat, end : Nat]
  <2>. DEFINE Deal == [from : 0..MaxContracts, start : Nat, end : Nat]
  <2>1. agreed \in Seq(Deal)
    BY DEF TypeOK
  <2>. HIDE DEF Deal
  <2>2. \A c \in Agreed : agreed[c] \in Deal
    BY <1>1, <2>1
  <2>. QED  BY <2>2 DEF Deal
<1>3. ASSUME NEW c \in Agreed
      PROVE  From(c) \in 0..MaxContracts /\ WindowEnd(c) \in Nat /\ End(c) \in Nat
  <2>1. agreed[c].from \in 0..MaxContracts /\ agreed[c].end \in Nat
    BY <1>1, <1>2
  <2>. QED  BY <2>1, Numbers DEF From, End, WindowEnd
<1>. QED  BY <1>1, <1>3, Numbers DEF Contracts

LEMMA BlockFacts ==
  ASSUME TypeOK, NEW ch, Legal(ch), NEW b \in Blocks(ch)
  PROVE  /\ b \in SUBSET Transaction
         /\ CreatedBy(b) \subseteq Agreed \ Created(ch)
         /\ CompletedBy(b) \cup ExpiredBy(b) \subseteq Open(ch)
         /\ CompletedBy(b) \cap ExpiredBy(b) = {}
<1>1. Open(ch) \subseteq Contracts
  <2>1. \A h \in 1..Len(ch) : CreatedBy(ch[h]) \subseteq Contracts
    BY Ranges DEF Legal
  <2>2. Open(ch) \subseteq CreatedTo(ch, Len(ch))
    BY WholeChain DEF Legal
  <2>. QED  BY <2>1, <2>2 DEF CreatedTo
<1>2. ASSUME NEW t \in b
      PROVE  \/ t.kind = "create" /\ t.id \in Agreed \ Created(ch) /\ From(t.id) \in Open(ch) \cup {0}
             \/ t.kind \in {"proof", "expire"} /\ t.id \in Open(ch)
  BY DEF Blocks, Possible, Does
<1>3. ASSUME NEW t \in b PROVE t \in Transaction
  <2>1. \E kind \in {"create", "proof", "expire"}, c \in Agreed \cup Open(ch) : t = Does(kind, c)
    BY DEF Blocks, Possible
  <2>. QED  BY <1>1, <2>1, Ranges DEF Does, Transaction
<1>4. CreatedBy(b) \subseteq Agreed \ Created(ch)
  BY <1>2 DEF CreatedBy
<1>5. RenewedBy(b) \cup ProvedBy(b) \cup ExpiredBy(b) \subseteq Open(ch)
  <2>1. RenewedBy(b) \subseteq Open(ch)
    BY <1>2 DEF CreatedBy, RenewedBy
  <2>2. ProvedBy(b) \cup ExpiredBy(b) \subseteq Open(ch)
    BY <1>2 DEF ProvedBy, ExpiredBy
  <2>. QED  BY <2>1, <2>2
<1>6. ASSUME NEW c, c \in CompletedBy(b), c \in ExpiredBy(b) PROVE FALSE
  <2>1. PICK u \in b : u.kind = "expire" /\ u.id = c
    BY <1>6 DEF ExpiredBy
  <2>2. PICK t \in b : \/ t.kind = "create" /\ From(t.id) = c
                       \/ t.kind = "proof" /\ t.id = c
    BY <1>6 DEF CompletedBy, RenewedBy, CreatedBy, ProvedBy
  <2>3. t # u /\ Resolves(t) = c /\ Resolves(u) = c
    BY <2>1, <2>2 DEF Resolves
  <2>. QED  BY <2>3 DEF Blocks
<1>. QED  BY <1>3, <1>4, <1>5, <1>6 DEF CompletedBy

LEMMA LegalAppend ==
  ASSUME TypeOK, NEW ch, Legal(ch), NEW b \in Blocks(ch)
  PROVE  Legal(Append(ch, b)) /\ Len(Append(ch, b)) = Len(ch) + 1
<1>. DEFINE new == Append(ch, b)
<1>1. ch \in Seq(SUBSET Transaction) /\ b \in SUBSET Transaction
  BY BlockFacts DEF Legal
<1>2. /\ new \in Seq(SUBSET Transaction) /\ Len(new) = Len(ch) + 1 /\ Len(ch) \in Nat
      /\ new[Len(ch) + 1] = b /\ \A h \in 1..Len(ch) : new[h] = ch[h]
  BY <1>1
<1>. HIDE DEF new
<1>3. ASSUME NEW n \in 0..Len(ch)
      PROVE  /\ CreatedTo(new, n) = CreatedTo(ch, n)
             /\ CompletedTo(new, n) = CompletedTo(ch, n)
             /\ ExpiredTo(new, n) = ExpiredTo(ch, n)
  <2>1. \A h \in 1..n : new[h] = ch[h]
    BY <1>2
  <2>. QED  BY <2>1, SamePrefix
<1>4. ASSUME NEW h \in 1..Len(new)
      PROVE  /\ CreatedBy(new[h]) \subseteq Agreed \ CreatedTo(new, h - 1)
             /\ CompletedBy(new[h]) \cup ExpiredBy(new[h])
                  \subseteq CreatedTo(new, h - 1) \ (CompletedTo(new, h - 1) \cup ExpiredTo(new, h - 1))
             /\ CompletedBy(new[h]) \cap ExpiredBy(new[h]) = {}
  <2>0. h - 1 \in 0..Len(ch)
    BY <1>2
  <2>1. CASE h = Len(ch) + 1
    <3>1. h - 1 = Len(ch) /\ new[h] = b
      BY <1>2, <2>1
    <3>. QED  BY <1>1, <1>3, <2>0, <3>1, BlockFacts, WholeChain
  <2>2. CASE h # Len(ch) + 1
    <3>1. h \in 1..Len(ch) /\ new[h] = ch[h]
      BY <1>2, <2>2
    <3>. QED  BY <1>3, <2>0, <3>1 DEF Legal
  <2>. QED  BY <2>1, <2>2
<1>. QED  BY <1>2, <1>4 DEF Legal, new

LEMMA LegalPrefix ==
  ASSUME NEW ch, Legal(ch), NEW n \in 0..Len(ch)
  PROVE  Legal(SubSeq(ch, 1, n)) /\ Len(SubSeq(ch, 1, n)) = n
<1>. DEFINE new == SubSeq(ch, 1, n)
<1>1. ch \in Seq(SUBSET Transaction) /\ Len(ch) \in Nat
  BY DEF Legal
<1>2. new \in Seq(SUBSET Transaction) /\ Len(new) = n /\ \A h \in 1..n : new[h] = ch[h]
  BY <1>1
<1>. HIDE DEF new
<1>3. ASSUME NEW h \in 1..Len(new)
      PROVE  /\ CreatedBy(new[h]) \subseteq Agreed \ CreatedTo(new, h - 1)
             /\ CompletedBy(new[h]) \cup ExpiredBy(new[h])
                  \subseteq CreatedTo(new, h - 1) \ (CompletedTo(new, h - 1) \cup ExpiredTo(new, h - 1))
             /\ CompletedBy(new[h]) \cap ExpiredBy(new[h]) = {}
  <2>1. h \in 1..Len(ch) /\ new[h] = ch[h] /\ \A k \in 1..h - 1 : new[k] = ch[k]
    BY <1>1, <1>2
  <2>2. /\ CreatedTo(new, h - 1) = CreatedTo(ch, h - 1)
        /\ CompletedTo(new, h - 1) = CompletedTo(ch, h - 1)
        /\ ExpiredTo(new, h - 1) = ExpiredTo(ch, h - 1)
    BY <2>1, SamePrefix
  <2>. QED  BY <2>1, <2>2 DEF Legal
<1>. QED  BY <1>2, <1>3 DEF Legal, new

\* Extended is defined by recursion: its chains are legal, by induction.
LEMMA LegalExtended ==
  ASSUME TypeOK, NEW ch, Legal(ch), NEW n \in Nat, NEW new \in Extended(ch, n)
  PROVE  Legal(new) /\ Len(new) = Len(ch) + n
<1>. DEFINE More(X) == UNION {{Append(c, b) : b \in Blocks(c)} : c \in X}
            D == SUBSET {c \in Seq(SUBSET Transaction) : Legal(c)}
            step == [k \in 1..n |-> [X \in D |-> More(X)]]
            grown == CHOOSE g : g = [k \in 0..n |-> IF k = 0 THEN {ch} ELSE More(g[k - 1])]
<1>1. Extended(ch, n) = grown[n]
  BY DEF Extended
<1>2. ASSUME NEW X, NEW x \in More(X) PROVE \E c \in X : \E b \in Blocks(c) : x = Append(c, b)
  OBVIOUS
<1>. HIDE DEF More
<1>3. ASSUME NEW X \in D PROVE More(X) \in D
  <2>. SUFFICES ASSUME NEW x \in More(X) PROVE x \in Seq(SUBSET Transaction) /\ Legal(x)
    OBVIOUS
  <2>1. PICK c \in X : \E b \in Blocks(c) : x = Append(c, b)
    BY <1>2
  <2>2. Legal(x)
    BY <2>1, LegalAppend
  <2>. QED  BY <2>2 DEF Legal
<1>4. {ch} \in D
  BY DEF Legal
<1>. HIDE DEF D
<1>5. \A k \in 1..n : \A X \in D : step[k][X] \in D
  BY <1>3
<1>. HIDE DEF step
<1>6. PICK f : Iterates(f, n, D, {ch}, step)
  BY <1>4, <1>5, RecursiveFunctions
<1>7. ASSUME NEW k \in 0..n PROVE f[k] = IF k = 0 THEN {ch} ELSE More(f[k - 1])
  <2>. SUFFICES ASSUME k # 0 PROVE f[k] = More(f[k - 1])
    BY <1>6 DEF Iterates
  <2>1. k \in 1..n /\ k - 1 \in 0..n
    OBVIOUS
  <2>2. f[k] = step[k][f[k - 1]] /\ f[k - 1] \in D
    BY <1>6, <2>1 DEF Iterates
  <2>. QED  BY <2>1, <2>2 DEF step
<1>8. f = [k \in 0..n |-> IF k = 0 THEN {ch} ELSE More(f[k - 1])]
  BY <1>6, <1>7 DEF Iterates
<1>9. grown = [k \in 0..n |-> IF k = 0 THEN {ch} ELSE More(grown[k - 1])]
  BY <1>8
<1>. HIDE DEF grown
<1>. DEFINE P == {k \in Nat : k <= n => \A c \in grown[k] : Legal(c) /\ Len(c) = Len(ch) + k}
<1>10. Len(ch) \in Nat
  BY DEF Legal
<1>11. 0 \in P
  <2>1. grown[0] = {ch}
    BY <1>9
  <2>. QED  BY <1>10, <2>1
<1>12. ASSUME NEW k \in Nat, k \in P PROVE k + 1 \in P
  <2>. SUFFICES ASSUME k + 1 <= n, NEW x \in grown[k + 1]
                PROVE  Legal(x) /\ Len(x) = Len(ch) + (k + 1)
    OBVIOUS
  <2>1. k + 1 \in 0..n /\ k + 1 # 0 /\ (k + 1) - 1 = k /\ k <= n
    OBVIOUS
  <2>2. grown[k + 1] = More(grown[k])
    BY <1>9, <2>1
  <2>3. PICK c \in grown[k] : \E b \in Blocks(c) : x = Append(c, b)
    BY <1>2, <2>2
  <2>4. Legal(c) /\ Len(c) = Len(ch) + k
    BY <1>12, <2>1
  <2>5. Legal(x) /\ Len(x) = Len(c) + 1
    BY <2>3, <2>4, LegalAppend
  <2>. QED  BY <1>10, <2>4, <2>5
<1>13. n \in P
  <2>. HIDE DEF P
  <2>. QED  BY <1>11, <1>12, Induction
<1>. QED  BY <1>1, <1>13

-----------------------------------------------------------------------------
(* The database: what one block does to it *)

Rows == [Contracts -> Row \cup {None}]

\* The same contracts have rows, archived or not as before.
SameRows(r, s) ==
  \A c \in Contracts : /\ r[c] = None <=> s[c] = None
                       /\ r[c] # None => s[c].archived = r[c].archived

LEMMA KnownRow ==
  ASSUME NEW r \in Rows, NEW c \in Contracts
  PROVE  /\ c \in Known(r) <=> r[c] # None
         /\ r[c] # None => r[c] \in Row
BY DEF Rows, Known

LEMMA RevertRows ==
  ASSUME NEW db \in Database, NEW b
  PROVE  /\ Revert(db, b).row \in Rows
         /\ SameRows(db.row, Revert(db, b).row)
         /\ \A c \in Known(db.row) :
              /\ Revert(db, b).row[c].from = db.row[c].from
              /\ Revert(db, b).row[c].to = db.row[c].to
              /\ Revert(db, b).row[c].state = IF c \in CreatedBy(b) THEN "pending"
                                              ELSE IF c \in TouchedBy(b) THEN "active"
                                              ELSE db.row[c].state
<1>. DEFINE r == db.row
            known == TouchedBy(b) \cap Known(r)
            created == CreatedBy(b) \cap known
            s == [c \in Contracts |-> IF c \in created THEN [r[c] EXCEPT !.state = "pending"]
                                      ELSE IF c \in known THEN [r[c] EXCEPT !.state = "active"]
                                      ELSE r[c]]
<1>1. Revert(db, b).row = s
  BY DEF Revert
<1>2. r \in Rows
  BY DEF Database, Rows
<1>3. \A c \in Known(r) : c \in CreatedBy(b) => c \in created
  BY DEF TouchedBy
<1>4. \A c \in Known(r) : c \in Contracts /\ r[c] \in Row /\ r[c] # None
  BY <1>2, KnownRow DEF Known
<1>5. ASSUME NEW c \in Known(r)
      PROVE  /\ s[c] \in Row /\ s[c].archived = r[c].archived
             /\ s[c].from = r[c].from /\ s[c].to = r[c].to
             /\ s[c].state = IF c \in CreatedBy(b) THEN "pending"
                             ELSE IF c \in TouchedBy(b) THEN "active" ELSE r[c].state
  BY <1>3, <1>4 DEF Row
<1>6. ASSUME NEW c \in Contracts, c \notin Known(r) PROVE s[c] = None /\ r[c] = None
  BY <1>6 DEF Known
<1>7. s \in Rows
  <2>1. \A c \in Contracts : s[c] \in Row \cup {None}
    <3>. HIDE DEF s
    <3>. QED  BY <1>5, <1>6
  <2>. QED  BY <2>1 DEF Rows
<1>8. SameRows(r, s)
  <2>. HIDE DEF s, r
  <2>. QED  BY <1>4, <1>5, <1>6, RowAssumption DEF SameRows
<1>. HIDE DEF s
<1>. QED  BY <1>1, <1>5, <1>7, <1>8

LEMMA RevertElements1 ==
  ASSUME NEW db \in Database, NEW b
  PROVE  /\ Revert(db, b).element \in [Contracts -> 0..MaxContracts]
         /\ \A c \in Contracts \ Known(db.row) : Revert(db, b).element[c] = db.element[c]
         /\ \A c \in Known(db.row) :
              Revert(db, b).element[c] =
                IF c \in CreatedBy(b) THEN 0
                ELSE IF c \in TouchedBy(b) /\ db.element[c] = 0 THEN c ELSE db.element[c]
<1>. DEFINE known == TouchedBy(b) \cap Known(db.row)
            created == CreatedBy(b) \cap known
            e == [c \in Contracts |-> IF c \in created THEN 0 ELSE db.element[c]]
            f == Upserted(e, known \ created)
<1>1. Revert(db, b).element = f
  BY DEF Revert
<1>2. db.element \in [Contracts -> 0..MaxContracts]
  BY DEF Database
<1>3. \A c \in Contracts : c \in 0..MaxContracts /\ c # 0 /\ 0 \in 0..MaxContracts
  BY Numbers DEF Contracts
<1>4. \A c \in Contracts : f[c] = IF c \in known \ created /\ e[c] = 0 THEN c ELSE e[c]
  BY DEF Upserted
<1>5. \A c \in Contracts : e[c] = IF c \in created THEN 0 ELSE db.element[c]
  OBVIOUS
<1>6. f \in [Contracts -> 0..MaxContracts]
  BY <1>2, <1>3 DEF Upserted
<1>7. Known(db.row) \subseteq Contracts /\ CreatedBy(b) \subseteq TouchedBy(b)
  BY DEF Known, TouchedBy
<1>. HIDE DEF e, f
<1>. QED  BY <1>1, <1>4, <1>5, <1>6, <1>7

\* What a block does, when ch is legal: what it resolves was created and open, what
\* it creates was not there.
LEMMA RevertConsistent ==
  ASSUME NEW ch, Legal(ch), NEW n \in 1..Len(ch), NEW top,
         NEW db, Consistent(db, ch, n, top)
  PROVE  /\ Consistent(Revert(db, ch[n]), ch, n - 1, top)
         /\ SameRows(db.row, Revert(db, ch[n]).row)
<1>. DEFINE b == ch[n]
            r == db.row
            e == db.element
            s == Revert(db, b).row
            f == Revert(db, b).element
<1>0. Len(ch) \in Nat
  BY DEF Legal
<1>1. db \in Database /\ r \in Rows
  BY DEF Consistent, Database, Rows
<1>2. /\ s \in Rows /\ SameRows(r, s)
      /\ \A c \in Known(r) : /\ s[c].from = r[c].from /\ s[c].to = r[c].to
                             /\ s[c].state = IF c \in CreatedBy(b) THEN "pending"
                                             ELSE IF c \in TouchedBy(b) THEN "active"
                                             ELSE r[c].state
  BY <1>1, RevertRows
<1>3. /\ f \in [Contracts -> 0..MaxContracts]
      /\ \A c \in Contracts \ Known(r) : f[c] = e[c]
      /\ \A c \in Known(r) : f[c] = IF c \in CreatedBy(b) THEN 0
                                    ELSE IF c \in TouchedBy(b) /\ e[c] = 0 THEN c ELSE e[c]
  BY <1>1, RevertElements1
<1>4. Known(s) = Known(r) /\ Known(r) \subseteq Contracts
      /\ \A c \in Known(r) : s[c].archived = r[c].archived
  BY <1>2 DEF SameRows, Known
<1>5. Revert(db, b) = [row |-> s, element |-> f]
  BY DEF Revert
<1>. DEFINE C == CreatedTo(ch, n - 1)
            D == CompletedTo(ch, n - 1)
            E == ExpiredTo(ch, n - 1)
<1>6. /\ CreatedTo(ch, n) = C \cup CreatedBy(b)
      /\ CompletedTo(ch, n) = D \cup CompletedBy(b)
      /\ ExpiredTo(ch, n) = E \cup ExpiredBy(b)
  <2>1. n - 1 \in Nat /\ (n - 1) + 1 = n
    BY <1>0
  <2>. QED  BY <2>1, NextPrefix
<1>7. /\ CreatedBy(b) \cap C = {}
      /\ CompletedBy(b) \cup ExpiredBy(b) \subseteq C \ (D \cup E)
  BY DEF Legal
<1>8. TouchedBy(b) = CreatedBy(b) \cup CompletedBy(b) \cup ExpiredBy(b)
  BY DEF TouchedBy, CompletedBy
<1>9. \A c \in Contracts : c # 0
  BY DEF Contracts
<1>. HIDE DEF r, e, s, f, C, D, E
<1>10. Links(s)
  BY <1>2, <1>4 DEF Consistent, Links, r
<1>11. StatesAt(s, ch, n - 1, top)
  <2>. SUFFICES ASSUME NEW c \in Known(r) \ late PROVE StateAt(c, s[c].state, ch, n - 1, top)
    BY <1>4 DEF StatesAt
  <2>1. StateAt(c, r[c].state, ch, n, top)
    BY DEF Consistent, StatesAt, r
  <2>2. CASE c \in CreatedBy(b)
    BY <1>2, <1>7, <2>2 DEF StateAt, C
  <2>3. CASE c \notin CreatedBy(b) /\ c \in TouchedBy(b)
    BY <1>2, <1>7, <1>8, <2>3 DEF StateAt, C, D, E
  <2>4. CASE c \notin TouchedBy(b)
    BY <1>2, <1>6, <1>8, <2>1, <2>4 DEF StateAt, C, D, E
  <2>. QED  BY <2>2, <2>3, <2>4
<1>12. ElementsAt(s, f, ch, n - 1, top)
  <2>0. ElementsAt(r, e, ch, n, top)
    BY DEF Consistent, r, e
  <2>1. \A c \in Contracts \ Known(s) : f[c] = 0
    BY <1>3, <1>4, <2>0 DEF ElementsAt
  <2>2. \A c \in Known(s) : f[c] \in {0, c} \/ From(c) # 0
    BY <1>3, <1>4, <2>0 DEF ElementsAt
  <2>3. ASSUME NEW c \in Known(s) \ late, s[c].archived = "no", OpenAt(c, ch, n - 1),
               WindowEnd(c) >= top - PruneWindow
        PROVE  f[c] # 0
    <3>1. c \notin CreatedBy(b) /\ r[c].archived = "no" /\ c \in Known(r) \ late
      BY <1>4, <1>7, <2>3 DEF OpenAt, C
    <3>2. CASE c \in TouchedBy(b)
      BY <1>3, <1>4, <1>9, <3>1, <3>2
    <3>3. CASE c \notin TouchedBy(b)
      <4>1. OpenAt(c, ch, n)
        BY <1>6, <1>8, <2>3, <3>3 DEF OpenAt, C, D, E
      <4>. QED  BY <1>3, <2>0, <2>3, <3>1, <3>3, <4>1 DEF ElementsAt
    <3>. QED  BY <3>2, <3>3
  <2>. QED  BY <2>1, <2>2, <2>3 DEF ElementsAt
<1>. QED  BY <1>2, <1>3, <1>5, <1>10, <1>11, <1>12 DEF Consistent, Database, Rows, r, s

LEMMA AppliedRows ==
  ASSUME NEW r \in Rows, NEW b
  PROVE  /\ Applied(r, b) \in Rows
         /\ SameRows(r, Applied(r, b))
         /\ \A c \in Known(r) :
              /\ Applied(r, b)[c].from = r[c].from
              /\ Applied(r, b)[c].to = r[c].to
              /\ Applied(r, b)[c].state = IF c \in CompletedBy(b) THEN "complete"
                                          ELSE IF c \in ExpiredBy(b) THEN "failed"
                                          ELSE IF c \in CreatedBy(b) THEN "active"
                                          ELSE r[c].state
<1>. DEFINE s == Applied(r, b)
<1>1. \A c \in Known(r) : c \in Contracts /\ r[c] \in Row /\ r[c] # None
  BY KnownRow DEF Known
<1>2. ASSUME NEW c \in Known(r)
      PROVE  /\ s[c] \in Row /\ s[c].archived = r[c].archived
             /\ s[c].from = r[c].from /\ s[c].to = r[c].to
             /\ s[c].state = IF c \in CompletedBy(b) THEN "complete"
                             ELSE IF c \in ExpiredBy(b) THEN "failed"
                             ELSE IF c \in CreatedBy(b) THEN "active" ELSE r[c].state
  BY <1>1 DEF Applied, Row, CompletedBy
<1>3. ASSUME NEW c \in Contracts, c \notin Known(r) PROVE s[c] = None /\ r[c] = None
  BY <1>3 DEF Known, Applied
<1>4. s \in Rows
  <2>1. s = [c \in Contracts |-> s[c]]
    BY DEF Applied
  <2>2. \A c \in Contracts : s[c] \in Row \cup {None}
    <3>. HIDE DEF s
    <3>. QED  BY <1>2, <1>3
  <2>. HIDE DEF s
  <2>. QED  BY <2>1, <2>2 DEF Rows
<1>. HIDE DEF s
<1>5. SameRows(r, s)
  BY <1>1, <1>2, <1>3, RowAssumption DEF SameRows
<1>. QED  BY <1>2, <1>4, <1>5 DEF s

\* What Linked writes is the contract's own renewal and renewed contract.
LEMMA LinkedRows ==
  ASSUME TypeOK, NEW r \in Rows, Known(r) \subseteq Agreed,
         NEW old, \A c \in old : \E d \in Agreed : From(d) = c
  PROVE  /\ Linked(r, old) \in Rows
         /\ SameRows(r, Linked(r, old))
         /\ \A c \in Known(r) :
              /\ Linked(r, old)[c].state = r[c].state
              /\ Linked(r, old)[c].from \in {r[c].from, From(c)}
              /\ Linked(r, old)[c].to = r[c].to \/ \E d \in Agreed :
                                                     From(d) = c /\ Linked(r, old)[c].to = d
<1>. DEFINE s == Linked(r, old)
            heir(c) == CHOOSE d \in Agreed : From(d) = c
<1>1. \A c \in Known(r) : c \in Contracts /\ r[c] \in Row /\ r[c] # None /\ From(c) \in 0..MaxContracts
  BY KnownRow, Ranges DEF Known
<1>2. ASSUME NEW c \in old PROVE heir(c) \in Agreed /\ From(heir(c)) = c /\ heir(c) \in 0..MaxContracts
  <2>1. heir(c) \in Agreed /\ From(heir(c)) = c
    OBVIOUS
  <2>. QED  BY <2>1, Ranges, Numbers DEF Contracts
<1>3. \A c \in Contracts :
        s[c] = IF r[c] = None THEN None
               ELSE [r[c] EXCEPT !.to = IF c \in old THEN heir(c) ELSE @,
                                 !.from = IF From(c) \in old THEN From(c) ELSE @]
  BY DEF Linked
<1>. HIDE DEF heir
<1>4. ASSUME NEW c \in Known(r)
      PROVE  /\ s[c] \in Row /\ s[c].archived = r[c].archived /\ s[c].state = r[c].state
             /\ s[c].from \in {r[c].from, From(c)}
             /\ s[c].to = IF c \in old THEN heir(c) ELSE r[c].to
  <2>. DEFINE to == IF c \in old THEN heir(c) ELSE r[c].to
              from == IF From(c) \in old THEN From(c) ELSE r[c].from
  <2>1. s[c] = [r[c] EXCEPT !.to = to, !.from = from]
    BY <1>1, <1>3
  <2>2. r[c] \in Row /\ r[c].to \in 0..MaxContracts /\ r[c].from \in 0..MaxContracts
    BY <1>1 DEF Row
  <2>3. /\ to \in 0..MaxContracts /\ from \in 0..MaxContracts
        /\ from \in {r[c].from, From(c)}
    BY <1>1, <1>2, <2>2
  <2>. HIDE DEF s, to, from
  <2>4. /\ s[c] \in Row /\ s[c].archived = r[c].archived /\ s[c].state = r[c].state
        /\ s[c].from = from /\ s[c].to = to
    BY <2>1, <2>2, <2>3 DEF Row
  <2>. QED  BY <2>3, <2>4 DEF to
<1>5. ASSUME NEW c \in Contracts, c \notin Known(r) PROVE s[c] = None /\ r[c] = None
  BY <1>3, <1>5 DEF Known
<1>6. s \in Rows
  <2>1. s = [c \in Contracts |-> s[c]]
    BY DEF Linked
  <2>. HIDE DEF s
  <2>2. \A c \in Contracts : s[c] \in Row \cup {None}
    BY <1>4, <1>5
  <2>. QED  BY <2>1, <2>2 DEF Rows
<1>. HIDE DEF s
<1>7. SameRows(r, s)
  BY <1>1, <1>4, <1>5, RowAssumption DEF SameRows
<1>8. ASSUME NEW c \in Known(r)
      PROVE  s[c].to = r[c].to \/ \E d \in Agreed : From(d) = c /\ s[c].to = d
  BY <1>2, <1>4
<1>. QED  BY <1>4, <1>6, <1>7, <1>8 DEF s

LEMMA FailedRows ==
  ASSUME NEW r \in Rows, NEW threshold
  PROVE  /\ Failed(r, threshold) \in Rows
         /\ SameRows(r, Failed(r, threshold))
         /\ \A c \in Known(r) :
              /\ Failed(r, threshold)[c].from = r[c].from
              /\ Failed(r, threshold)[c].to = r[c].to
              /\ Failed(r, threshold)[c].state =
                   IF r[c].state = "active" /\ WindowEnd(c) <= threshold THEN "failed"
                   ELSE r[c].state
<1>. DEFINE s == Failed(r, threshold)
<1>1. \A c \in Known(r) : c \in Contracts /\ r[c] \in Row /\ r[c] # None
  BY KnownRow DEF Known
<1>2. ASSUME NEW c \in Known(r)
      PROVE  /\ s[c] \in Row /\ s[c].archived = r[c].archived
             /\ s[c].from = r[c].from /\ s[c].to = r[c].to
             /\ s[c].state = IF r[c].state = "active" /\ WindowEnd(c) <= threshold THEN "failed"
                             ELSE r[c].state
  BY <1>1 DEF Failed, Row
<1>3. ASSUME NEW c \in Contracts, c \notin Known(r) PROVE s[c] = None /\ r[c] = None
  BY <1>3 DEF Known, Failed
<1>4. s \in Rows
  <2>1. s = [c \in Contracts |-> s[c]]
    BY DEF Failed
  <2>. HIDE DEF s
  <2>2. \A c \in Contracts : s[c] \in Row \cup {None}
    BY <1>2, <1>3
  <2>. QED  BY <2>1, <2>2 DEF Rows
<1>. HIDE DEF s
<1>5. SameRows(r, s)
  BY <1>1, <1>2, <1>3, RowAssumption DEF SameRows
<1>. QED  BY <1>2, <1>4, <1>5 DEF s

\* The whole of applyChainUpdate.
LEMMA ApplyRows ==
  ASSUME TypeOK, NEW db \in Database, Known(db.row) \subseteq Agreed,
         NEW b, CreatedBy(b) \subseteq Agreed, NEW h \in Nat
  PROVE  /\ Apply(db, b, h).row \in Rows
         /\ SameRows(db.row, Apply(db, b, h).row)
         /\ \A c \in Known(db.row) :
              /\ Apply(db, b, h).row[c].from \in {db.row[c].from, From(c)}
              /\ \/ Apply(db, b, h).row[c].to = db.row[c].to
                 \/ \E d \in Agreed : From(d) = c /\ Apply(db, b, h).row[c].to = d
              /\ LET s == IF c \in CompletedBy(b) THEN "complete"
                          ELSE IF c \in ExpiredBy(b) THEN "failed"
                          ELSE IF c \in CreatedBy(b) THEN "active"
                          ELSE db.row[c].state
                 IN \/ Apply(db, b, h).row[c].state = s
                    \/ /\ s = "active" /\ Apply(db, b, h).row[c].state = "failed"
                       /\ WindowEnd(c) <= h - PruneWindow
<1>. DEFINE old == RenewedBy(b) \cap Known(db.row)
            r1 == Applied(db.row, b)
            r2 == Linked(r1, old)
            r3 == Failed(r2, h - PruneWindow)
<1>1. db.row \in Rows
  BY DEF Database, Rows
<1>2. /\ r1 \in Rows /\ SameRows(db.row, r1)
      /\ \A c \in Known(db.row) :
           /\ r1[c].from = db.row[c].from /\ r1[c].to = db.row[c].to
           /\ r1[c].state = IF c \in CompletedBy(b) THEN "complete"
                            ELSE IF c \in ExpiredBy(b) THEN "failed"
                            ELSE IF c \in CreatedBy(b) THEN "active" ELSE db.row[c].state
  BY <1>1, AppliedRows
<1>3. Known(r1) = Known(db.row)
  BY <1>2 DEF SameRows, Known
<1>4. \A c \in old : \E d \in Agreed : From(d) = c
  BY DEF RenewedBy
<1>. HIDE DEF old, r1
<1>5. /\ r2 \in Rows /\ SameRows(r1, r2)
      /\ \A c \in Known(r1) :
           /\ r2[c].state = r1[c].state /\ r2[c].from \in {r1[c].from, From(c)}
           /\ r2[c].to = r1[c].to \/ \E d \in Agreed : From(d) = c /\ r2[c].to = d
  BY <1>2, <1>3, <1>4, LinkedRows
<1>6. Known(r2) = Known(r1)
  BY <1>5 DEF SameRows, Known
<1>. HIDE DEF r2
<1>7. /\ r3 \in Rows /\ SameRows(r2, r3)
      /\ \A c \in Known(r2) :
           /\ r3[c].from = r2[c].from /\ r3[c].to = r2[c].to
           /\ r3[c].state = IF r2[c].state = "active" /\ WindowEnd(c) <= h - PruneWindow
                            THEN "failed" ELSE r2[c].state
  BY <1>5, FailedRows
<1>. HIDE DEF r3
<1>8. SameRows(db.row, r2) /\ SameRows(db.row, r3)
  BY <1>2, <1>5, <1>7 DEF SameRows
<1>9. Apply(db, b, h).row = IF h > PruneWindow THEN r3 ELSE r2
  BY DEF Apply, r1, r2, r3, old
<1>. QED  BY <1>2, <1>3, <1>5, <1>6, <1>7, <1>8, <1>9

LEMMA ApplyElements ==
  ASSUME NEW db \in Database, NEW b, NEW h \in Nat,
         SameRows(db.row, Apply(db, b, h).row), Known(db.row) \subseteq Agreed, TypeOK
  PROVE  /\ Apply(db, b, h).element \in [Contracts -> 0..MaxContracts]
         /\ \A c \in Contracts \ Known(db.row) : Apply(db, b, h).element[c] = db.element[c]
         /\ \A c \in Known(db.row) :
              \/ Apply(db, b, h).element[c] = IF c \in TouchedBy(b) /\ db.element[c] = 0
                                              THEN c ELSE db.element[c]
              \/ Apply(db, b, h).element[c] = 0 /\ WindowEnd(c) < h - PruneWindow
<1>. DEFINE known == TouchedBy(b) \cap Known(db.row)
            r == Linked(Applied(db.row, b), RenewedBy(b) \cap Known(db.row))
            e == Upserted(db.element, known)
            f == Pruned(e, r, h - PruneWindow)
<1>1. Apply(db, b, h).element = IF h > PruneWindow THEN f ELSE e
  BY DEF Apply
<1>2. db.element \in [Contracts -> 0..MaxContracts]
  BY DEF Database
<1>3. \A c \in Contracts : c \in 0..MaxContracts /\ 0 \in 0..MaxContracts
  BY Numbers DEF Contracts
<1>4. e \in [Contracts -> 0..MaxContracts]
  BY <1>2, <1>3 DEF Upserted
<1>5. \A c \in Contracts : e[c] = IF c \in known /\ db.element[c] = 0 THEN c ELSE db.element[c]
  BY DEF Upserted
<1>6. \A c \in Contracts : db.row[c] = None => r[c] = None
  BY DEF Linked, Applied
<1>. HIDE DEF e, r
<1>7. f \in [Contracts -> 0..MaxContracts]
  BY <1>3, <1>4 DEF Pruned
<1>8. \A c \in Contracts :
        f[c] = IF r[c] # None /\ WindowEnd(c) < h - PruneWindow THEN 0 ELSE e[c]
  BY DEF Pruned
<1>9. \A c \in Contracts : c \notin Known(db.row) => r[c] = None
  BY <1>6 DEF Known
<1>10. Known(db.row) \subseteq Contracts
  BY DEF Known
<1>. HIDE DEF f
<1>. QED  BY <1>1, <1>4, <1>5, <1>7, <1>8, <1>9, <1>10

LEMMA ApplyConsistent ==
  ASSUME TypeOK, \A c, d \in Agreed : From(c) = From(d) /\ From(c) # 0 => c = d,
         NEW ch, Legal(ch), NEW n \in 1..Len(ch), NEW top \in Nat,
         NEW db, Consistent(db, ch, n - 1, top), Known(db.row) \subseteq Agreed
  PROVE  /\ Consistent(Apply(db, ch[n], n), ch, n, Max({top, n}))
         /\ SameRows(db.row, Apply(db, ch[n], n).row)
<1>. DEFINE b == ch[n]
            r == db.row
            e == db.element
            s == Apply(db, b, n).row
            f == Apply(db, b, n).element
            top1 == Max({top, n})
<1>0. Len(ch) \in Nat /\ n \in Nat
  BY DEF Legal
<1>1. db \in Database /\ r \in Rows
  BY DEF Consistent, Database, Rows
<1>. DEFINE C == CreatedTo(ch, n - 1)
            D == CompletedTo(ch, n - 1)
            E == ExpiredTo(ch, n - 1)
<1>2. /\ CreatedTo(ch, n) = C \cup CreatedBy(b)
      /\ CompletedTo(ch, n) = D \cup CompletedBy(b)
      /\ ExpiredTo(ch, n) = E \cup ExpiredBy(b)
  <2>1. n - 1 \in Nat /\ (n - 1) + 1 = n
    BY <1>0
  <2>. QED  BY <2>1, NextPrefix
<1>3. /\ CreatedBy(b) \subseteq Agreed \ C
      /\ CompletedBy(b) \cup ExpiredBy(b) \subseteq C \ (D \cup E)
      /\ CompletedBy(b) \cap ExpiredBy(b) = {}
  BY DEF Legal
<1>4. /\ s \in Rows /\ SameRows(r, s)
      /\ \A c \in Known(r) :
           /\ s[c].from \in {r[c].from, From(c)}
           /\ s[c].to = r[c].to \/ \E d \in Agreed : From(d) = c /\ s[c].to = d
           /\ LET t == IF c \in CompletedBy(b) THEN "complete"
                       ELSE IF c \in ExpiredBy(b) THEN "failed"
                       ELSE IF c \in CreatedBy(b) THEN "active" ELSE r[c].state
              IN \/ s[c].state = t
                 \/ t = "active" /\ s[c].state = "failed" /\ WindowEnd(c) <= n - PruneWindow
  <2>1. CreatedBy(b) \subseteq Agreed
    BY <1>3
  <2>. QED  BY <1>0, <1>1, <2>1, ApplyRows
<1>5. /\ f \in [Contracts -> 0..MaxContracts]
      /\ \A c \in Contracts \ Known(r) : f[c] = e[c]
      /\ \A c \in Known(r) : \/ f[c] = IF c \in TouchedBy(b) /\ e[c] = 0 THEN c ELSE e[c]
                             \/ f[c] = 0 /\ WindowEnd(c) < n - PruneWindow
  BY <1>0, <1>1, <1>4, ApplyElements
<1>6. /\ Known(s) = Known(r) /\ Known(r) \subseteq Contracts
      /\ \A c \in Known(r) : s[c].archived = r[c].archived
  BY <1>4 DEF SameRows, Known
<1>7. Apply(db, b, n) = [row |-> s, element |-> f]
  BY DEF Apply
<1>8. TouchedBy(b) = CreatedBy(b) \cup CompletedBy(b) \cup ExpiredBy(b)
  BY DEF TouchedBy, CompletedBy
<1>9. \A c \in Contracts : c # 0
  BY DEF Contracts
<1>10. top1 \in Nat /\ top <= top1 /\ n <= top1
  <2>1. top1 = IF top <= n THEN n ELSE top
    BY <1>0, OfTwo
  <2>. HIDE DEF top1
  <2>. QED  BY <1>0, <2>1
<1>11. \A c \in Known(r) : WindowEnd(c) \in Nat
  BY Ranges
<1>. HIDE DEF r, e, s, f, C, D, E, top1
<1>12. Links(s)
  <2>. SUFFICES ASSUME NEW c \in Known(r), From(c) # 0
                PROVE  /\ s[c].from = From(c) /\ From(c) \in Known(r)
                       /\ s[From(c)].to = c /\ s[From(c)].archived # "no"
    BY <1>6 DEF Links
  <2>1. /\ r[c].from = From(c) /\ From(c) \in Known(r)
        /\ r[From(c)].to = c /\ r[From(c)].archived # "no"
    BY DEF Consistent, Links, r
  <2>2. s[From(c)].to = c
    <3>1. CASE s[From(c)].to = r[From(c)].to
      BY <2>1, <3>1
    <3>2. CASE \E d \in Agreed : From(d) = From(c) /\ s[From(c)].to = d
      BY <2>1, <3>2 DEF r
    <3>. QED  BY <1>4, <2>1, <3>1, <3>2
  <2>. QED  BY <1>4, <1>6, <2>1, <2>2
<1>13. StatesAt(s, ch, n, top1)
  <2>. SUFFICES ASSUME NEW c \in Known(r) \ late PROVE StateAt(c, s[c].state, ch, n, top1)
    BY <1>6 DEF StatesAt
  <2>1. StateAt(c, r[c].state, ch, n - 1, top)
    BY DEF Consistent, StatesAt, r
  <2>2. /\ WindowEnd(c) <= top - PruneWindow => WindowEnd(c) <= top1 - PruneWindow
        /\ WindowEnd(c) <= n - PruneWindow => WindowEnd(c) <= top1 - PruneWindow
    BY <1>0, <1>10, <1>11, Numbers
  <2>3. CASE c \in CreatedBy(b)
    <3>1. D \cup E \subseteq C
      <4>1. n - 1 \in 0..Len(ch)
        BY <1>0
      <4>. QED  BY <4>1, ResolvedWereCreated DEF C, D, E
    <3>2. /\ c \in CreatedTo(ch, n) /\ c \notin CompletedTo(ch, n) /\ c \notin ExpiredTo(ch, n)
          /\ c \notin CompletedBy(b) /\ c \notin ExpiredBy(b)
      BY <1>2, <1>3, <2>3, <3>1
    <3>. QED  BY <1>4, <2>2, <2>3, <3>2 DEF StateAt
  <2>4. CASE c \in CompletedBy(b)
    BY <1>2, <1>3, <1>4, <2>2, <2>4 DEF StateAt, C, D, E
  <2>5. CASE c \in ExpiredBy(b)
    BY <1>2, <1>3, <1>4, <2>2, <2>5 DEF StateAt, C, D, E
  <2>6. CASE c \notin CreatedBy(b) /\ c \notin CompletedBy(b) /\ c \notin ExpiredBy(b)
    <3>1. \/ s[c].state = r[c].state
          \/ r[c].state = "active" /\ s[c].state = "failed" /\ WindowEnd(c) <= top1 - PruneWindow
      BY <1>4, <2>2, <2>6
    <3>2. /\ c \in CreatedTo(ch, n) <=> c \in CreatedTo(ch, n - 1)
          /\ c \in CompletedTo(ch, n) <=> c \in CompletedTo(ch, n - 1)
          /\ c \in ExpiredTo(ch, n) <=> c \in ExpiredTo(ch, n - 1)
      BY <1>2, <2>6 DEF C, D, E
    <3>. QED  BY <2>1, <2>2, <3>1, <3>2 DEF StateAt
  <2>. QED  BY <2>3, <2>4, <2>5, <2>6
<1>14. ElementsAt(s, f, ch, n, top1)
  <2>0. ElementsAt(r, e, ch, n - 1, top)
    BY DEF Consistent, r, e
  <2>1. \A c \in Contracts \ Known(s) : f[c] = 0
    BY <1>5, <1>6, <2>0 DEF ElementsAt
  <2>2. \A c \in Known(s) : f[c] \in {0, c} \/ From(c) # 0
    BY <1>5, <1>6, <2>0 DEF ElementsAt
  <2>3. ASSUME NEW c \in Known(s) \ late, s[c].archived = "no", OpenAt(c, ch, n),
               WindowEnd(c) >= top1 - PruneWindow
        PROVE  f[c] # 0
    <3>1. r[c].archived = "no" /\ c \in Known(r) \ late
      BY <1>6, <2>3
    <3>2. WindowEnd(c) >= top - PruneWindow /\ ~(WindowEnd(c) < n - PruneWindow)
      BY <1>0, <1>10, <1>11, <2>3, <3>1, Numbers
    <3>3. f[c] = IF c \in TouchedBy(b) /\ e[c] = 0 THEN c ELSE e[c]
      BY <1>5, <3>1, <3>2
    <3>4. CASE c \in TouchedBy(b)
      BY <1>6, <1>9, <3>1, <3>3, <3>4
    <3>5. CASE c \notin TouchedBy(b)
      <4>1. OpenAt(c, ch, n - 1)
        BY <1>2, <1>8, <2>3, <3>5 DEF OpenAt, C, D, E
      <4>. QED  BY <2>0, <3>1, <3>2, <3>3, <3>5, <4>1 DEF ElementsAt
    <3>. QED  BY <3>4, <3>5
  <2>. QED  BY <2>1, <2>2, <2>3 DEF ElementsAt
<1>. QED  BY <1>4, <1>5, <1>7, <1>12, <1>13, <1>14 DEF Consistent, Database, Rows, r, s, top1

-----------------------------------------------------------------------------
(* The subscriber's transaction: a number of blocks reverted, a number     *)
(* applied                                                                 *)

LEMMA CommonFacts ==
  ASSUME NEW S, NEW a \in Seq(S), NEW b \in Seq(S)
  PROVE  /\ Common(a, b) \in Nat /\ Common(a, b) <= Len(a) /\ Common(a, b) <= Len(b)
         /\ \A h \in 1..Common(a, b) : a[h] = b[h]
<1>. DEFINE m == Min({Len(a), Len(b)})
            N == {n \in 0..m : SubSeq(a, 1, n) = SubSeq(b, 1, n)}
<1>1. m \in Nat /\ m <= Len(a) /\ m <= Len(b)
  <2>1. Len(a) \in Nat /\ Len(b) \in Nat
    OBVIOUS
  <2>2. m = IF Len(a) <= Len(b) THEN Len(a) ELSE Len(b)
    BY <2>1, OfTwo
  <2>. HIDE DEF m
  <2>. QED  BY <2>1, <2>2
<1>2. Common(a, b) = Max(N)
  BY DEF Common
<1>3. 0 \in N
  <2>1. SubSeq(a, 1, 0) = <<>> /\ SubSeq(b, 1, 0) = <<>>
    BY SubSeqEmpty
  <2>. QED  BY <1>1, <2>1
<1>. HIDE DEF m
<1>4. N \subseteq 0..m /\ N # {}
  BY <1>3
<1>5. \A n \in N : n \in 0..m /\ SubSeq(a, 1, n) = SubSeq(b, 1, n)
  OBVIOUS
<1>. HIDE DEF N
<1>6. Max(N) \in N
  BY <1>1, <1>4, GreatestUpTo
<1>. DEFINE k == Max(N)
<1>. HIDE DEF k
<1>7. k \in 0..m /\ SubSeq(a, 1, k) = SubSeq(b, 1, k)
  BY <1>5, <1>6 DEF k
<1>8. ASSUME NEW h \in 1..k PROVE a[h] = b[h]
  <2>1. SubSeq(a, 1, k)[h] = a[h] /\ SubSeq(b, 1, k)[h] = b[h]
    BY <1>1, <1>7
  <2>. QED  BY <1>7, <2>1
<1>. QED  BY <1>1, <1>2, <1>7, <1>8 DEF k

\* The blocks of a batch: as many are kept as both chains have in common, or no
\* block is applied.
LEMMA Batches ==
  ASSUME Legal(seen), Legal(chain)
  PROVE  /\ Reverts \in 0..Len(seen) /\ Applies \in Nat
         /\ LET kept == Len(seen) - Reverts IN
            /\ kept \in 0..Len(seen)
            /\ Applies # 0 => /\ kept + Applies \in 0..Len(chain)
                              /\ \A h \in 1..kept : seen[h] = chain[h]
<1>. DEFINE n == Common(seen, chain)
<1>1. /\ seen \in Seq(SUBSET Transaction) /\ chain \in Seq(SUBSET Transaction)
      /\ Len(seen) \in Nat /\ Len(chain) \in Nat
  BY DEF Legal
<1>2. n \in Nat /\ n <= Len(seen) /\ n <= Len(chain) /\ \A h \in 1..n : seen[h] = chain[h]
  BY <1>1, CommonFacts
<1>. HIDE DEF n
<1>3. Len(seen) - n \in Nat /\ Len(chain) - n \in Nat /\ Batch \in Nat
  BY <1>1, <1>2, Numbers
<1>4. Reverts = IF Len(seen) - n <= Batch THEN Len(seen) - n ELSE Batch
  BY <1>3, OfTwo DEF Reverts, n
<1>5. Batch - Reverts \in Nat
  BY <1>3, <1>4
<1>6. Applies = IF Len(chain) - n <= Batch - Reverts THEN Len(chain) - n ELSE Batch - Reverts
  BY <1>3, <1>5, OfTwo DEF Applies, n
<1>7. Reverts \in 0..Len(seen) /\ Applies \in Nat
  BY <1>1, <1>2, <1>3, <1>4, <1>5, <1>6
<1>8. ASSUME Applies # 0
      PROVE  /\ Len(seen) - Reverts = n
             /\ n + Applies \in 0..Len(chain)
  <2>1. Batch - Reverts # 0
    BY <1>3, <1>5, <1>6, <1>8
  <2>2. Reverts = Len(seen) - n
    BY <1>3, <1>4, <2>1
  <2>. QED  BY <1>1, <1>2, <1>3, <1>5, <1>6, <2>2
<1>. QED  BY <1>1, <1>2, <1>7, <1>8

LEMMA NewSeen ==
  ASSUME Legal(seen), Legal(chain), ProcessUpdates
  PROVE  LET kept == Len(seen) - Reverts IN
         /\ Legal(seen') /\ Len(seen') = kept + Applies
         /\ \A h \in 1..kept : seen'[h] = seen[h]
         /\ Applies # 0 => \A h \in 1..kept + Applies : seen'[h] = chain[h]
<1>. DEFINE kept == Len(seen) - Reverts
<1>1. seen' = SubSeq(seen, 1, kept) \o SubSeq(chain, kept + 1, kept + Applies)
  BY DEF ProcessUpdates
<1>2. /\ kept \in 0..Len(seen) /\ Applies \in Nat /\ Len(seen) \in Nat /\ Len(chain) \in Nat
      /\ Applies # 0 => /\ kept + Applies \in 0..Len(chain)
                        /\ \A h \in 1..kept : seen[h] = chain[h]
  <2>1. Len(seen) \in Nat /\ Len(chain) \in Nat
    BY DEF Legal
  <2>. QED  BY <2>1, Batches
<1>. HIDE DEF kept
<1>3. seen \in Seq(SUBSET Transaction) /\ chain \in Seq(SUBSET Transaction)
  BY DEF Legal
<1>4. /\ SubSeq(seen, 1, kept) \in Seq(SUBSET Transaction)
      /\ Len(SubSeq(seen, 1, kept)) = kept
      /\ \A h \in 1..kept : SubSeq(seen, 1, kept)[h] = seen[h]
  BY <1>2, <1>3
<1>5. CASE Applies = 0
  <2>1. SubSeq(chain, kept + 1, kept + Applies) = <<>>
    BY <1>2, <1>5, SubSeqEmpty
  <2>2. seen' = SubSeq(seen, 1, kept)
    BY <1>1, <1>4, <2>1, ConcatEmptySeq
  <2>3. Legal(SubSeq(seen, 1, kept))
    BY <1>2, LegalPrefix
  <2>. QED  BY <1>2, <1>4, <1>5, <2>2, <2>3 DEF kept
<1>6. CASE Applies # 0
  <2>. DEFINE u == SubSeq(chain, kept + 1, kept + Applies)
  <2>1. u \in Seq(SUBSET Transaction) /\ Len(u) = Applies /\ \A i \in 1..Applies : u[i] = chain[kept + i]
    <3>1. \A i \in kept + 1..kept + Applies : chain[i] \in SUBSET Transaction
      BY <1>2, <1>3, <1>6
    <3>2. /\ SubSeq(chain, kept + 1, kept + Applies) \in Seq(SUBSET Transaction)
          /\ Len(SubSeq(chain, kept + 1, kept + Applies)) =
               IF kept + 1 <= kept + Applies THEN (kept + Applies) - (kept + 1) + 1 ELSE 0
          /\ \A i \in 1..(kept + Applies) - (kept + 1) + 1 :
               SubSeq(chain, kept + 1, kept + Applies)[i] = chain[(kept + 1) + i - 1]
      <4>1. kept + 1 \in Int /\ kept + Applies \in Int
        BY <1>2
      <4>. QED  BY <3>1, <4>1, SubSeqProperties
    <3>3. (kept + Applies) - (kept + 1) + 1 = Applies /\ kept + 1 <= kept + Applies
      BY <1>2, <1>6
    <3>4. \A i \in 1..Applies : (kept + 1) + i - 1 = kept + i
      BY <1>2
    <3>. QED  BY <3>2, <3>3, <3>4
  <2>. HIDE DEF u
  <2>. DEFINE v == SubSeq(seen, 1, kept)
  <2>0. /\ v \in Seq(SUBSET Transaction) /\ Len(v) = kept /\ seen' = v \o u
        /\ \A h \in 1..kept : v[h] = seen[h]
    BY <1>1, <1>4 DEF u
  <2>. HIDE DEF v
  <2>2. /\ seen' \in Seq(SUBSET Transaction) /\ Len(seen') = kept + Applies
        /\ \A i \in 1..kept + Applies : seen'[i] = IF i <= kept THEN v[i] ELSE u[i - kept]
    <3>1. /\ v \o u \in Seq(SUBSET Transaction) /\ Len(v \o u) = Len(v) + Len(u)
          /\ \A i \in 1..Len(v) + Len(u) :
               (v \o u)[i] = IF i <= Len(v) THEN v[i] ELSE u[i - Len(v)]
      BY <2>0, <2>1, ConcatProperties
    <3>. QED  BY <2>0, <2>1, <3>1
  <2>3. \A h \in 1..kept + Applies : seen'[h] = chain[h]
    <3>. SUFFICES ASSUME NEW h \in 1..kept + Applies PROVE seen'[h] = chain[h]
      OBVIOUS
    <3>1. CASE h <= kept
      <4>1. h \in 1..kept
        BY <1>2, <3>1
      <4>2. seen'[h] = v[h]
        BY <2>2, <3>1
      <4>. QED  BY <1>2, <1>6, <2>0, <4>1, <4>2
    <3>2. CASE ~(h <= kept)
      <4>1. h - kept \in 1..Applies /\ kept + (h - kept) = h
        BY <1>2, <3>2
      <4>. QED  BY <2>1, <2>2, <3>2, <4>1
    <3>. QED  BY <3>1, <3>2
  <2>. DEFINE w == SubSeq(chain, 1, kept + Applies)
  <2>4. w \in Seq(SUBSET Transaction) /\ Len(w) = kept + Applies
        /\ \A h \in 1..kept + Applies : w[h] = chain[h]
    BY <1>2, <1>3, <1>6
  <2>5. Legal(w)
    BY <1>2, <1>6, LegalPrefix
  <2>. HIDE DEF w
  <2>6. seen' = w
    BY <2>2, <2>3, <2>4, SeqEqual
  <2>7. \A h \in 1..kept : seen'[h] = seen[h]
    BY <1>2, <1>6, <2>3
  <2>. QED  BY <2>2, <2>3, <2>5, <2>6, <2>7 DEF kept
<1>. QED  BY <1>5, <1>6

LEMMA SamePrefixConsistent ==
  ASSUME NEW a, NEW b, NEW n, \A h \in 1..n : a[h] = b[h], NEW top, NEW db, Consistent(db, a, n, top)
  PROVE  Consistent(db, b, n, top)
<1>1. /\ CreatedTo(a, n) = CreatedTo(b, n) /\ CompletedTo(a, n) = CompletedTo(b, n)
      /\ ExpiredTo(a, n) = ExpiredTo(b, n)
  BY SamePrefix
<1>. QED  BY <1>1 DEF Consistent, StatesAt, StateAt, ElementsAt, OpenAt


\* Contracts are only added to those agreed.
LEMMA Kept ==
  ASSUME \A c \in Agreed : c \in Agreed' /\ agreed'[c] = agreed[c], NEW ch, Legal(ch)
  PROVE  /\ Legal(ch)'
         /\ \A n \in 0..Len(ch) : /\ CreatedTo(ch, n)' = CreatedTo(ch, n)
                                  /\ CompletedTo(ch, n)' = CompletedTo(ch, n)
                                  /\ ExpiredTo(ch, n)' = ExpiredTo(ch, n)
<1>0. Len(ch) \in Nat /\ ch \in Seq(SUBSET Transaction)
  BY DEF Legal
<1>1. \A b : CreatedBy(b)' = CreatedBy(b) /\ ProvedBy(b)' = ProvedBy(b) /\ ExpiredBy(b)' = ExpiredBy(b)
  BY DEF CreatedBy, ProvedBy, ExpiredBy
<1>2. \A b : CreatedBy(b) \subseteq Agreed => CompletedBy(b)' = CompletedBy(b)
  <2>1. \A c \in Agreed : From(c)' = From(c)
    BY DEF From
  <2>. QED  BY <1>1, <2>1 DEF CompletedBy, RenewedBy
<1>3. \A h \in 1..Len(ch) : CompletedBy(ch[h])' = CompletedBy(ch[h])
  BY <1>2 DEF Legal
<1>4. ASSUME NEW n \in 0..Len(ch)
      PROVE  /\ CreatedTo(ch, n)' = CreatedTo(ch, n)
             /\ CompletedTo(ch, n)' = CompletedTo(ch, n)
             /\ ExpiredTo(ch, n)' = ExpiredTo(ch, n)
  <2>1. \A h \in 1..n : h \in 1..Len(ch)
    BY <1>0
  <2>2. CreatedTo(ch, n)' = CreatedTo(ch, n) /\ ExpiredTo(ch, n)' = ExpiredTo(ch, n)
    BY <1>1 DEF CreatedTo, ExpiredTo
  <2>3. CompletedTo(ch, n)' = CompletedTo(ch, n)
    BY <1>3, <2>1 DEF CompletedTo
  <2>. QED  BY <2>2, <2>3
<1>5. ASSUME NEW h \in 1..Len(ch)
      PROVE  /\ CreatedBy(ch[h])' \subseteq Agreed' \ CreatedTo(ch, h - 1)'
             /\ CompletedBy(ch[h])' \cup ExpiredBy(ch[h])'
                  \subseteq CreatedTo(ch, h - 1)' \ (CompletedTo(ch, h - 1)' \cup ExpiredTo(ch, h - 1)')
             /\ CompletedBy(ch[h])' \cap ExpiredBy(ch[h])' = {}
  <2>1. h - 1 \in 0..Len(ch)
    BY <1>0
  <2>2. /\ CreatedBy(ch[h]) \subseteq Agreed \ CreatedTo(ch, h - 1)
        /\ CompletedBy(ch[h]) \cup ExpiredBy(ch[h])
             \subseteq CreatedTo(ch, h - 1) \ (CompletedTo(ch, h - 1) \cup ExpiredTo(ch, h - 1))
        /\ CompletedBy(ch[h]) \cap ExpiredBy(ch[h]) = {}
    BY DEF Legal
  <2>. QED  BY <1>1, <1>3, <1>4, <2>1, <2>2
<1>6. Legal(ch)'
  BY <1>0, <1>5 DEF Legal
<1>. QED  BY <1>4, <1>6

\* What the rows and elements say does not depend on later contracts.
LEMMA KeptConsistent ==
  ASSUME \A c \in Agreed : c \in Agreed' /\ agreed'[c] = agreed[c],
         NEW ch, Legal(ch), NEW n \in 0..Len(ch), NEW top, NEW db, Consistent(db, ch, n, top),
         Known(db.row) \subseteq Agreed, late' = late, reset => reset'
  PROVE  Consistent(db, ch, n, top)'
<1>1. /\ CreatedTo(ch, n)' = CreatedTo(ch, n)
      /\ CompletedTo(ch, n)' = CompletedTo(ch, n)
      /\ ExpiredTo(ch, n)' = ExpiredTo(ch, n)
  BY Kept
<1>2. \A c \in Known(db.row) : From(c)' = From(c) /\ WindowEnd(c)' = WindowEnd(c)
  BY DEF From, WindowEnd, End
<1>3. db \in Database'
  BY DEF Consistent, Database
<1>4. Known(db.row)' = Known(db.row)
  BY DEF Known
<1>5. Links(db.row)'
  BY <1>2, <1>4 DEF Consistent, Links
<1>6. StatesAt(db.row, ch, n, top)'
  BY <1>1, <1>2, <1>4 DEF Consistent, StatesAt, StateAt
<1>7. ElementsAt(db.row, db.element, ch, n, top)'
  BY <1>1, <1>2, <1>4 DEF Consistent, ElementsAt, OpenAt
<1>. QED  BY <1>3, <1>5, <1>6, <1>7 DEF Consistent


LEMMA HigherConsistent ==
  ASSUME TypeOK, NEW ch, NEW n, NEW top \in Nat, NEW higher \in Nat, top <= higher,
         NEW db, Consistent(db, ch, n, top), Known(db.row) \subseteq Agreed
  PROVE  Consistent(db, ch, n, higher)
<1>1. \A c \in Known(db.row) : WindowEnd(c) \in Nat
  BY Ranges
<1>2. \A c \in Known(db.row) :
        /\ WindowEnd(c) <= top - PruneWindow => WindowEnd(c) <= higher - PruneWindow
        /\ WindowEnd(c) >= higher - PruneWindow => WindowEnd(c) >= top - PruneWindow
  BY <1>1, Numbers
<1>3. StatesAt(db.row, ch, n, higher)
  BY <1>2 DEF Consistent, StatesAt, StateAt
<1>4. ElementsAt(db.row, db.element, ch, n, higher)
  BY <1>2 DEF Consistent, ElementsAt
<1>. QED  BY <1>3, <1>4 DEF Consistent

LEMMA SameRowsCompose ==
  ASSUME NEW r, NEW s, NEW t, SameRows(r, s), SameRows(s, t)
  PROVE  SameRows(r, t)
BY DEF SameRows

LEMMA SameRowsKnown ==
  ASSUME NEW r, NEW s, SameRows(r, s)
  PROVE  Known(s) = Known(r)
BY DEF SameRows, Known

\* The blocks reverted.
LEMMA RevertedConsistent ==
  ASSUME CInv, NEW N \in 0..Len(seen),
         NEW f, f = CHOOSE g : g = [n \in 0..N |->
                      IF n = 0 THEN [row |-> row, element |-> element]
                      ELSE Revert(g[n - 1], seen[Len(seen) + 1 - n])]
  PROVE  /\ Consistent(f[N], seen, Len(seen) - N, highest)
         /\ SameRows(row, f[N].row)
<1>. DEFINE base == [row |-> row, element |-> element]
            block(n) == seen[Len(seen) + 1 - n]
            step == [n \in 1..N |-> [d \in Database |-> Revert(d, block(n))]]
<1>0. Len(seen) \in Nat /\ N \in Nat
  <2>1. Len(seen) \in Nat
    BY DEF CInv, Legal
  <2>. QED  BY <2>1
<1>1. base \in Database
  BY DEF CInv, Consistent
<1>2. \A d \in Database : \A b : Revert(d, b) \in Database
  <2>. SUFFICES ASSUME NEW d \in Database, NEW b PROVE Revert(d, b) \in Database
    OBVIOUS
  <2>1. Revert(d, b).row \in Rows /\ Revert(d, b).element \in [Contracts -> 0..MaxContracts]
    BY RevertRows, RevertElements1
  <2>2. Revert(d, b) = [row |-> Revert(d, b).row, element |-> Revert(d, b).element]
    BY DEF Revert
  <2>. QED  BY <2>1, <2>2 DEF Database, Rows
<1>. HIDE DEF base, block
<1>3. \A n \in 1..N : \A d \in Database : step[n][d] \in Database
  BY <1>2
<1>. HIDE DEF step
<1>4. PICK g : Iterates(g, N, Database, base, step)
  BY <1>0, <1>1, <1>3, RecursiveFunctions
<1>5. ASSUME NEW n \in 0..N PROVE g[n] = IF n = 0 THEN base ELSE Revert(g[n - 1], block(n))
  <2>. SUFFICES ASSUME n # 0 PROVE g[n] = Revert(g[n - 1], block(n))
    BY <1>4 DEF Iterates
  <2>1. n \in 1..N /\ n - 1 \in 0..N
    BY <1>0
  <2>2. g[n] = step[n][g[n - 1]] /\ g[n - 1] \in Database
    BY <1>4, <2>1 DEF Iterates
  <2>. QED  BY <2>1, <2>2 DEF step
<1>6. g = [n \in 0..N |-> IF n = 0 THEN base ELSE Revert(g[n - 1], block(n))]
  BY <1>4, <1>5 DEF Iterates
<1>7. f = [n \in 0..N |-> IF n = 0 THEN base ELSE Revert(f[n - 1], block(n))]
  BY <1>6 DEF base, block
<1>. DEFINE P == {n \in Nat : n <= N => /\ Consistent(f[n], seen, Len(seen) - n, highest)
                                        /\ SameRows(row, f[n].row)}
<1>8. 0 \in P
  <2>1. 0 \in 0..N /\ Len(seen) - 0 = Len(seen)
    BY <1>0
  <2>4. f[0] = base
    BY <1>7, <2>1
  <2>2. SameRows(row, base.row)
    BY DEF SameRows, base
  <2>3. Consistent(base, seen, Len(seen), highest)
    BY DEF CInv, base
  <2>. QED  BY <2>1, <2>2, <2>3, <2>4
<1>9. ASSUME NEW n \in Nat, n \in P PROVE n + 1 \in P
  <2>. SUFFICES ASSUME n + 1 <= N
                PROVE  /\ Consistent(f[n + 1], seen, Len(seen) - (n + 1), highest)
                       /\ SameRows(row, f[n + 1].row)
    OBVIOUS
  <2>1. /\ n + 1 \in 0..N /\ n + 1 # 0 /\ (n + 1) - 1 = n /\ n <= N
        /\ Len(seen) - n \in 1..Len(seen) /\ Len(seen) + 1 - (n + 1) = Len(seen) - n
        /\ (Len(seen) - n) - 1 = Len(seen) - (n + 1)
    BY <1>0
  <2>2. f[n + 1] = Revert(f[n], seen[Len(seen) - n])
    BY <1>7, <2>1 DEF block
  <2>3. Consistent(f[n], seen, Len(seen) - n, highest) /\ SameRows(row, f[n].row)
    BY <1>9, <2>1
  <2>4. /\ Consistent(f[n + 1], seen, (Len(seen) - n) - 1, highest)
        /\ SameRows(f[n].row, f[n + 1].row)
    BY <2>1, <2>2, <2>3, RevertConsistent DEF CInv
  <2>. QED  BY <2>1, <2>3, <2>4, SameRowsCompose
<1>10. N \in P
  <2>. HIDE DEF P
  <2>. QED  BY <1>0, <1>8, <1>9, Induction
<1>. QED  BY <1>0, <1>10

\* What N blocks of the chain make of base, the first k blocks being applied.
AppliedTo(base, k, N) ==
  CHOOSE g : g = [n \in 0..N |->
    IF n = 0 THEN base ELSE Apply(g[n - 1], chain[k + n], k + n)]

LEMMA AppliedConsistent ==
  ASSUME CInv, NEW ch, Legal(ch), NEW top \in Nat, NEW k \in Nat, NEW N \in Nat,
         k + N <= Len(ch), \A n \in 1..N : chain[k + n] = ch[k + n],
         NEW base, Consistent(base, ch, k, top), Known(base.row) \subseteq Agreed
  PROVE  /\ Consistent(AppliedTo(base, k, N)[N], ch, k + N, Max({top, k + N}))
         /\ SameRows(base.row, AppliedTo(base, k, N)[N].row)
<1>. DEFINE f == AppliedTo(base, k, N)
            D == {d \in Database : Known(d.row) \subseteq Agreed}
            step == [n \in 1..N |-> [d \in D |-> Apply(d, chain[k + n], k + n)]]
<1>0. Len(ch) \in Nat /\ TypeOK
  BY DEF CInv, Legal
<1>1. base \in D
  BY DEF Consistent
<1>2. ASSUME NEW n \in 1..N, NEW d \in D PROVE Apply(d, chain[k + n], k + n) \in D
  <2>. DEFINE b == chain[k + n]
  <2>1. k + n \in 1..Len(ch) /\ k + n \in Nat
    BY <1>0
  <2>2. CreatedBy(b) \subseteq Agreed
    BY <2>1 DEF Legal
  <2>. HIDE DEF b
  <2>3. /\ Apply(d, b, k + n).row \in Rows /\ SameRows(d.row, Apply(d, b, k + n).row)
        /\ Apply(d, b, k + n).element \in [Contracts -> 0..MaxContracts]
    BY <1>0, <2>1, <2>2, ApplyRows, ApplyElements
  <2>4. Known(Apply(d, b, k + n).row) \subseteq Agreed
    BY <2>3, SameRowsKnown
  <2>5. Apply(d, b, k + n) = [row |-> Apply(d, b, k + n).row, element |-> Apply(d, b, k + n).element]
    BY DEF Apply
  <2>6. Apply(d, b, k + n) \in Database
    BY <2>3, <2>5 DEF Database, Rows
  <2>. QED  BY <2>4, <2>6 DEF b
<1>. HIDE DEF D
<1>3. \A n \in 1..N : \A d \in D : step[n][d] \in D
  BY <1>2
<1>. HIDE DEF step
<1>4. PICK g : Iterates(g, N, D, base, step)
  BY <1>0, <1>1, <1>3, RecursiveFunctions
<1>5. ASSUME NEW n \in 0..N PROVE g[n] = IF n = 0 THEN base ELSE Apply(g[n - 1], chain[k + n], k + n)
  <2>. SUFFICES ASSUME n # 0 PROVE g[n] = Apply(g[n - 1], chain[k + n], k + n)
    BY <1>4 DEF Iterates
  <2>1. n \in 1..N /\ n - 1 \in 0..N
    OBVIOUS
  <2>2. g[n] = step[n][g[n - 1]] /\ g[n - 1] \in D
    BY <1>4, <2>1 DEF Iterates
  <2>. QED  BY <2>1, <2>2 DEF step
<1>6. g = [n \in 0..N |-> IF n = 0 THEN base ELSE Apply(g[n - 1], chain[k + n], k + n)]
  BY <1>4, <1>5 DEF Iterates
<1>7. f = [n \in 0..N |-> IF n = 0 THEN base ELSE Apply(f[n - 1], chain[k + n], k + n)]
  BY <1>6 DEF AppliedTo
<1>. HIDE DEF f
<1>. DEFINE P == {n \in Nat : n <= N => /\ Consistent(f[n], ch, k + n, Max({top, k + n}))
                                        /\ SameRows(base.row, f[n].row)}
<1>8. 0 \in P
  <2>1. 0 \in 0..N /\ k + 0 = k
    OBVIOUS
  <2>5. f[0] = base
    BY <1>7, <2>1
  <2>2. SameRows(base.row, base.row)
    BY DEF SameRows
  <2>3. Max({top, k}) \in Nat /\ top <= Max({top, k})
    <3>1. Max({top, k}) = IF top <= k THEN k ELSE top
      BY OfTwo
    <3>. QED  BY <3>1
  <2>4. Consistent(base, ch, k, Max({top, k}))
    BY <1>0, <2>3, HigherConsistent
  <2>. QED  BY <2>1, <2>2, <2>4, <2>5
<1>9. ASSUME NEW n \in Nat, n \in P PROVE n + 1 \in P
  <2>. SUFFICES ASSUME n + 1 <= N
                PROVE  /\ Consistent(f[n + 1], ch, k + (n + 1), Max({top, k + (n + 1)}))
                       /\ SameRows(base.row, f[n + 1].row)
    OBVIOUS
  <2>. DEFINE m == k + (n + 1)
              t == Max({top, k + n})
  <2>1. /\ n + 1 \in 0..N /\ n + 1 \in 1..N /\ n + 1 # 0 /\ (n + 1) - 1 = n /\ n <= N
        /\ m \in 1..Len(ch) /\ m \in Nat /\ m - 1 = k + n /\ k + n \in Nat
    BY <1>0
  <2>2. f[n + 1] = Apply(f[n], ch[m], m)
    BY <1>7, <2>1
  <2>3. Consistent(f[n], ch, m - 1, t) /\ SameRows(base.row, f[n].row)
    BY <1>9, <2>1
  <2>4. t \in Nat /\ Max({t, m}) = Max({top, m})
    <3>1. t = IF top <= k + n THEN k + n ELSE top
      BY <2>1, OfTwo
    <3>. HIDE DEF t, m
    <3>2. t \in Nat
      BY <2>1, <3>1
    <3>3. Max({t, m}) = IF t <= m THEN m ELSE t
      BY <2>1, <3>2, OfTwo
    <3>4. Max({top, m}) = IF top <= m THEN m ELSE top
      BY <2>1, OfTwo
    <3>. QED  BY <2>1, <3>1, <3>2, <3>3, <3>4
  <2>5. Known(f[n].row) \subseteq Agreed
    BY <2>3, SameRowsKnown
  <2>. HIDE DEF m, t
  <2>6. \A c, d \in Agreed : From(c) = From(d) /\ From(c) # 0 => c = d
    BY DEF CInv, Deals
  <2>7. /\ Consistent(f[n + 1], ch, m, Max({t, m}))
        /\ SameRows(f[n].row, f[n + 1].row)
    <3>1. /\ Consistent(Apply(f[n], ch[m], m), ch, m, Max({t, m}))
          /\ SameRows(f[n].row, Apply(f[n], ch[m], m).row)
      BY <1>0, <2>1, <2>3, <2>4, <2>5, <2>6, ApplyConsistent
    <3>. QED  BY <2>2, <3>1
  <2>. QED  BY <2>3, <2>4, <2>7, SameRowsCompose DEF m
<1>10. N \in P
  <2>. HIDE DEF P
  <2>. QED  BY <1>8, <1>9, Induction
<1>. QED  BY <1>10 DEF f

\* The whole transaction.
LEMMA UpdatesConsistent ==
  ASSUME CInv, ProcessUpdates
  PROVE  /\ Consistent([row |-> row', element |-> element'], seen', Len(seen'), highest')
         /\ SameRows(row, row') /\ highest' \in Nat /\ Legal(seen')
<1>. DEFINE kept == Len(seen) - Reverts
            reverted == CHOOSE g : g = [n \in 0..Reverts |->
                          IF n = 0 THEN [row |-> row, element |-> element]
                          ELSE Revert(g[n - 1], seen[Len(seen) + 1 - n])]
            base == reverted[Reverts]
            applied == CHOOSE g : g = [n \in 0..Applies |->
                         IF n = 0 THEN base
                         ELSE Apply(g[n - 1], chain[kept + n], kept + n)]
<1>1. row' = applied[Applies].row /\ element' = applied[Applies].element
      /\ highest' = Max({highest, kept + Applies})
  BY DEF ProcessUpdates
<1>. HIDE DEF reverted
<1>2. Legal(seen) /\ Legal(chain) /\ TypeOK /\ highest \in Nat /\ Known(row) \subseteq Agreed
  BY DEF CInv, Deals
<1>3. Reverts \in 0..Len(seen) /\ Applies \in Nat /\ kept \in Nat /\ Len(seen) \in Nat
  <2>1. Len(seen) \in Nat
    BY <1>2 DEF Legal
  <2>. QED  BY <1>2, <2>1, Batches
<1>4. /\ Legal(seen') /\ Len(seen') = kept + Applies
      /\ \A h \in 1..kept : seen'[h] = seen[h]
      /\ Applies # 0 => \A h \in 1..kept + Applies : seen'[h] = chain[h]
  BY <1>2, NewSeen
<1>5. Consistent(reverted[Reverts], seen, kept, highest) /\ SameRows(row, reverted[Reverts].row)
  BY <1>3, RevertedConsistent DEF reverted
<1>. HIDE DEF kept, applied, base
<1>6. Consistent(base, seen', kept, highest) /\ Known(base.row) \subseteq Agreed
        /\ SameRows(row, base.row)
  <2>0. Consistent(base, seen, kept, highest) /\ SameRows(row, base.row)
    BY <1>5 DEF base
  <2>1. \A h \in 1..kept : seen[h] = seen'[h]
    BY <1>4
  <2>2. Consistent(base, seen', kept, highest)
    BY <2>0, <2>1, SamePrefixConsistent
  <2>. QED  BY <1>2, <2>0, <2>2, SameRowsKnown
<1>7. \A n \in 1..Applies : chain[kept + n] = seen'[kept + n]
  BY <1>3, <1>4
<1>8. kept + Applies <= Len(seen') /\ kept + Applies \in Nat
  BY <1>3, <1>4
<1>9. /\ Consistent(applied[Applies], seen', kept + Applies, Max({highest, kept + Applies}))
      /\ SameRows(base.row, applied[Applies].row)
  <2>1. CInv /\ highest \in Nat /\ kept \in Nat /\ Applies \in Nat /\ Legal(seen')
        /\ kept + Applies <= Len(seen')
        /\ Consistent(base, seen', kept, highest) /\ Known(base.row) \subseteq Agreed
    BY <1>2, <1>3, <1>4, <1>6, <1>8
  <2>2. applied = AppliedTo(base, kept, Applies)
    BY DEF applied, AppliedTo
  <2>. QED  BY <1>7, <2>1, <2>2, AppliedConsistent
<1>10. applied[Applies] = [row |-> row', element |-> element']
  BY <1>1, <1>9 DEF Consistent, Database
<1>11. highest' \in Nat
  <2>1. Max({highest, kept + Applies}) = IF highest <= kept + Applies THEN kept + Applies ELSE highest
    BY <1>2, <1>8, OfTwo
  <2>. QED  BY <1>1, <1>2, <1>8, <2>1
<1>. QED  BY <1>1, <1>4, <1>6, <1>9, <1>10, <1>11, SameRowsCompose


-----------------------------------------------------------------------------
(* The invariant is inductive *)

LEMMA ActiveAreKnown == ActiveRows \subseteq Known(row) /\ Known(row) \subseteq Contracts
BY DEF ActiveRows, Known

\* Steps that change neither the rows nor what was agreed.
LEMMA Elsewhere ==
  ASSUME CInv, UNCHANGED <<agreed, seen, row, element, late, highest>>, reset => reset',
         deal' \in {0, deal}, DOMAIN snapshot' \subseteq Known(row), Legal(chain')
  PROVE  CInv'
<1>1. TypeOK' /\ highest' \in Nat
  BY Numbers DEF CInv, TypeOK, Contracts
<1>2. Known(row)' = Known(row) /\ ActiveRows' = ActiveRows /\ Agreed' = Agreed
      /\ \A c \in Agreed : From(c)' = From(c)
  BY DEF Known, ActiveRows, Agreed, From
<1>3. deal' # 0 => deal' = deal
  OBVIOUS
<1>4. Deals'
  <2>1. \A c \in Agreed' : From(c)' < c
    BY <1>2 DEF CInv, Deals
  <2>2. \A c, d \in Agreed' : From(c)' = From(d)' /\ From(c)' # 0 => c = d
    BY <1>2 DEF CInv, Deals
  <2>3. Known(row)' \subseteq Agreed' \ {deal'}
    <3>1. 0 \notin Known(row)
      BY DEF Known, Contracts
    <3>. QED  BY <1>2, <1>3, <3>1 DEF CInv, Deals
  <2>4. ASSUME deal' # 0
        PROVE  deal' = Len(agreed') /\ IF From(deal)' = 0 THEN ActiveRows' = {}
                                       ELSE From(deal)' \in Known(row)'
    <3>1. deal # 0 /\ deal' = deal /\ From(deal)' = From(deal)
      BY <1>3, <2>4 DEF From
    <3>. QED  BY <1>2, <3>1 DEF CInv, Deals
  <2>. QED  BY <1>2, <2>1, <2>2, <2>3, <2>4 DEF Deals
<1>5. OneActive'
  BY <1>2 DEF CInv, OneActive
<1>6. \A c \in Agreed : c \in Agreed' /\ agreed'[c] = agreed[c]
  BY <1>2
<1>7. Legal(chain)' /\ Legal(seen)'
  BY <1>6, Kept DEF CInv
<1>8. Consistent([row |-> row, element |-> element], seen, Len(seen), highest)'
  <2>1. Len(seen) \in 0..Len(seen) /\ Known(row) \subseteq Agreed
    BY DEF CInv, Legal, Deals
  <2>. QED  BY <1>6, <2>1, KeptConsistent DEF CInv
<1>. QED  BY <1>1, <1>4, <1>5, <1>7, <1>8 DEF CInv

LEMMA TransactionKeeps ==
  ASSUME CInv, ProcessUpdates
  PROVE  CInv'
<1>. USE DEF ProcessUpdates
<1>1. /\ Consistent([row |-> row', element |-> element'], seen', Len(seen'), highest')
      /\ SameRows(row, row') /\ highest' \in Nat /\ Legal(seen')
  BY UpdatesConsistent
<1>. USE DEF contractorVars
<1>2. Known(row)' = Known(row)
  BY <1>1 DEF SameRows, Known
<1>3. ActiveRows' = ActiveRows
  BY <1>1 DEF SameRows, ActiveRows
<1>4. Agreed' = Agreed /\ \A c : From(c)' = From(c)
  BY DEF Agreed, From
<1>5. TypeOK'
  BY <1>1 DEF CInv, TypeOK, Consistent, Database
<1>6. Deals'
  BY <1>2, <1>3, <1>4 DEF CInv, Deals
<1>7. OneActive'
  BY <1>3 DEF CInv, OneActive
<1>8. \A c \in Agreed : c \in Agreed' /\ agreed'[c] = agreed[c]
  BY <1>4
<1>9. Legal(chain)' /\ Legal(seen)'
  BY <1>1, <1>8, Kept DEF CInv
<1>10. Consistent([row |-> row, element |-> element], seen, Len(seen), highest)'
  <2>1. Len(seen') \in 0..Len(seen')
    BY <1>1 DEF Legal
  <2>2. Known(row') \subseteq Agreed
    BY <1>2 DEF CInv, Deals
  <2>. QED  BY <1>1, <1>8, <2>1, <2>2, KeptConsistent
<1>. QED  BY <1>1, <1>5, <1>6, <1>7, <1>9, <1>10 DEF CInv

LEMMA ResetKeeps ==
  ASSUME CInv, ResetChainState
  PROVE  CInv'
<1>. USE DEF ResetChainState, contractorVars
<1>1. Known(row)' = Known(row) /\ ActiveRows' = ActiveRows /\ Agreed' = Agreed
      /\ \A c : From(c)' = From(c)
  BY DEF Known, ActiveRows, Agreed, From
<1>2. TypeOK' /\ highest' \in Nat
  <2>1. element' \in [Contracts -> 0..MaxContracts]
    BY Numbers DEF CInv, TypeOK
  <2>. QED  BY <2>1 DEF CInv, TypeOK
<1>3. Deals'
  BY <1>1 DEF CInv, Deals
<1>4. OneActive'
  BY <1>1 DEF CInv, OneActive
<1>5. \A c \in Agreed : c \in Agreed' /\ agreed'[c] = agreed[c]
  BY <1>1
<1>6. Legal(chain)'
  BY <1>5, Kept DEF CInv
<1>7. Legal(seen)'
  BY DEF Legal
<1>8. Len(seen') = 0 /\ \A c : c \notin CreatedTo(seen, Len(seen))'
  BY DEF CreatedTo
<1>9. Consistent([row |-> row, element |-> element], seen, Len(seen), highest)'
  <2>1. Links(row)'
    BY <1>1 DEF CInv, Consistent, Links
  <2>2. StatesAt(row, seen, Len(seen), highest)'
    BY <1>8 DEF StatesAt, StateAt
  <2>3. ElementsAt(row, element, seen, Len(seen), highest)'
    <3>1. \A c \in Contracts : element'[c] = 0
      OBVIOUS
    <3>2. Known(row)' \subseteq Contracts
      BY DEF Known
    <3>. QED  BY <1>8, <3>1, <3>2 DEF ElementsAt, OpenAt
  <2>4. [row |-> row', element |-> element'] \in Database'
    BY <1>2 DEF TypeOK, Database
  <2>. QED  BY <2>1, <2>2, <2>3, <2>4 DEF Consistent
<1>. QED  BY <1>2, <1>3, <1>4, <1>6, <1>7, <1>9 DEF CInv

\* A row that is archived.
LEMMA ArchivalKeeps ==
  ASSUME CInv, NEW c \in Known(row),
         NEW reason \in {"renewed", "removed", "expired", "unconfirmed"},
         row' = [row EXCEPT ![c].archived = reason],
         UNCHANGED <<agreed, chain, seen, element, late, reset, highest, deal>>,
         DOMAIN snapshot' \subseteq DOMAIN snapshot
  PROVE  CInv'
<1>1. row \in Rows /\ c \in Contracts /\ row[c] \in Row
  <2>1. row \in Rows
    BY DEF CInv, TypeOK, Rows
  <2>. QED  BY <2>1, KnownRow DEF Known
<1>2. /\ row' \in Rows /\ row'[c] \in Row /\ row'[c].archived = reason
      /\ row'[c].state = row[c].state /\ row'[c].from = row[c].from /\ row'[c].to = row[c].to
      /\ \A d \in Contracts \ {c} : row'[d] = row[d]
  <2>. DEFINE new == [row[c] EXCEPT !.archived = reason]
  <2>1. /\ new \in Row /\ new.archived = reason
        /\ new.state = row[c].state /\ new.from = row[c].from /\ new.to = row[c].to
    BY <1>1 DEF Row
  <2>2. row' = [row EXCEPT ![c] = new]
    BY <1>1 DEF Rows
  <2>. HIDE DEF new
  <2>. QED  BY <1>1, <2>1, <2>2 DEF Rows
<1>3. Known(row)' = Known(row)
  BY <1>1, <1>2, RowAssumption DEF Known
<1>4. ActiveRows' \subseteq ActiveRows
  BY <1>1, <1>2 DEF ActiveRows
<1>5. Agreed' = Agreed /\ \A d : From(d)' = From(d) /\ WindowEnd(d)' = WindowEnd(d)
  BY DEF Agreed, From, WindowEnd, End
<1>6. TypeOK' /\ highest' \in Nat
  BY <1>2 DEF CInv, TypeOK, Rows
<1>7. Deals'
  BY <1>3, <1>4, <1>5 DEF CInv, Deals
<1>8. OneActive'
  BY <1>4 DEF CInv, OneActive
<1>9. \A d \in Agreed : d \in Agreed' /\ agreed'[d] = agreed[d]
  BY <1>5
<1>10. Legal(chain)' /\ Legal(seen)'
  BY <1>9, Kept DEF CInv
<1>11. Consistent([row |-> row', element |-> element], seen, Len(seen), highest)
  <2>. DEFINE n == Len(seen)
  <2>0. /\ Links(row) /\ StatesAt(row, seen, n, highest)
        /\ ElementsAt(row, element, seen, n, highest)
    BY DEF CInv, Consistent
  <2>1. Known(row') = Known(row) /\ Known(row) \subseteq Contracts
    BY <1>3 DEF Known
  <2>2. \A d \in Known(row) : /\ row'[d].state = row[d].state /\ row'[d].from = row[d].from
                              /\ row'[d].to = row[d].to
                              /\ row'[d].archived = "no" => row[d].archived = "no"
    BY <1>2, <2>1
  <2>. HIDE DEF n
  <2>3. Links(row')
    BY <2>0, <2>1, <2>2 DEF Links
  <2>4. StatesAt(row', seen, n, highest)
    BY <2>0, <2>1, <2>2 DEF StatesAt
  <2>5. ElementsAt(row', element, seen, n, highest)
    BY <2>0, <2>1, <2>2 DEF ElementsAt
  <2>6. [row |-> row', element |-> element] \in Database
    BY <1>2 DEF CInv, TypeOK, Database, Rows
  <2>. QED  BY <2>3, <2>4, <2>5, <2>6 DEF Consistent, n
<1>12. Consistent([row |-> row, element |-> element], seen, Len(seen), highest)'
  <2>1. Len(seen) \in 0..Len(seen) /\ Known(row') \subseteq Agreed
    BY <1>3 DEF CInv, Legal, Deals
  <2>. QED  BY <1>9, <1>11, <2>1, KeptConsistent DEF CInv
<1>. QED  BY <1>6, <1>7, <1>8, <1>10, <1>12 DEF CInv


\* A contract agreed, the last one, that has no row yet.
LEMMA AgreementKeeps ==
  ASSUME CInv, deal = 0, NEW from \in Known(row) \cup {0}, NEW end \in Nat,
         Len(agreed) < MaxContracts,
         agreed' = NewContract(from, end), deal' = Len(agreed'),
         IF from = 0 THEN ActiveRows = {} ELSE ~Renewed(from),
         UNCHANGED <<chain, seen, row, element, late, reset, highest>>,
         DOMAIN snapshot' \subseteq Known(row)
  PROVE  CInv'
<1>. DEFINE n == Len(agreed) + 1
            Deal == [from : 0..MaxContracts, start : Nat, end : Nat]
            new == [from |-> from, start |-> Len(chain), end |-> end]
<1>1. TypeOK /\ Agreed = 1..Len(agreed) /\ Len(agreed) \in Nat /\ Known(row) \subseteq Agreed
  BY Ranges DEF CInv, Deals
<1>2. from \in 0..MaxContracts /\ new \in Deal
  <2>1. from \in 0..MaxContracts
    BY <1>1, Ranges, Numbers DEF Contracts
  <2>2. Len(chain) \in Nat
    BY DEF CInv, Legal
  <2>. QED  BY <2>1, <2>2
<1>3. agreed \in Seq(Deal)
  BY <1>1 DEF TypeOK
<1>4. new.from = from
  OBVIOUS
<1>5. agreed' = Append(agreed, new)
  BY DEF NewContract
<1>. HIDE DEF Deal, new
<1>6. /\ agreed' \in Seq(Deal) /\ Len(agreed') = n /\ n \in Nat /\ n <= MaxContracts
      /\ agreed'[n] = new /\ \A c \in 1..Len(agreed) : agreed'[c] = agreed[c]
      /\ DOMAIN agreed' = 1..n
  BY <1>1, <1>2, <1>3, <1>5, Numbers
<1>7. /\ Agreed' = Agreed \cup {n} /\ n \notin Agreed /\ n # 0 /\ from < n /\ deal' = n
      /\ \A c \in Agreed : c < n
  <2>1. Agreed' = 1..n
    BY <1>6 DEF Agreed
  <2>2. from \in Agreed \cup {0}
    BY <1>1
  <2>. QED  BY <1>1, <1>6, <2>1, <2>2
<1>8. \A c \in Agreed : From(c)' = From(c)
  BY <1>1, <1>6 DEF From
<1>9. agreed'[n].from = from /\ \A c : From(c)' = agreed'[c].from
  BY <1>4, <1>6 DEF From
<1>10. Known(row)' = Known(row) /\ ActiveRows' = ActiveRows
  BY DEF Known, ActiveRows
<1>. HIDE DEF n
<1>11. TypeOK' /\ highest' \in Nat
  <2>1. deal' \in 0..MaxContracts
    BY <1>6, <1>7, Numbers
  <2>. QED  BY <1>6, <2>1 DEF CInv, TypeOK, Deal
<1>12. Deals'
  <2>1. ASSUME NEW c \in Agreed' PROVE From(c)' < c
    <3>1. CASE c = n
      BY <1>7, <1>9, <3>1
    <3>2. CASE c # n
      <4>1. c \in Agreed
        BY <1>7, <3>2
      <4>. QED  BY <1>8, <4>1 DEF CInv, Deals
    <3>. QED  BY <3>1, <3>2
  <2>2. ASSUME NEW c \in Agreed', NEW d \in Agreed', From(c)' = From(d)', From(c)' # 0
        PROVE  c = d
    <3>1. ASSUME NEW u \in Agreed PROVE From(u) # from \/ from = 0
      BY <3>1 DEF Renewed
    <3>2. CASE c = n /\ d = n
      BY <3>2
    <3>3. CASE c = n /\ d # n
      BY <1>7, <1>8, <1>9, <2>2, <3>1, <3>3
    <3>4. CASE c # n /\ d = n
      BY <1>7, <1>8, <1>9, <2>2, <3>1, <3>4
    <3>5. CASE c # n /\ d # n
      <4>1. c \in Agreed /\ d \in Agreed
        BY <1>7, <3>5
      <4>2. From(c) = From(d) /\ From(c) # 0
        BY <1>8, <2>2, <4>1
      <4>. QED  BY <4>1, <4>2 DEF CInv, Deals
    <3>. QED  BY <3>2, <3>3, <3>4, <3>5
  <2>3. Known(row)' \subseteq Agreed' \ {deal'}
    BY <1>1, <1>7, <1>10
  <2>4. DOMAIN snapshot' \subseteq Known(row)'
    BY <1>10
  <2>5. deal' = Len(agreed') /\ IF From(deal)' = 0 THEN ActiveRows' = {}
                                ELSE From(deal)' \in Known(row)'
    <3>1. From(deal)' = from
      BY <1>7, <1>9
    <3>. QED  BY <1>10, <3>1
  <2>. QED  BY <2>1, <2>2, <2>3, <2>4, <2>5 DEF Deals
<1>13. OneActive'
  BY <1>10 DEF CInv, OneActive
<1>14. \A c \in Agreed : c \in Agreed' /\ agreed'[c] = agreed[c]
  BY <1>1, <1>6, <1>7
<1>15. Legal(chain)' /\ Legal(seen)'
  BY <1>14, Kept DEF CInv
<1>16. Consistent([row |-> row, element |-> element], seen, Len(seen), highest)'
  <2>1. Len(seen) \in 0..Len(seen)
    BY DEF CInv, Legal
  <2>. QED  BY <1>1, <1>14, <2>1, KeptConsistent DEF CInv
<1>. QED  BY <1>11, <1>12, <1>13, <1>15, <1>16 DEF CInv

\* The row of the contract that had none.
LEMMA NewRow ==
  ASSUME CInv, deal # 0,
         row' \in Rows, Known(row') = Known(row) \cup {deal}, row'[deal].state = "pending",
         \A c \in Known(row) : row'[c].state = row[c].state,
         \A c \in Known(row) : row'[c].archived = "no" => row[c].archived = "no",
         Links(row'),
         \A c, d \in ActiveRows' : c = d,
         element' \in [Contracts -> 0..MaxContracts],
         element'[deal] = 0 \/ From(deal) # 0,
         \A c \in Contracts \ Known(row') : element'[c] = 0,
         \A c \in Known(row) : \/ element'[c] = element[c]
                               \/ element'[c] = 0 /\ row'[c].archived # "no",
         deal' = 0, late' = Late,
         UNCHANGED <<agreed, chain, seen, snapshot, reset, highest>>
  PROVE  CInv'
<1>1. TypeOK /\ Len(agreed) \in Nat /\ deal \in Agreed /\ deal \in Contracts
  BY Ranges DEF CInv, Deals
<1>2. Agreed' = Agreed /\ \A c : From(c)' = From(c)
  BY DEF Agreed, From
<1>3. Known(row)' = Known(row') /\ deal \notin Known(row)
  BY DEF Known, CInv, Deals
<1>4. TypeOK' /\ highest' \in Nat
  BY <1>1, Numbers DEF CInv, TypeOK, Rows
<1>5. Deals'
  <2>1. Known(row)' \subseteq Agreed' \ {deal'}
    <3>1. 0 \notin Known(row')
      BY DEF Known, Contracts
    <3>. QED  BY <1>1, <1>2, <1>3, <3>1 DEF CInv, Deals
  <2>2. DOMAIN snapshot' \subseteq Known(row)'
    BY <1>3 DEF CInv, Deals
  <2>. QED  BY <1>2, <2>1, <2>2 DEF CInv, Deals
<1>6. OneActive'
  BY DEF OneActive
<1>7. \A c \in Agreed : c \in Agreed' /\ agreed'[c] = agreed[c]
  BY <1>2
<1>8. /\ Legal(chain)' /\ Legal(seen)' /\ Len(seen) \in 0..Len(seen)
      /\ CreatedTo(seen, Len(seen))' = CreatedTo(seen, Len(seen))
      /\ CompletedTo(seen, Len(seen))' = CompletedTo(seen, Len(seen))
      /\ ExpiredTo(seen, Len(seen))' = ExpiredTo(seen, Len(seen))
      /\ seen \in Seq(SUBSET Transaction)
  <2>1. Legal(chain) /\ Legal(seen)
    BY DEF CInv
  <2>2. Len(seen) \in 0..Len(seen) /\ seen \in Seq(SUBSET Transaction)
    BY <2>1 DEF Legal
  <2>. QED  BY <1>7, <2>1, <2>2, Kept
<1>9. \A c \in Known(row') \ late' :
        c \in Known(row) \ late \/ (c = deal /\ c \notin CreatedTo(seen, Len(seen)))
  <2>1. late \subseteq late' /\ (deal \in Created(seen) => deal \in late')
    BY DEF Late
  <2>2. Created(seen) = CreatedTo(seen, Len(seen))
    BY <1>8, WholeChain
  <2>3. ASSUME NEW c \in Known(row') \ late'
        PROVE  c \in Known(row) \ late \/ (c = deal /\ c \notin CreatedTo(seen, Len(seen)))
    <3>1. c \in Known(row) \/ c = deal
      OBVIOUS
    <3>2. CASE c \in Known(row)
      BY <2>1, <3>2
    <3>3. CASE c = deal
      BY <2>1, <2>2, <3>3
    <3>. QED  BY <3>1, <3>2, <3>3
  <2>. QED  BY <2>3
<1>. DEFINE n == Len(seen)
<1>10. /\ StatesAt(row, seen, n, highest)
       /\ ElementsAt(row, element, seen, n, highest)
  BY DEF CInv, Consistent
<1>11. \A c : WindowEnd(c)' = WindowEnd(c)
  BY DEF WindowEnd, End
<1>. HIDE DEF n
<1>12. Links(row)'
  BY <1>2, <1>3 DEF Links
<1>13. StatesAt(row, seen, n, highest)'
  <2>. SUFFICES ASSUME NEW c \in Known(row') \ late'
                PROVE  StateAt(c, row[c].state, seen, n, highest)'
    BY <1>3 DEF StatesAt
  <2>1. CASE c = deal /\ c \notin CreatedTo(seen, n)
    BY <1>8, <2>1 DEF StateAt, n
  <2>2. CASE c \in Known(row) \ late
    <3>1. StateAt(c, row'[c].state, seen, n, highest)
      BY <1>10, <2>2 DEF StatesAt
    <3>. QED  BY <1>8, <1>11, <3>1 DEF StateAt, n
  <2>. QED  BY <1>9, <2>1, <2>2 DEF n
<1>14. ElementsAt(row, element, seen, n, highest)'
  <2>1. \A c \in Contracts \ Known(row)' : element'[c] = 0
    BY <1>3
  <2>2. \A c \in Known(row)' : element'[c] \in {0, c} \/ From(c)' # 0
    BY <1>2, <1>3, <1>10 DEF ElementsAt
  <2>3. ASSUME NEW c \in Known(row') \ late', row'[c].archived = "no", OpenAt(c, seen, n)',
               WindowEnd(c) >= highest - PruneWindow
        PROVE  element'[c] # 0
    <3>1. OpenAt(c, seen, n)
      BY <1>8, <2>3 DEF OpenAt, n
    <3>2. c \in Known(row) \ late
      BY <1>9, <3>1 DEF OpenAt, n
    <3>. QED  BY <1>10, <2>3, <3>1, <3>2 DEF ElementsAt
  <2>. QED  BY <1>3, <1>11, <2>1, <2>2, <2>3 DEF ElementsAt
<1>15. Consistent([row |-> row, element |-> element], seen, Len(seen), highest)'
  BY <1>12, <1>13, <1>14 DEF Consistent, Database, Rows, n
<1>. QED  BY <1>4, <1>5, <1>6, <1>8, <1>15 DEF CInv


LEMMA RenewalKeeps ==
  ASSUME CInv, AddRenewal
  PROVE  CInv'
<1>. DEFINE old == From(deal)
            moved == [row[old] EXCEPT !.state = "pending", !.from = old]
            left == [row[old] EXCEPT !.archived = "renewed", !.to = deal]
<1>1. TypeOK /\ deal # 0 /\ old # 0 /\ deal \in Agreed /\ deal \in Contracts
  BY Ranges DEF CInv, Deals, AddRenewal
<1>2. old \in Known(row) /\ old < deal /\ deal \notin Known(row) /\ Known(row) \subseteq Agreed
  BY <1>1 DEF CInv, Deals
<1>3. row \in Rows /\ row[old] \in Row /\ old \in Contracts
  <2>1. row \in Rows
    BY <1>1 DEF TypeOK, Rows
  <2>. QED  BY <1>2, <2>1, KnownRow DEF Known
<1>4. old # deal /\ old \in 0..MaxContracts /\ deal \in 0..MaxContracts
  BY <1>1, <1>2, <1>3, Numbers DEF Contracts
<1>. HIDE DEF old
<1>5. /\ moved \in Row /\ moved.state = "pending" /\ moved.from = old
      /\ moved.archived = row[old].archived
      /\ left \in Row /\ left.state = row[old].state /\ left.archived = "renewed"
      /\ left.to = deal /\ left.from = row[old].from
  BY <1>3, <1>4 DEF Row
<1>6. row' = [row EXCEPT ![deal] = moved, ![old] = left]
  BY <1>1, <1>3, <1>4 DEF old, Rows, AddRenewal
<1>. HIDE DEF moved, left
<1>7. /\ row' \in Rows /\ row'[deal] = moved /\ row'[old] = left
      /\ \A c \in Contracts \ {deal, old} : row'[c] = row[c]
  BY <1>1, <1>3, <1>4, <1>5, <1>6 DEF Rows
<1>8. element' = [element EXCEPT ![deal] = element[old], ![old] = 0]
  BY DEF old, AddRenewal
<1>9. /\ element' \in [Contracts -> 0..MaxContracts] /\ element'[old] = 0
      /\ \A c \in Contracts \ {deal, old} : element'[c] = element[c]
  <2>1. element \in [Contracts -> 0..MaxContracts] /\ 0 \in 0..MaxContracts
    BY <1>1, Numbers DEF TypeOK
  <2>. QED  BY <1>1, <1>3, <1>4, <1>8, <2>1
<1>10. Known(row') = Known(row) \cup {deal} /\ Known(row) \subseteq Contracts
  BY <1>1, <1>2, <1>3, <1>5, <1>7, RowAssumption DEF Known
<1>11. \A c \in Known(row) :
         /\ row'[c].state = row[c].state
         /\ row'[c].archived = "no" => row[c].archived = "no"
         /\ row'[c].from = row[c].from
         /\ c # old => row'[c] = row[c]
         /\ element'[c] = element[c] \/ (element'[c] = 0 /\ row'[c].archived # "no")
  <2>. SUFFICES ASSUME NEW c \in Known(row)
                PROVE  /\ row'[c].state = row[c].state
                       /\ row'[c].archived = "no" => row[c].archived = "no"
                       /\ row'[c].from = row[c].from
                       /\ c # old => row'[c] = row[c]
                       /\ element'[c] = element[c] \/ (element'[c] = 0 /\ row'[c].archived # "no")
    OBVIOUS
  <2>1. CASE c = old
    BY <1>5, <1>7, <1>9, <2>1
  <2>2. CASE c # old
    <3>1. c \in Contracts \ {deal, old}
      BY <1>2, <1>10, <2>2
    <3>. QED  BY <1>7, <1>9, <2>2, <3>1
  <2>. QED  BY <2>1, <2>2
<1>12. Links(row')
  <2>. SUFFICES ASSUME NEW c \in Known(row'), From(c) # 0
                PROVE  /\ row'[c].from = From(c) /\ From(c) \in Known(row')
                       /\ row'[From(c)].to = c /\ row'[From(c)].archived # "no"
    BY DEF Links
  <2>1. CASE c = deal
    BY <1>2, <1>5, <1>7, <1>10, <2>1 DEF old
  <2>2. CASE c # deal
    <3>1. c \in Known(row)
      BY <1>10, <2>2
    <3>2. /\ row[c].from = From(c) /\ From(c) \in Known(row)
          /\ row[From(c)].to = c /\ row[From(c)].archived # "no"
      BY <3>1 DEF CInv, Consistent, Links
    <3>3. From(c) # old
      BY <1>1, <1>2, <2>2, <3>1 DEF CInv, Deals, old
    <3>. QED  BY <1>10, <1>11, <3>1, <3>2, <3>3
  <2>. QED  BY <2>1, <2>2
<1>13. ASSUME NEW c \in ActiveRows', NEW d \in ActiveRows' PROVE c = d
  <2>1. \A u \in ActiveRows' : IF u = deal THEN old \in ActiveRows ELSE u \in ActiveRows /\ u # old
    <3>. SUFFICES ASSUME NEW u \in ActiveRows'
                  PROVE  IF u = deal THEN old \in ActiveRows ELSE u \in ActiveRows /\ u # old
      OBVIOUS
    <3>1. u \in Contracts /\ row'[u] # None /\ row'[u].archived = "no" /\ u \in Known(row')
      BY DEF ActiveRows, Known
    <3>2. CASE u = deal
      BY <1>2, <1>3, <1>5, <1>7, <3>1, <3>2 DEF ActiveRows, Known
    <3>3. CASE u # deal
      <4>1. u \in Known(row) /\ u # old
        BY <1>5, <1>7, <1>10, <3>1, <3>3
      <4>. QED  BY <1>11, <3>1, <3>3, <4>1 DEF ActiveRows, Known
    <3>. QED  BY <3>2, <3>3
  <2>2. \A u, v \in ActiveRows : u = v
    BY DEF CInv, OneActive
  <2>. QED  BY <2>1, <2>2
<1>14. \A c \in Contracts \ Known(row') : element'[c] = 0
  <2>1. \A c \in Contracts \ Known(row') : c \in Contracts \ {deal, old} /\ c \notin Known(row)
    BY <1>2, <1>10
  <2>. QED  BY <1>9, <2>1 DEF CInv, Consistent, ElementsAt
<1>15. row'[deal].state = "pending"
  BY <1>5, <1>7
<1>16. element'[deal] = 0 \/ From(deal) # 0
  BY <1>1 DEF old
<1>17. deal' = 0 /\ late' = Late /\ UNCHANGED <<agreed, chain, seen, snapshot, reset, highest>>
  BY DEF boundVars, AddRenewal
<1>18. \A c, d \in ActiveRows' : c = d
  BY <1>13
<1>. QED  BY <1>1, <1>7, <1>9, <1>10, <1>11, <1>12, <1>14, <1>15, <1>16, <1>17, <1>18, NewRow

LEMMA PutKeeps ==
  ASSUME CInv, PutContract
  PROVE  CInv'
<1>. USE DEF PutContract
<1>1. TypeOK /\ deal # 0 /\ From(deal) = 0 /\ deal \in Agreed /\ deal \in Contracts
  BY Ranges DEF CInv, Deals
<1>2. deal \notin Known(row) /\ Known(row) \subseteq Agreed /\ ActiveRows = {}
      /\ \A c \in Agreed : From(c) < c
  BY <1>1 DEF CInv, Deals
<1>3. Pending(deal) \in Row /\ Pending(deal).state = "pending"
  BY <1>1, Numbers DEF Pending, Row
<1>4. row \in Rows
  BY <1>1 DEF TypeOK, Rows
<1>5. /\ row' \in Rows /\ row'[deal] = Pending(deal)
      /\ \A c \in Contracts \ {deal} : row'[c] = row[c]
  BY <1>1, <1>3, <1>4 DEF Rows
<1>6. Known(row') = Known(row) \cup {deal} /\ \A c \in Known(row) : row'[c] = row[c]
  <2>1. Pending(deal) # None
    BY <1>3, RowAssumption
  <2>. QED  BY <1>1, <1>2, <1>5, <2>1 DEF Known
<1>7. Links(row')
  <2>. SUFFICES ASSUME NEW c \in Known(row'), From(c) # 0
                PROVE  /\ row'[c].from = From(c) /\ From(c) \in Known(row')
                       /\ row'[From(c)].to = c /\ row'[From(c)].archived # "no"
    BY DEF Links
  <2>1. c \in Known(row)
    BY <1>1, <1>6
  <2>2. /\ row[c].from = From(c) /\ From(c) \in Known(row)
        /\ row[From(c)].to = c /\ row[From(c)].archived # "no"
    BY <2>1 DEF CInv, Consistent, Links
  <2>. QED  BY <1>6, <2>1, <2>2
<1>8. \A c, d \in ActiveRows' : c = d
  <2>1. \A u \in ActiveRows' : u = deal
    BY <1>2, <1>5 DEF ActiveRows
  <2>. QED  BY <2>1
<1>9. element' = element /\ element \in [Contracts -> 0..MaxContracts]
      /\ \A c \in Contracts \ Known(row) : element[c] = 0
  BY <1>1 DEF CInv, TypeOK, Consistent, ElementsAt
<1>10. deal' = 0 /\ late' = Late /\ UNCHANGED <<agreed, chain, seen, snapshot, reset, highest>>
  BY DEF boundVars
<1>11. row'[deal].state = "pending" /\ element'[deal] = 0
       /\ \A c \in Contracts \ Known(row') : element'[c] = 0
  BY <1>1, <1>2, <1>3, <1>5, <1>6, <1>9
<1>. QED  BY <1>1, <1>5, <1>6, <1>7, <1>8, <1>9, <1>10, <1>11, NewRow


LEMMA CInvInit == Init => CInv
<1>. SUFFICES ASSUME Init PROVE CInv
  OBVIOUS
<1>. USE DEF Init
<1>1. Known(row) = {} /\ ActiveRows = {} /\ Agreed = {}
  BY DEF Known, ActiveRows, Agreed
<1>2. TypeOK /\ highest \in Nat
  BY Numbers DEF TypeOK
<1>3. Deals /\ OneActive
  BY <1>1 DEF Deals, OneActive
<1>4. Legal(chain) /\ Legal(seen)
  BY DEF Legal
<1>5. Consistent([row |-> row, element |-> element], seen, Len(seen), highest)
  BY <1>1, <1>2 DEF Consistent, Database, TypeOK, Links, StatesAt, ElementsAt
<1>. QED  BY <1>2, <1>3, <1>4, <1>5 DEF CInv

LEMMA CInvStep == CInv /\ [Next]_vars => CInv'
<1>. SUFFICES ASSUME CInv, [Next]_vars PROVE CInv'
  OBVIOUS
<1>. USE DEF dbVars, subVars, contractorVars, boundVars
<1>0. /\ TypeOK /\ Legal(chain) /\ Legal(seen) /\ Len(chain) \in Nat /\ Len(seen) \in Nat
      /\ DOMAIN snapshot \subseteq Known(row) /\ Known(row) \subseteq Agreed
  <2>1. TypeOK /\ Legal(chain) /\ Legal(seen)
    BY DEF CInv
  <2>2. Len(chain) \in Nat /\ Len(seen) \in Nat
    BY <2>1 DEF Legal
  <2>. QED  BY <2>1, <2>2 DEF CInv, Deals
<1>1. CASE Mine
  <2>1. Legal(chain')
    BY <1>0, <1>1, LegalAppend DEF Mine
  <2>. QED  BY <1>0, <1>1, <2>1, Elsewhere DEF Mine
<1>2. CASE Reorg
  <2>1. PICK n \in 1..Min({MaxReorg, Len(chain)}) :
          chain' \in Extended(SubSeq(chain, 1, Len(chain) - n), n + 1)
    BY <1>2 DEF Reorg
  <2>2. Min({MaxReorg, Len(chain)}) = IF MaxReorg <= Len(chain) THEN MaxReorg ELSE Len(chain)
    BY <1>0, Numbers, OfTwo
  <2>3. Len(chain) - n \in 0..Len(chain) /\ n + 1 \in Nat
    BY <1>0, <2>2, Numbers
  <2>4. Legal(SubSeq(chain, 1, Len(chain) - n))
    BY <1>0, <2>3, LegalPrefix
  <2>5. Legal(chain')
    BY <1>0, <2>1, <2>3, <2>4, LegalExtended
  <2>. QED  BY <1>0, <1>2, <2>5, Elsewhere DEF Reorg
<1>3. CASE Wakes \/ Synced
  BY <1>0, <1>3, Elsewhere DEF Wakes, Synced
<1>4. CASE ProcessUpdates
  BY <1>4, TransactionKeeps
<1>5. CASE ResetChainState
  BY <1>5, ResetKeeps
<1>6. CASE Begins
  <2>1. DOMAIN snapshot' \subseteq Known(row)
    BY <1>6, ActiveAreKnown DEF Begins
  <2>. QED  BY <1>0, <1>6, <2>1, Elsewhere DEF Begins
<1>7. CASE Forms
  <2>1. Len(seen) + Period + RenewWindow \in Nat
    BY <1>0, Numbers
  <2>. QED  BY <1>0, <1>7, <2>1, AgreementKeeps DEF Forms, Idle
<1>8. CASE PutContract
  BY <1>8, PutKeeps
<1>9. CASE AddRenewal
  BY <1>9, RenewalKeeps
<1>10. ASSUME NEW c \in Contracts, Archives(c) PROVE CInv'
  <2>1. c \in Known(row) /\ DOMAIN snapshot' \subseteq DOMAIN snapshot
    BY <1>0, <1>10 DEF Archives, Checks, Checked
  <2>. DEFINE reason == shouldArchive(snapshot[c], c)
  <2>2. reason \in {"renewed", "removed", "expired", "unconfirmed"}
        /\ row' = [row EXCEPT ![c].archived = reason]
    BY <1>10 DEF Archives, shouldArchive
  <2>. HIDE DEF reason
  <2>. QED  BY <1>10, <2>1, <2>2, ArchivalKeeps DEF Archives
<1>11. ASSUME NEW c \in Contracts, Keeps(c) PROVE CInv'
  <2>1. DOMAIN snapshot' \subseteq Known(row)
    BY <1>0, <1>11 DEF Keeps, Checked
  <2>. QED  BY <1>0, <1>11, <2>1, Elsewhere DEF Keeps
<1>12. ASSUME NEW c \in Contracts, Renews(c) PROVE CInv'
  <2>1. c \in Known(row) /\ c # 0 /\ DOMAIN snapshot' \subseteq Known(row) /\ deal = 0
    BY <1>0, <1>12 DEF Renews, Checks, Checked, Contracts
  <2>. DEFINE end == IF Len(seen) + RenewWindow >= End(c)
                     THEN Len(seen) + Period + RenewWindow ELSE End(c)
  <2>2. end \in Nat
    BY <1>0, <2>1, Ranges, Numbers
  <2>3. agreed' = NewContract(c, end)
    BY <1>12 DEF Renews
  <2>. HIDE DEF end
  <2>. QED  BY <1>0, <1>12, <2>1, <2>2, <2>3, AgreementKeeps DEF Renews
<1>13. CASE DealLost
  BY <1>0, <1>13, Elsewhere DEF DealLost
<1>14. CASE Restart
  <2>1. DOMAIN snapshot' \subseteq Known(row)
    BY <1>14 DEF Restart
  <2>. QED  BY <1>0, <1>14, <2>1, Elsewhere DEF Restart
<1>15. ASSUME NEW c \in Contracts, Removes(c) PROVE CInv'
  <2>1. c \in Known(row)
    BY <1>15, ActiveAreKnown DEF Removes
  <2>. QED  BY <1>15, <2>1, ArchivalKeeps DEF Removes
<1>16. CASE UNCHANGED vars
  BY <1>0, <1>16, Elsewhere DEF vars
<1>. QED
  BY <1>1, <1>2, <1>3, <1>4, <1>5, <1>6, <1>7, <1>8, <1>9, <1>10, <1>11, <1>12, <1>13, <1>14,
     <1>15, <1>16 DEF Next, Subscriber, Contractor

LEMMA Inductive == Spec => []CInv
BY CInvInit, CInvStep, PTL DEF Spec

-----------------------------------------------------------------------------
(* What follows *)

\* The rows, the elements and what was agreed have their types.
THEOREM TypeCorrect == Spec => []TypeOK
<1>1. CInv => TypeOK
  BY DEF CInv
<1>. QED  BY <1>1, Inductive, PTL

\* At most one contract with the host is not archived: AddContract and AddRenewal of
\* bus/routes.go, the archivals of contractor.go and what is lost between them.
THEOREM OneContractHolds == Spec => []OneContract
<1>1. CInv => OneContract
  <2>. SUFFICES ASSUME CInv PROVE OneContract
    OBVIOUS
  <2>1. \A c, d \in ActiveRows : c = d
    BY DEF CInv, OneActive
  <2>2. CASE ActiveRows = {}
    BY <2>2, FS_EmptySet DEF OneContract
  <2>3. CASE ActiveRows # {}
    <3>1. PICK c : ActiveRows = {c}
      BY <2>1, <2>3
    <3>2. Cardinality({c}) = 1
      BY FS_Singleton
    <3>3. Cardinality(ActiveRows) = 1
      BY <3>1, <3>2
    <3>. QED  BY <3>3 DEF OneContract
  <2>. QED  BY <2>2, <2>3
<1>. QED  BY <1>1, Inductive, PTL

\* A contract and its renewal refer to each other, and the renewed one is archived,
\* whether bus or subscriber wrote first.
THEOREM LineageHolds == Spec => []Lineage
<1>1. CInv => Lineage
  <2>. SUFFICES ASSUME CInv, NEW c \in Known(row), From(c) # 0
                PROVE  /\ row[c].from = From(c)
                       /\ row[From(c)] # None /\ row[From(c)].to = c
                       /\ row[From(c)].archived # "no"
    BY DEF Lineage
  <2>1. From(c) \in Known(row) => row[From(c)] # None
    BY DEF Known
  <2>. QED  BY <2>1 DEF CInv, Consistent, Links
<1>. QED  BY <1>1, Inductive, PTL

\* The state of a row is what the chain up to the stored index says of the contract:
\* chainsubscriber.go and its batches, reverted and applied, over any reorganisation.
THEOREM StatesFollowChainHolds == Spec => []StatesFollowChain
<1>1. CInv => StatesFollowChain
  <2>. SUFFICES ASSUME CInv PROVE StatesFollowChain
    OBVIOUS
  <2>1. /\ Created(seen) = CreatedTo(seen, Len(seen))
        /\ On(seen, RenewedBy) \cup On(seen, ProvedBy) = CompletedTo(seen, Len(seen))
        /\ On(seen, ExpiredBy) = ExpiredTo(seen, Len(seen))
    BY WholeChain DEF CInv, Legal
  <2>2. StatesAt(row, seen, Len(seen), highest)
    BY DEF CInv, Consistent
  <2>. QED  BY <2>1, <2>2 DEF StatesFollowChain, StatesAt, StateAt, Punctual
<1>. QED  BY <1>1, Inductive, PTL

\* A contract formed with the host that is not archived and runs on the chain has its
\* own element: UpdateFileContractElements and DeleteFileContractElement over batches
\* of blocks reverted and applied, AddRenewal and the pruning.
THEOREM ElementsKeptHolds == Spec => []ElementsKept
<1>1. CInv => ElementsKept
  <2>. SUFFICES ASSUME CInv PROVE ElementsKept
    OBVIOUS
  <2>1. Open(seen) = CreatedTo(seen, Len(seen))
                       \ (CompletedTo(seen, Len(seen)) \cup ExpiredTo(seen, Len(seen)))
    BY WholeChain DEF CInv, Legal
  <2>2. ElementsAt(row, element, seen, Len(seen), highest)
    BY DEF CInv, Consistent
  <2>. QED  BY <2>1, <2>2 DEF ElementsKept, ElementsAt, OpenAt, Punctual, ActiveRows
<1>. QED  BY <1>1, Inductive, PTL
=============================================================================
