---------------------------- MODULE TxPoolProofs ----------------------------
(***************************************************************************)
(* Proofs about TxPool, for every set of transactions, images and aliases, *)
(* any block bodies and any number of restarts.                            *)
(***************************************************************************)
EXTENDS TxPool, TLAPS

(***************************************************************************)
(* The inductive invariant.  OneSpenderNotKept and NoPhantomImages are not *)
(* inductive: a removal stops at the first image it does not find, so they *)
(* rest on the fact that the images registered for a transaction are       *)
(* always a prefix of its inputs, also after an insertion that failed.     *)
(* The same holds of the state file, from which a restart rebuilds all.    *)
(***************************************************************************)
PrefixRegistered(p) ==
  \A tx \in Tx : \A i \in DOMAIN Images[tx] :
    tx \in p.images[Images[tx][i]] => 
      \A h \in 1..i : tx \in p.images[Images[tx][h]]

WellFormed(p) ==
  /\ p \in Pools
  /\ p.kept \subseteq p.transactions
  /\ p.sorted \subseteq p.transactions
  /\ \A k \in Image : p.images[k] \subseteq {tx \in p.transactions : k \in ImageSet(tx)}
  /\ \A k \in Image : \A t1, t2 \in p.images[k] \ p.kept : t1 = t2
  /\ PrefixRegistered(p)

\* The key images of the inputs of a transaction are key images.
LEMMA InputsAreImages ==
  ASSUME NEW tx \in Tx
  PROVE  /\ ImageSet(tx) \subseteq Image
         /\ \A i \in DOMAIN Images[tx] : /\ Images[tx][i] \in ImageSet(tx)
                                         /\ \A h \in 1..i : h \in DOMAIN Images[tx]
         /\ AliasOf[tx] \in Alias \cup {NoAlias}
BY TxAssumption DEF ImageSet

\* The pool that init starts with when there is no state file is well formed.
LEMMA EmptyWellFormed == WellFormed(EmptyPool)
BY InputsAreImages DEF WellFormed, EmptyPool, Pools, PrefixRegistered

\* Whether a pool is well formed depends neither on the aliases nor on the
\* timed-out set, and the sorted container may be emptied.
LEMMA SameContainers ==
  ASSUME NEW p, NEW q \in Pools, WellFormed(p),
         q.transactions = p.transactions, q.kept = p.kept,
         q.sorted \subseteq p.sorted, q.images = p.images
  PROVE  WellFormed(q)
<1>1. /\ q.kept \subseteq q.transactions
      /\ q.sorted \subseteq q.transactions
  BY DEF WellFormed
<1>2. \A k \in Image : q.images[k] \subseteq {tx \in q.transactions : k \in ImageSet(tx)}
  BY DEF WellFormed
<1>3. \A k \in Image : \A t1, t2 \in q.images[k] \ q.kept : t1 = t2
  BY DEF WellFormed
<1>4. PrefixRegistered(q)
  BY DEF WellFormed, PrefixRegistered
<1> QED BY <1>1, <1>2, <1>3, <1>4 DEF WellFormed

\* add_tx adds its transaction and no other one, and takes none away.
LEMMA InsertAdds ==
  ASSUME NEW p, NEW tx, NEW kept
  PROVE  /\ p.sorted \subseteq Insert(p, tx, kept).sorted
         /\ Insert(p, tx, kept).transactions \subseteq p.transactions \cup {tx}
         /\ kept /\ tx \notin p.transactions => tx \in Insert(p, tx, kept).kept
<1>1. CASE tx \in p.transactions
  BY <1>1 DEF Insert
<1>2. CASE tx \notin p.transactions
  <2>1. /\ Insert(p, tx, kept).sorted =
             p.sorted \cup (IF InsertErrors(p, tx, kept) = {} THEN {tx} ELSE {})
        /\ Insert(p, tx, kept).transactions = p.transactions \cup {tx}
        /\ Insert(p, tx, kept).kept = p.kept \cup (IF kept THEN {tx} ELSE {})
    BY <1>2 DEF Insert
  <2> QED BY <1>2, <2>1
<1> QED BY <1>1, <1>2

\* The loop of add_tx over the inputs registers images of the transaction only, and
\* a prefix of them: it stops at the first assertion that fails.
LEMMA InsertedImages ==
  ASSUME NEW p \in Pools, NEW tx \in Tx, NEW kept \in BOOLEAN
  PROVE  /\ ImagesInserted(p, tx, kept) \subseteq ImageSet(tx)
         /\ \A k \in ImagesInserted(p, tx, kept) : ~ImageRefuses(p, tx, kept, k)
         /\ \A i \in DOMAIN Images[tx] : 
              Images[tx][i] \in ImagesInserted(p, tx, kept) =>
                \A h \in 1..i : Images[tx][h] \in ImagesInserted(p, tx, kept)
<1>1. \A i \in DOMAIN Images[tx] : i \in Nat \ {0} /\ \A h \in 1..i : h \in DOMAIN Images[tx]
  BY TxAssumption
<1>2. \A i, j \in DOMAIN Images[tx] : Images[tx][i] = Images[tx][j] => i = j
  BY TxAssumption
<1>3. \A k \in ImagesInserted(p, tx, kept) : \E i \in DOMAIN Images[tx] :
        k = Images[tx][i] /\ \A h \in 1..i : ~ImageRefuses(p, tx, kept, Images[tx][h])
  BY DEF ImagesInserted
<1>4. ASSUME NEW i \in DOMAIN Images[tx], Images[tx][i] \in ImagesInserted(p, tx, kept),
             NEW h \in 1..i
      PROVE  Images[tx][h] \in ImagesInserted(p, tx, kept)
  <2>1. \A g \in 1..i : ~ImageRefuses(p, tx, kept, Images[tx][g])
    BY <1>2, <1>3, <1>4
  <2>2. \A g \in 1..h : g \in 1..i
    BY <1>1
  <2>3. h \in DOMAIN Images[tx]
    BY <1>1
  <2> QED BY <2>1, <2>2, <2>3 DEF ImagesInserted
<1> QED BY <1>1, <1>3, <1>4 DEF ImageSet

\* The insertion at the end of add_tx keeps the containers well formed, whether or
\* not one of its assertions fails.
LEMMA InsertWellFormed ==
  ASSUME NEW p, WellFormed(p), NEW tx \in Tx, NEW kept \in BOOLEAN
  PROVE  WellFormed(Insert(p, tx, kept))
<1> DEFINE q == Insert(p, tx, kept)
           ins == ImagesInserted(p, tx, kept)
           also == IF InsertErrors(p, tx, kept) = {} THEN {tx} ELSE {}
<1>1. CASE tx \in p.transactions
  BY <1>1 DEF Insert
<1>2. CASE tx \notin p.transactions
  <2>1. /\ q.transactions = p.transactions \cup {tx}
        /\ q.kept = p.kept \cup (IF kept THEN {tx} ELSE {})
        /\ q.sorted = p.sorted \cup also
        /\ q.images = [k \in Image |-> p.images[k] \cup (IF k \in ins THEN {tx} ELSE {})]
    BY <1>2 DEF Insert
  <2>2. q \in Pools
    BY <1>2 DEF Insert, Pools, WellFormed
  <2>3. /\ q.kept \subseteq q.transactions
        /\ q.sorted \subseteq q.transactions
    BY <2>1 DEF WellFormed
  <2>4. \A k \in Image : q.images[k] = p.images[k] \cup (IF k \in ins THEN {tx} ELSE {})
    BY <2>1
  <2>5. \A k \in Image : tx \notin p.images[k]
    BY <1>2 DEF WellFormed
  <2>6. /\ ins \subseteq ImageSet(tx)
        /\ \A k \in ins : ~ImageRefuses(p, tx, kept, k)
        /\ \A i \in DOMAIN Images[tx] : 
              Images[tx][i] \in ins => \A h \in 1..i : Images[tx][h] \in ins
    BY InsertedImages DEF WellFormed
  <2>7. \A k \in Image : q.images[k] \subseteq {t \in q.transactions : k \in ImageSet(t)}
    BY <2>1, <2>4, <2>6 DEF WellFormed
  <2>8. \A k \in Image : \A t1, t2 \in q.images[k] \ q.kept : t1 = t2
    BY <2>1, <2>4, <2>6 DEF WellFormed, ImageRefuses
  <2>9. PrefixRegistered(q)
    <3> SUFFICES ASSUME NEW t \in Tx, NEW i \in DOMAIN Images[t],
                        t \in q.images[Images[t][i]], NEW h \in 1..i
                 PROVE  t \in q.images[Images[t][h]]
      BY DEF PrefixRegistered
    <3>1. Images[t][i] \in Image /\ Images[t][h] \in Image
      BY InputsAreImages
    <3>2. CASE t = tx
      BY <3>1, <3>2, <2>4, <2>5, <2>6
    <3>3. CASE t # tx
      <4>1. t \in p.images[Images[t][i]]
        BY <3>1, <3>3, <2>4
      <4>2. t \in p.images[Images[t][h]]
        BY <4>1 DEF WellFormed, PrefixRegistered
      <4> QED BY <3>1, <4>2, <2>4
    <3> QED BY <3>2, <3>3
  <2> QED BY <2>2, <2>3, <2>7, <2>8, <2>9 DEF WellFormed
<1> QED BY <1>1, <1>2

\* So does return_tx_to_pool, and the return of the transactions of a popped block.
LEMMA InsertKeptWellFormed ==
  ASSUME NEW p, WellFormed(p), NEW S \in SUBSET Tx
  PROVE  WellFormed(InsertKept(p, S))
<1> DEFINE q == InsertKept(p, S)
           new == S \ p.transactions
           ins(t) == ImagesInserted(p, t, TRUE)
           ok == {t \in new : InsertErrors(p, t, TRUE) = {}}
<1>1. /\ q.transactions = p.transactions \cup new
      /\ q.kept = p.kept \cup new
      /\ q.sorted = p.sorted \cup ok
      /\ q.images = [k \in Image |-> p.images[k] \cup {t \in new : k \in ins(t)}]
  BY DEF InsertKept
<1>2. q \in Pools
  BY Zenon DEF InsertKept, Pools, WellFormed
<1>3. /\ q.kept \subseteq q.transactions
      /\ q.sorted \subseteq q.transactions
  BY <1>1, Zenon DEF WellFormed
<1>4. \A k \in Image : q.images[k] = p.images[k] \cup {t \in new : k \in ins(t)}
  BY <1>1
<1>5. \A t \in new : \A k \in Image : t \notin p.images[k]
  BY DEF WellFormed
<1>6. \A t \in new :
        /\ ins(t) \subseteq ImageSet(t)
        /\ \A i \in DOMAIN Images[t] : 
              Images[t][i] \in ins(t) => \A h \in 1..i : Images[t][h] \in ins(t)
  BY InsertedImages, Zenon DEF WellFormed
<1> HIDE DEF q, new, ins, ok
<1>7. \A k \in Image : q.images[k] \subseteq {t \in q.transactions : k \in ImageSet(t)}
  <2> SUFFICES ASSUME NEW k \in Image, NEW t \in q.images[k]
               PROVE  t \in q.transactions /\ k \in ImageSet(t)
    OBVIOUS
  <2>1. CASE t \in p.images[k]
    BY <1>1, <2>1 DEF WellFormed
  <2>2. CASE t \in new /\ k \in ins(t)
    BY <1>1, <1>6, <2>2
  <2> QED BY <1>4, <2>1, <2>2
<1>8. \A k \in Image : \A t1, t2 \in q.images[k] \ q.kept : t1 = t2
  <2> SUFFICES ASSUME NEW k \in Image, NEW t \in q.images[k] \ q.kept
               PROVE  t \in p.images[k] \ p.kept
    BY DEF WellFormed
  <2> QED BY <1>1, <1>4
<1>9. PrefixRegistered(q)
  <2> SUFFICES ASSUME NEW t \in Tx, NEW i \in DOMAIN Images[t],
                      t \in q.images[Images[t][i]], NEW h \in 1..i
               PROVE  t \in q.images[Images[t][h]]
    BY DEF PrefixRegistered
  <2>1. Images[t][i] \in Image /\ Images[t][h] \in Image
    BY InputsAreImages
  <2>2. CASE t \in new
    BY <2>1, <2>2, <1>4, <1>5, <1>6
  <2>3. CASE t \notin new
    <3>1. t \in p.images[Images[t][i]]
      BY <2>1, <2>3, <1>4
    <3>2. t \in p.images[Images[t][h]]
      BY <3>1 DEF WellFormed, PrefixRegistered
    <3> QED BY <2>1, <3>2, <1>4
  <2> QED BY <2>2, <2>3
<1> QED BY <1>2, <1>3, <1>7, <1>8, <1>9 DEF WellFormed, q

\* A removal, early return and all, forgets every image of what it removes:
\* the images it would skip are not registered.
LEMMA RemovesEveryImage ==
  ASSUME NEW p, WellFormed(p), NEW S, NEW k \in Image
  PROVE  RemoveImages(p, S)[k] = p.images[k] \ S
<1>1. ASSUME NEW t \in S, t \in p.images[k]
      PROVE  k \in ImagesRemoved(p, t)
  <2>1. t \in Tx /\ k \in ImageSet(t)
    BY <1>1 DEF WellFormed, Pools
  <2>2. PICK i \in DOMAIN Images[t] : k = Images[t][i]
    BY <2>1 DEF ImageSet
  <2>3. \A h \in 1..i : t \in p.images[Images[t][h]]
    BY <1>1, <2>1, <2>2 DEF WellFormed, PrefixRegistered
  <2> QED BY <2>2, <2>3 DEF ImagesRemoved
<1> QED BY <1>1 DEF RemoveImages

\* take_tx and the expiry of transactions keep the containers well formed.
LEMMA RemoveWellFormed ==
  ASSUME NEW p, WellFormed(p), NEW S
  PROVE  WellFormed(Remove(p, S))
<1> DEFINE q == Remove(p, S)
<1>1. /\ q.transactions = p.transactions \ S
      /\ q.kept = p.kept \ S
      /\ q.sorted = p.sorted \ S
      /\ q.images = RemoveImages(p, S)
  BY DEF Remove
<1>2. \A k \in Image : q.images[k] = p.images[k] \ S
  BY <1>1, RemovesEveryImage
<1>3. q \in Pools
  BY DEF Remove, RemoveImages, RemoveAliases, Pools, WellFormed
<1>4. /\ q.kept \subseteq q.transactions
      /\ q.sorted \subseteq q.transactions
      /\ \A k \in Image : q.images[k] \subseteq {t \in q.transactions : k \in ImageSet(t)}
      /\ \A k \in Image : \A t1, t2 \in q.images[k] \ q.kept : t1 = t2
  BY <1>1, <1>2 DEF WellFormed
<1>5. PrefixRegistered(q)
  <2> SUFFICES ASSUME NEW t \in Tx, NEW i \in DOMAIN Images[t],
                      t \in q.images[Images[t][i]], NEW h \in 1..i
               PROVE  t \in q.images[Images[t][h]]
    BY DEF PrefixRegistered
  <2>1. Images[t][i] \in Image /\ Images[t][h] \in Image
    BY InputsAreImages
  <2>2. t \in p.images[Images[t][h]] /\ t \notin S
    BY <1>2, <2>1 DEF WellFormed, PrefixRegistered
  <2> QED BY <1>2, <2>1, <2>2
<1> QED BY <1>3, <1>4, <1>5 DEF WellFormed

\* init and validate make a well-formed pool from a well-formed state file.
LEMMA LoadedWellFormed ==
  ASSUME NEW p, WellFormed(p), NEW c
  PROVE  WellFormed(Loaded(p, c))
<1> DEFINE f == [p EXCEPT !.sorted = p.transactions]
<1>1. WellFormed(f)
  <2>1. /\ f \in Pools
        /\ f.transactions = p.transactions
        /\ f.kept = p.kept
        /\ f.images = p.images
        /\ f.sorted = p.transactions
    BY DEF WellFormed, Pools
  <2> QED BY <2>1 DEF WellFormed, PrefixRegistered
<1>2. ASSUME NEW S
      PROVE  WellFormed([Remove(f, S) EXCEPT !.aliases = f.aliases])
  <2> DEFINE q == Remove(f, S)
             r == [q EXCEPT !.aliases = f.aliases]
  <2>1. WellFormed(q)
    BY <1>1, RemoveWellFormed
  <2> HIDE DEF q
  <2>2. f.aliases \in [Alias -> SUBSET Tx]
    BY <1>1 DEF WellFormed, Pools
  <2> HIDE DEF f
  <2>3. /\ r \in Pools
        /\ r.transactions = q.transactions
        /\ r.kept = q.kept
        /\ r.images = q.images
        /\ r.sorted = q.sorted
    BY <2>1, <2>2 DEF WellFormed, Pools
  <2>4. WellFormed(r)
    BY <2>1, <2>3 DEF WellFormed, PrefixRegistered
  <2> QED BY <2>4 DEF q
<1> QED BY <1>2 DEF Loaded, Validate

(***************************************************************************)
(* The index.  As long as no assertion of add_tx has failed, what is in    *)
(* m_transactions is registered under all its images and its alias, and    *)
(* the state file says the same of what it holds.                          *)
(***************************************************************************)
Registered(p) ==
  \A tx \in p.transactions :
    /\ \A k \in ImageSet(tx) : tx \in p.images[k]
    /\ AliasOf[tx] # NoAlias => tx \in p.aliases[AliasOf[tx]]

Harmless == {"already in pool"}

\* An insertion of add_tx without a failed assertion registers the transaction in
\* every container.
LEMMA InsertRegisters ==
  ASSUME NEW p, WellFormed(p), Registered(p), p.sorted = p.transactions,
         NEW tx \in Tx, NEW kept \in BOOLEAN,
         InsertErrors(p, tx, kept) \subseteq Harmless
  PROVE  LET q == Insert(p, tx, kept)
         IN  Registered(q) /\ q.sorted = q.transactions
<1> DEFINE q == Insert(p, tx, kept)
<1>1. CASE tx \in p.transactions
  BY <1>1 DEF Insert
<1>2. CASE tx \notin p.transactions
  <2>1. /\ InsertErrors(p, tx, kept) = {}
        /\ ImagesInserted(p, tx, kept) = ImageSet(tx)
    BY <1>2, Zenon DEF InsertErrors, Harmless
  <2>2. /\ q.transactions = p.transactions \cup {tx}
        /\ q.sorted = p.sorted \cup {tx}
        /\ q.images = [k \in Image |-> p.images[k] \cup
                                        (IF k \in ImageSet(tx) THEN {tx} ELSE {})]
        /\ q.aliases = [a \in Alias |-> p.aliases[a] \cup
                                         (IF a = AliasOf[tx] THEN {tx} ELSE {})]
    BY <1>2, <2>1 DEF Insert
  <2>3. p.transactions \subseteq Tx
    BY DEF WellFormed, Pools
  <2>4. \A t \in Tx : ImageSet(t) \subseteq Image /\ AliasOf[t] \in Alias \cup {NoAlias}
    BY InputsAreImages
  <2>5. Registered(q)
    BY <2>2, <2>3, <2>4 DEF Registered
  <2> QED BY <2>2, <2>5
<1> QED BY <1>1, <1>2

\* The same for the transactions that a refused or popped block returns.
LEMMA InsertKeptRegisters ==
  ASSUME NEW p, WellFormed(p), Registered(p), p.sorted = p.transactions,
         NEW S \in SUBSET Tx, KeptErrors(p, S) \subseteq Harmless
  PROVE  LET q == InsertKept(p, S)
         IN  Registered(q) /\ q.sorted = q.transactions
<1> DEFINE q == InsertKept(p, S)
           new == S \ p.transactions
<1>1. \A t \in new : /\ InsertErrors(p, t, TRUE) = {}
                     /\ ImagesInserted(p, t, TRUE) = ImageSet(t)
  <2> SUFFICES ASSUME NEW t \in new
               PROVE  /\ InsertErrors(p, t, TRUE) = {}
                      /\ ImagesInserted(p, t, TRUE) = ImageSet(t)
    BY Zenon
  <2>1. InsertErrors(p, t, TRUE) \subseteq Harmless
    BY Zenon DEF KeptErrors
  <2> QED BY <2>1, Zenon DEF InsertErrors, Harmless
<1>2. /\ q.transactions = p.transactions \cup new
      /\ q.sorted = p.sorted \cup {t \in new : InsertErrors(p, t, TRUE) = {}}
      /\ q.images = [k \in Image |->
                       p.images[k] \cup {t \in new : k \in ImagesInserted(p, t, TRUE)}]
      /\ q.aliases = [a \in Alias |->
           p.aliases[a] \cup {t \in {u \in new : InsertErrors(p, u, TRUE) = {}} : AliasOf[t] = a}]
  BY DEF InsertKept
<1>3. /\ q.sorted = q.transactions
      /\ \A k \in Image : q.images[k] = p.images[k] \cup {t \in new : k \in ImageSet(t)}
      /\ \A a \in Alias : q.aliases[a] = p.aliases[a] \cup {t \in new : AliasOf[t] = a}
  <2>1. {t \in new : InsertErrors(p, t, TRUE) = {}} = new
    BY <1>1, Zenon
  <2>2. \A k \in Image : {t \in new : k \in ImagesInserted(p, t, TRUE)}
                           = {t \in new : k \in ImageSet(t)}
    BY <1>1, Zenon
  <2> HIDE DEF q, new
  <2> QED BY <1>2, <2>1, <2>2, Zenon
<1>4. p.transactions \subseteq Tx /\ new \subseteq Tx
  BY DEF WellFormed, Pools
<1>5. \A t \in Tx : ImageSet(t) \subseteq Image /\ AliasOf[t] \in Alias \cup {NoAlias}
  BY InputsAreImages
<1> HIDE DEF q, new
<1>6. Registered(q)
  <2> SUFFICES ASSUME NEW t \in q.transactions
               PROVE  /\ \A k \in ImageSet(t) : t \in q.images[k]
                      /\ AliasOf[t] # NoAlias => t \in q.aliases[AliasOf[t]]
    BY DEF Registered
  <2>1. t \in Tx
    BY <1>2, <1>4
  <2>2. CASE t \in p.transactions
    BY <1>3, <1>5, <2>1, <2>2 DEF Registered
  <2>3. CASE t \in new
    BY <1>3, <1>5, <2>1, <2>3
  <2> QED BY <1>2, <2>2, <2>3, Zenon
<1> QED BY <1>3, <1>6 DEF q

\* take_tx leaves the transactions that stay registered in every container.
LEMMA RemoveRegisters ==
  ASSUME NEW p, WellFormed(p), Registered(p), NEW S
  PROVE  Registered(Remove(p, S))
<1> DEFINE q == Remove(p, S)
<1>1. /\ q.transactions = p.transactions \ S
      /\ q.images = RemoveImages(p, S)
      /\ q.aliases = RemoveAliases(p, S)
  BY DEF Remove
<1>2. \A k \in Image : q.images[k] = p.images[k] \ S
  BY <1>1, RemovesEveryImage
<1>3. \A a \in Alias : q.aliases[a] = p.aliases[a] \ {t \in S : AliasOf[t] = a}
  BY <1>1 DEF RemoveAliases
<1>4. p.transactions \subseteq Tx
  BY DEF WellFormed, Pools
<1>5. \A t \in Tx : ImageSet(t) \subseteq Image /\ AliasOf[t] \in Alias \cup {NoAlias}
  BY InputsAreImages
<1> QED BY <1>1, <1>2, <1>3, <1>4, <1>5 DEF Registered

\* init and validate leave the transactions that stay registered in every container.
LEMMA LoadedRegisters ==
  ASSUME NEW p, WellFormed(p), Registered(p), NEW c
  PROVE  LET q == Loaded(p, c)
         IN  Registered(q) /\ q.sorted = q.transactions
<1> DEFINE f == [p EXCEPT !.sorted = p.transactions]
<1>1. /\ f \in Pools
      /\ f.transactions = p.transactions
      /\ f.kept = p.kept
      /\ f.images = p.images
      /\ f.aliases = p.aliases
      /\ f.sorted = p.transactions
  BY DEF WellFormed, Pools
<1>2. WellFormed(f) /\ Registered(f)
  BY <1>1 DEF WellFormed, PrefixRegistered, Registered
<1> HIDE DEF f
<1>3. ASSUME NEW S
      PROVE  LET r == [Remove(f, S) EXCEPT !.aliases = f.aliases]
             IN  Registered(r) /\ r.sorted = r.transactions
  <2> DEFINE r == [Remove(f, S) EXCEPT !.aliases = f.aliases]
  <2>1. Registered(Remove(f, S))
    BY <1>2, RemoveRegisters
  <2>2. /\ r.transactions = Remove(f, S).transactions
        /\ r.images = Remove(f, S).images
        /\ r.aliases = f.aliases
        /\ r.sorted = f.sorted \ S
        /\ r.transactions = f.transactions \ S
    BY DEF Remove
  <2>3. Registered(r)
    BY <1>2, <2>1, <2>2 DEF Registered
  <2> QED BY <1>1, <2>2, <2>3
<1> QED BY <1>3 DEF Loaded, Validate, f

(***************************************************************************)
(* The invariant and its preservation, action by action.                   *)
(***************************************************************************)
Inv ==
  /\ TypeOK
  /\ WellFormed(pool)
  /\ WellFormed(saved)
  /\ errors \subseteq Harmless =>
       /\ Registered(pool)
       /\ pool.sorted = pool.transactions
       /\ Registered(saved)

\* What an action owes when it leaves the state file alone.
PoolStep ==
  /\ WellFormed(pool')
  /\ errors' \subseteq Harmless /\ errors \subseteq Harmless
       => (Registered(pool') /\ pool'.sorted = pool'.transactions)
  /\ errors \subseteq errors'
  /\ errors' \subseteq {"already in pool", "key image", "alias", "duplicate alias entry"}

\* The assertions of add_tx that the history variable distinguishes.
LEMMA ErrorNames ==
  ASSUME NEW p, NEW tx, NEW kept
  PROVE  InsertErrors(p, tx, kept)
           \subseteq {"already in pool", "key image", "alias", "duplicate alias entry"}
BY Zenon DEF InsertErrors

\* The same for the transactions that a block returns.
LEMMA KeptErrorNames ==
  ASSUME NEW p, NEW S
  PROVE  KeptErrors(p, S)
           \subseteq {"already in pool", "key image", "alias", "duplicate alias entry"}
<1> DEFINE E == {"already in pool", "key image", "alias", "duplicate alias entry"}
<1>1. \A tx \in S : InsertErrors(p, tx, TRUE) \subseteq E
  BY ErrorNames, Zenon
<1> HIDE DEF E
<1>2. KeptErrors(p, S) \subseteq E
  BY <1>1, Zenon DEF KeptErrors
<1> QED BY <1>2, Zenon DEF E

\* A block that handle_block_to_main_chain looks at holds transactions only.
LEMMA BodiesOfTx ==
  /\ \A body \in Bodies : BodySet(body) \subseteq Tx
  /\ \A body \in Bodies : \A i \in DOMAIN body :
       TakenBefore(body, i) \subseteq Tx /\ TakenBefore(body, i + 1) \subseteq Tx
<1> SUFFICES ASSUME NEW body \in Bodies
             PROVE  /\ BodySet(body) \subseteq Tx
                    /\ \A i \in DOMAIN body : /\ TakenBefore(body, i) \subseteq Tx
                                              /\ TakenBefore(body, i + 1) \subseteq Tx
  OBVIOUS
<1>1. body \in Seq(Tx)
  BY TxAssumption
<1>2. \A i \in DOMAIN body : body[i] \in Tx /\ i \in 1..Len(body)
  BY <1>1
<1>3. Len(body) \in Nat /\ DOMAIN body = 1..Len(body)
  BY <1>1
<1>4. \A i \in 1..Len(body) : /\ \A j \in 1..(i - 1) : j \in 1..Len(body)
                              /\ \A j \in 1..((i + 1) - 1) : j \in 1..Len(body)
  BY <1>3
<1> QED BY <1>2, <1>3, <1>4 DEF BodySet, TakenBefore

\* What add_transaction_data puts into the alias cache are aliases.
LEMMA AliasesOfTx == \A S \in SUBSET Tx : AliasesIn(S) \subseteq Alias
BY TxAssumption DEF AliasesIn

\* The transactions of the main chain are transactions.
LEMMA MinedOfTx ==
  ASSUME NEW c \in Seq(Bodies)
  PROVE  Mined(c) \subseteq Tx
BY BodiesOfTx DEF Mined

\* return_tx_to_pool after take_tx: what an action that refuses a block owes.
LEMMA ReturnStep ==
  ASSUME Inv, NEW S \in SUBSET Tx, ReturnTxToPool(S)
  PROVE  PoolStep
<1> DEFINE taken == Remove(pool, S)
<1>1. WellFormed(taken)
  BY RemoveWellFormed DEF Inv
<1>2. WellFormed(InsertKept(taken, S))
  BY <1>1, InsertKeptWellFormed
<1>3. ASSUME errors \subseteq Harmless, errors' \subseteq Harmless
      PROVE  Registered(pool') /\ pool'.sorted = pool'.transactions
  <2>1. Registered(taken)
    BY <1>3, RemoveRegisters DEF Inv
  <2>2. taken.sorted = taken.transactions
    BY <1>3 DEF Inv, Remove
  <2>3. KeptErrors(taken, S) \subseteq Harmless
    BY <1>3 DEF ReturnTxToPool
  <2> HIDE DEF taken
  <2>4. LET q == InsertKept(taken, S) IN Registered(q) /\ q.sorted = q.transactions
    BY <1>1, <2>1, <2>2, <2>3, InsertKeptRegisters
  <2> QED BY <2>4 DEF ReturnTxToPool, taken
<1>4. KeptErrors(taken, S) \subseteq {"already in pool", "key image", "alias", "duplicate alias entry"}
  BY KeptErrorNames, Zenon
<1> QED BY <1>2, <1>3, <1>4, Zenon DEF ReturnTxToPool, PoolStep, Inv, TypeOK

\* A step of the incoming thread that only moves its control state keeps Inv.
LEMMA OtherPartsUnchanged ==
  ASSUME Inv, OnlyIncoming, incoming' \in {Idle} \cup Working
  PROVE  Inv'
<1> USE DEF OnlyIncoming
<1>1. TypeOK'
  BY Zenon DEF Inv, TypeOK
<1>2. WellFormed(pool)' /\ WellFormed(saved)'
  BY DEF Inv, WellFormed, PrefixRegistered
<1>3. /\ Registered(pool) => Registered(pool)'
      /\ Registered(saved) => Registered(saved)'
      /\ errors' = errors /\ pool' = pool
  BY DEF Registered
<1> QED BY <1>1, <1>2, <1>3 DEF Inv

\* The steps of core::handle_incoming_tx and of add_tx keep Inv.
LEMMA IncomingSteps ==
  ASSUME Inv,
         \/ \E tx \in Tx, kept \in BOOLEAN : HandleIncomingTx(tx, kept)
         \/ IncomingStep
  PROVE  Inv'
<1> USE DEF OnlyIncoming
<1>1. incoming.at \in Stages => incoming \in Working
  <2>1. Idle.at = "idle"
    BY DEF Idle
  <2>2. "idle" \notin Stages
    BY DEF Stages
  <2> QED BY <2>1, <2>2, Zenon DEF Inv, TypeOK
<1>2. ASSUME OnlyIncoming, incoming' \in {Idle} \cup Working
      PROVE  Inv'
  BY <1>2, OtherPartsUnchanged
<1>3. ASSUME incoming.at \in Stages, NEW stage \in Stages, Goto(stage)
      PROVE  incoming' \in Working
  BY <1>1, <1>3 DEF Goto, Working
<1>4. ASSUME NEW tx \in Tx, NEW kept \in BOOLEAN, HandleIncomingTx(tx, kept)
      PROVE  Inv'
  BY <1>2, <1>4 DEF HandleIncomingTx, Working, Stages
<1>5. CASE HaveTx
  BY <1>2, <1>3, <1>5 DEF HaveTx, Stages
<1>6. CASE HaveTxInChain
  BY <1>2, <1>3, <1>6 DEF HaveTxInChain, Stages
<1>7. CASE CheckPolicy
  BY <1>2, <1>3, <1>7 DEF CheckPolicy, Stages
<1>8. CASE CheckPoolImages
  BY <1>2, <1>3, <1>8 DEF CheckPoolImages, Stages
<1>9. CASE CheckPoolAliases
  BY <1>2, <1>3, <1>9 DEF CheckPoolAliases, Stages
<1>10. CASE CheckInputs
  <2>1. incoming \in Working
    BY <1>1, <1>10 DEF CheckInputs, Stages
  <2>2. incoming' \in Working
    BY <1>10, <2>1, Zenon DEF CheckInputs, Working, Stages
  <2> QED BY <1>2, <1>10, <2>2 DEF CheckInputs
<1>11. CASE CheckAliasDuplicity
  <2>1. incoming \in Working
    BY <1>1, <1>11 DEF CheckAliasDuplicity, Stages
  <2>2. incoming' \in Working
    BY <1>11, <2>1, Zenon DEF CheckAliasDuplicity, Working, Stages
  <2> QED BY <1>2, <1>11, <2>2 DEF CheckAliasDuplicity
<1>12. CASE InsertTx
  <2>1. incoming.tx \in Tx /\ incoming.kept \in BOOLEAN
    BY <1>1, <1>12 DEF InsertTx, Stages, Working
  <2>2. CASE pool' = pool /\ errors' = errors
    BY <1>12, <2>2, <1>2 DEF InsertTx
  <2>3. CASE /\ pool' = Insert(pool, incoming.tx, incoming.kept)
             /\ errors' = errors \cup InsertErrors(pool, incoming.tx, incoming.kept)
    <3>1. WellFormed(pool')
      BY <2>1, <2>3, InsertWellFormed DEF Inv
    <3>2. ASSUME errors' \subseteq Harmless
          PROVE  Registered(pool') /\ pool'.sorted = pool'.transactions
      <4>1. /\ errors \subseteq Harmless
            /\ InsertErrors(pool, incoming.tx, incoming.kept) \subseteq Harmless
        BY <2>3, <3>2
      <4>2. LET q == Insert(pool, incoming.tx, incoming.kept)
            IN  Registered(q) /\ q.sorted = q.transactions
        BY <2>1, <4>1, InsertRegisters DEF Inv
      <4> QED BY <2>3, <4>2
    <3>3. errors' \subseteq {"already in pool", "key image", "alias", "duplicate alias entry"}
      BY <2>3, ErrorNames, Zenon DEF Inv, TypeOK
    <3>4. /\ chain' = chain /\ aliasCache' = aliasCache /\ locked' = locked
          /\ saved' = saved /\ restarts' = restarts /\ incoming' = Idle
      BY <1>12 DEF InsertTx
    <3>5. TypeOK'
      BY <3>1, <3>3, <3>4, Zenon DEF Inv, TypeOK, WellFormed
    <3>6. WellFormed(saved)' /\ (errors' \subseteq Harmless => Registered(saved)')
      BY <2>3, <3>4 DEF Inv, WellFormed, PrefixRegistered, Registered
    <3> QED BY <3>1, <3>2, <3>5, <3>6 DEF Inv
  <2> QED BY <1>12, <2>2, <2>3 DEF InsertTx
<1> QED BY <1>4, <1>5, <1>6, <1>7, <1>8, <1>9, <1>10, <1>11, <1>12 DEF IncomingStep

\* A step that keeps PoolStep and the types of the rest keeps Inv.
LEMMA PoolStepInv ==
  ASSUME Inv, PoolStep, UNCHANGED <<saved, restarts, incoming>>,
         chain' \in Seq(Bodies), aliasCache' \subseteq Alias, locked' \in BOOLEAN
  PROVE  Inv'
<1>1. TypeOK'
  BY Zenon DEF Inv, TypeOK, PoolStep, WellFormed
<1>2. WellFormed(saved)'
  BY DEF Inv, WellFormed, PrefixRegistered
<1>3. Registered(saved) => Registered(saved)'
  BY DEF Registered
<1>4. errors' \subseteq Harmless => errors \subseteq Harmless
  BY Zenon DEF PoolStep
<1> QED BY <1>1, <1>2, <1>3, <1>4, Zenon DEF Inv, PoolStep

\* Adding, refusing and popping a block keep Inv.
LEMMA BlockSteps ==
  ASSUME Inv, 
         \/ \E body \in Bodies : AddBlock(body) \/ FailBlock(body)
         \/ PopBlock
  PROVE  Inv'
<1>1. ASSUME NEW body \in Bodies, AddBlock(body)
      PROVE  Inv'
  <2>1. WellFormed(pool')
    BY <1>1, RemoveWellFormed DEF AddBlock, Inv
  <2>2. errors \subseteq Harmless => Registered(pool') /\ pool'.sorted = pool'.transactions
    BY <1>1, RemoveRegisters DEF AddBlock, Inv, Remove
  <2>3. chain' \in Seq(Bodies)
    <3>1. chain' = Append(chain, body)
      BY <1>1 DEF AddBlock
    <3>2. chain \in Seq(Bodies)
      BY Zenon DEF Inv, TypeOK
    <3> QED BY <3>1, <3>2
  <2>4. aliasCache' \subseteq Alias
    <3>1. aliasCache' = aliasCache \cup AliasesIn(BodySet(body))
      BY <1>1 DEF AddBlock
    <3>2. AliasesIn(BodySet(body)) \subseteq Alias
      BY BodiesOfTx, AliasesOfTx
    <3> QED BY <3>1, <3>2, Zenon DEF Inv, TypeOK
  <2> QED BY <1>1, <2>1, <2>2, <2>3, <2>4, PoolStepInv, Zenon DEF AddBlock, PoolStep, Inv, TypeOK
<1>2. ASSUME NEW body \in Bodies, FailBlock(body)
      PROVE  Inv'
  <2>1. /\ UNCHANGED <<saved, restarts, incoming>>
        /\ chain' \in Seq(Bodies) /\ locked' \in BOOLEAN
    BY <1>2, Zenon DEF FailBlock, Inv, TypeOK
  <2>2. CASE RefuseBlock(body)
    <3>1. PICK i \in DOMAIN body :
            \/ ReturnTxToPool(TakenBefore(body, i))
            \/ ReturnTxToPool(TakenBefore(body, i + 1))
      BY <2>2 DEF RefuseBlock, FirstIndex, TxProblems
    <3>2. PoolStep
      BY <3>1, ReturnStep, BodiesOfTx
    <3> QED BY <2>1, <2>2, <3>2, PoolStepInv, Zenon DEF RefuseBlock, Inv, TypeOK
  <2>3. CASE RefuseMinerTx(body)
    <3>1. PoolStep
      BY <2>3, ReturnStep, BodiesOfTx DEF RefuseMinerTx
    <3> QED BY <2>1, <2>3, <3>1, PoolStepInv, Zenon DEF RefuseMinerTx, Inv, TypeOK
  <2>4. CASE DbAddFails(body)
    <3>1. PoolStep
      BY <2>4, ReturnStep, BodiesOfTx DEF DbAddFails
    <3>2. PICK i \in DOMAIN body :
            aliasCache' = aliasCache \cup AliasesIn(TakenBefore(body, i))
      BY <2>4 DEF DbAddFails, FirstIndex, DbProblems
    <3>3. aliasCache' \subseteq Alias
      BY <3>2, BodiesOfTx, AliasesOfTx, Zenon DEF Inv, TypeOK
    <3> QED BY <2>1, <3>1, <3>3, PoolStepInv
  <2> QED BY <1>2, <2>2, <2>3, <2>4 DEF FailBlock
<1>3. CASE PopBlock
  <2> DEFINE popped == BodySet(chain[Len(chain)])
  <2>1. chain \in Seq(Bodies) /\ chain # <<>>
    BY <1>3, Zenon DEF PopBlock, Inv, TypeOK
  <2>2. popped \in SUBSET Tx
    BY <2>1, BodiesOfTx
  <2>3. /\ pool' = InsertKept(pool, popped)
        /\ errors' = errors \cup KeptErrors(pool, popped)
        /\ aliasCache' = aliasCache \ AliasesIn(popped)
        /\ chain' = SubSeq(chain, 1, Len(chain) - 1)
        /\ locked' \in BOOLEAN
        /\ UNCHANGED <<incoming, saved, restarts>>
    BY <1>3 DEF PopBlock
  <2> HIDE DEF popped
  <2>4. chain' \in Seq(Bodies)
    BY <2>1, <2>3
  <2>5. WellFormed(pool')
    BY <2>2, <2>3, InsertKeptWellFormed DEF Inv
  <2>6. ASSUME errors' \subseteq Harmless
        PROVE  Registered(pool') /\ pool'.sorted = pool'.transactions
    <3>1. errors \subseteq Harmless /\ KeptErrors(pool, popped) \subseteq Harmless
      BY <2>3, <2>6
    <3>2. LET q == InsertKept(pool, popped) IN Registered(q) /\ q.sorted = q.transactions
      BY <2>2, <3>1, InsertKeptRegisters DEF Inv
    <3> QED BY <2>3, <3>2
  <2>7. PoolStep
    BY <2>3, <2>5, <2>6, KeptErrorNames, Zenon DEF PoolStep, Inv, TypeOK
  <2>8. aliasCache' \subseteq Alias
    BY <2>3, Zenon DEF Inv, TypeOK
  <2> QED BY <2>3, <2>4, <2>7, <2>8, PoolStepInv
<1> QED BY <1>1, <1>2, <1>3

\* Expiry, flush, clean restart and crash keep Inv.
LEMMA HousekeepingSteps ==
  ASSUME Inv,
         \/ \E S \in SUBSET Tx : RemoveStuckTransactions(S)
         \/ \E tx \in Tx : FlushTx(tx)
         \/ CleanRestart
         \/ Crash
  PROVE  Inv'
<1>1. ASSUME NEW S \in SUBSET Tx, RemoveStuckTransactions(S)
      PROVE  Inv'
  <2> DEFINE q == Remove(pool, S)
  <2>1. WellFormed(q)
    BY RemoveWellFormed DEF Inv
  <2>2. errors \subseteq Harmless => Registered(q) /\ q.sorted = q.transactions
    BY RemoveRegisters DEF Inv, Remove
  <2>3. pool' = [q EXCEPT !.timedOut = q.timedOut \cup S]
    BY <1>1 DEF RemoveStuckTransactions
  <2> HIDE DEF q
  <2>4. /\ pool' \in Pools
        /\ pool'.transactions = q.transactions
        /\ pool'.kept = q.kept
        /\ pool'.sorted = q.sorted
        /\ pool'.images = q.images
        /\ pool'.aliases = q.aliases
    BY <2>1, <2>3 DEF WellFormed, Pools
  <2>5. WellFormed(pool')
    BY <2>1, <2>4, SameContainers
  <2>6. errors \subseteq Harmless => Registered(pool') /\ pool'.sorted = pool'.transactions
    BY <2>2, <2>4 DEF Registered
  <2> QED BY <1>1, <2>5, <2>6, PoolStepInv, Zenon
          DEF RemoveStuckTransactions, PoolStep, Inv, TypeOK
<1>2. ASSUME NEW tx \in Tx, FlushTx(tx)
      PROVE  Inv'
  <2>1. WellFormed(pool')
    BY <1>2, RemoveWellFormed DEF FlushTx, Inv
  <2>2. errors \subseteq Harmless => Registered(pool') /\ pool'.sorted = pool'.transactions
    BY <1>2, RemoveRegisters DEF FlushTx, Inv, Remove
  <2> QED BY <1>2, <2>1, <2>2, PoolStepInv, Zenon DEF FlushTx, PoolStep, Inv, TypeOK
<1>3. ASSUME NEW file, WellFormed(file), Boot(file),
             errors \subseteq Harmless => Registered(file)
      PROVE  Inv'
  <2>1. /\ restarts' = restarts + 1 /\ restarts < MaxRestarts
        /\ saved' = file /\ pool' = Loaded(file, chain) /\ incoming' = Idle
        /\ aliasCache' = AliasesIn(Mined(chain)) /\ locked' = FALSE
        /\ chain' = chain /\ errors' = errors
    BY <1>3 DEF Boot
  <2>2. WellFormed(pool')
    BY <1>3, <2>1, LoadedWellFormed
  <2>3. aliasCache' \subseteq Alias
    BY <2>1, MinedOfTx, AliasesOfTx, Zenon DEF Inv, TypeOK
  <2>4. restarts' \in 0..MaxRestarts
    <3>1. restarts \in 0..MaxRestarts
      BY Zenon DEF Inv, TypeOK
    <3>2. MaxRestarts \in Nat
      BY TxAssumption
    <3> QED BY <2>1, <3>1, <3>2
  <2>5. TypeOK'
    BY <1>3, <2>1, <2>2, <2>3, <2>4, Zenon DEF Inv, TypeOK, WellFormed
  <2>6. errors' \subseteq Harmless => /\ Registered(pool')
                                      /\ pool'.sorted = pool'.transactions
                                      /\ Registered(saved')
    BY <1>3, <2>1, LoadedRegisters
  <2>7. WellFormed(saved')
    BY <1>3, <2>1
  <2> QED BY <2>2, <2>5, <2>6, <2>7 DEF Inv
<1>4. CASE CleanRestart
  <2> DEFINE f == Serialized(pool)
  <2>1. /\ f \in Pools
        /\ f.transactions = pool.transactions
        /\ f.kept = pool.kept
        /\ f.sorted = {}
        /\ f.images = pool.images
        /\ f.aliases = pool.aliases
    BY DEF Serialized, Inv, WellFormed, Pools
  <2> HIDE DEF f
  <2>2. WellFormed(f)
    <3>1. WellFormed(pool)
      BY DEF Inv
    <3> QED BY <2>1, <3>1, SameContainers
  <2>3. errors \subseteq Harmless => Registered(f)
    BY <2>1 DEF Inv, Registered
  <2>4. Boot(f)
    BY <1>4 DEF CleanRestart, f
  <2> QED BY <1>3, <2>2, <2>3, <2>4
<1>5. CASE Crash
  <2>1. Registered(NoFile)
    BY DEF NoFile, EmptyPool, Registered
  <2> QED BY <1>3, <1>5, <2>1, EmptyWellFormed DEF Crash, NoFile, Inv
<1> QED BY <1>1, <1>2, <1>3, <1>4, <1>5

\* Inv holds when the daemon starts for the first time.
LEMMA InitInv == Init => Inv
<1> SUFFICES ASSUME Init PROVE Inv
  OBVIOUS
<1>1. Registered(EmptyPool) /\ EmptyPool.sorted = EmptyPool.transactions
  BY DEF EmptyPool, Registered
<1>2. TypeOK
  <2>1. EmptyPool \in Pools
    BY EmptyWellFormed DEF WellFormed
  <2>2. 0 \in 0..MaxRestarts
    BY TxAssumption
  <2>3. <<>> \in Seq(Bodies)
    OBVIOUS
  <2> QED BY <2>1, <2>2, <2>3, Zenon DEF Init, TypeOK, NoFile
<1> QED BY <1>1, <1>2, EmptyWellFormed DEF Init, Inv, NoFile

\* Inv is inductive.
LEMMA NextInv == Inv /\ [Next]_vars => Inv'
<1> SUFFICES ASSUME Inv, [Next]_vars PROVE Inv'
  OBVIOUS
<1>1. CASE UNCHANGED vars
  <2>1. OnlyIncoming /\ incoming' = incoming
    BY <1>1 DEF vars, OnlyIncoming
  <2> QED BY <2>1, OtherPartsUnchanged, Zenon DEF Inv, TypeOK
<1>2. CASE Next
  BY <1>2, IncomingSteps, BlockSteps, HousekeepingSteps DEF Next
<1> QED BY <1>1, <1>2

\* The inductive invariant behind the theorems on the containers of tx_memory_pool.
THEOREM Invariance == Spec => []Inv
BY InitInv, NextInv, PTL DEF Spec

\* The containers of tx_memory_pool keep their types in every execution.
THEOREM TypeCorrect == Spec => []TypeOK
<1>1. Inv => TypeOK
  BY DEF Inv
<1> QED BY <1>1, Invariance, PTL

\* fill_block_template never follows an entry of the sorted container to a
\* transaction that is gone.
THEOREM SortedAlwaysHaveDetails == Spec => []SortedHaveDetails
<1>1. Inv => SortedHaveDetails
  BY DEF Inv, WellFormed, SortedHaveDetails
<1> QED BY <1>1, Invariance, PTL

\* The early returns of remove_transaction_keyimages never leave an image
\* registered for a transaction that has left the pool.
THEOREM NeverPhantomImages == Spec => []NoPhantomImages
<1>1. Inv => NoPhantomImages
  BY DEF Inv, WellFormed, NoPhantomImages
<1> QED BY <1>1, Invariance, PTL

\* No race between add_tx and the block thread registers two transactions
\* that were not kept by a block under one image.
THEOREM AtMostOneSpenderNotKept == Spec => []OneSpenderNotKept
<1>1. Inv => OneSpenderNotKept
  BY DEF Inv, WellFormed, OneSpenderNotKept
<1> QED BY <1>1, Invariance, PTL

\* Until an assertion of add_tx fails, the pool's containers agree.
THEOREM IndexExactUnlessError == Spec => []IndexedUnlessError
<1>1. Inv => IndexedUnlessError
  BY Zenon DEF Inv, Registered, Harmless, IndexedUnlessError
<1> QED BY <1>1, Invariance, PTL

(***************************************************************************)
(* Action properties.                                                      *)
(***************************************************************************)
\* Past the policy check the transaction in flight is not a timed-out one:
\* nothing that was absent when the call began expires before it ends.
InFlightNotTimedOut ==
  /\ incoming.at \in {"key_images", "aliases"} => ~incoming.kept
  /\ incoming.at \in {"key_images", "aliases", "inputs", "alias_duplicity", "insert"}
       => incoming.kept \/ incoming.tx \notin pool.timedOut

\* No transaction is being worked on when the daemon starts.
LEMMA InitInFlight == Init => InFlightNotTimedOut
BY DEF Init, Idle, InFlightNotTimedOut

\* Every step keeps the transaction that add_tx works on, once the check of
\* m_timed_out_transactions is behind it, out of that set.
LEMMA NextInFlight == Inv /\ InFlightNotTimedOut /\ [Next]_vars => InFlightNotTimedOut'
<1> SUFFICES ASSUME Inv, InFlightNotTimedOut, [Next]_vars
             PROVE  InFlightNotTimedOut'
  OBVIOUS
<1>1. ASSUME incoming' = Idle
      PROVE  InFlightNotTimedOut'
  BY <1>1 DEF Idle, InFlightNotTimedOut
<1>2. ASSUME incoming' = incoming, pool'.timedOut = pool.timedOut
      PROVE  InFlightNotTimedOut'
  BY <1>2 DEF InFlightNotTimedOut
<1>3. \A S : /\ Remove(pool, S).timedOut = pool.timedOut
             /\ InsertKept(Remove(pool, S), S).timedOut = pool.timedOut
             /\ InsertKept(pool, S).timedOut = pool.timedOut
  BY DEF Remove, InsertKept
<1>5. incoming.at # "idle" => incoming \in Working
  <2>1. Idle.at = "idle"
    BY DEF Idle
  <2> QED BY <2>1, Zenon DEF Inv, TypeOK
<1>6. ASSUME IncomingStep
      PROVE  InFlightNotTimedOut'
  <2>1. CASE HaveTx
    BY <1>1, <1>5, <2>1 DEF HaveTx, Goto, OnlyIncoming, InFlightNotTimedOut, Working
  <2>2. CASE HaveTxInChain
    BY <1>1, <1>5, <2>2 DEF HaveTxInChain, Goto, OnlyIncoming, InFlightNotTimedOut, Working
  <2>3. CASE CheckPolicy
    BY <1>1, <1>5, <2>3 DEF CheckPolicy, Goto, OnlyIncoming, InFlightNotTimedOut, Working
  <2>4. CASE CheckPoolImages
    BY <1>1, <1>5, <2>4 DEF CheckPoolImages, Goto, OnlyIncoming, InFlightNotTimedOut, Working
  <2>5. CASE CheckPoolAliases
    BY <1>1, <1>5, <2>5 DEF CheckPoolAliases, Goto, OnlyIncoming, InFlightNotTimedOut, Working
  <2>6. CASE CheckInputs
    BY <1>5, <2>6 DEF CheckInputs, OnlyIncoming, InFlightNotTimedOut, Working
  <2>7. CASE CheckAliasDuplicity
    BY <1>5, <2>7 DEF CheckAliasDuplicity, OnlyIncoming, InFlightNotTimedOut, Working
  <2>8. CASE InsertTx
    BY <1>1, <2>8 DEF InsertTx
  <2> QED BY <1>6, <2>1, <2>2, <2>3, <2>4, <2>5, <2>6, <2>7, <2>8 DEF IncomingStep
<1>7. ASSUME NEW tx \in Tx, NEW kept \in BOOLEAN, HandleIncomingTx(tx, kept)
      PROVE  InFlightNotTimedOut'
  BY <1>7 DEF HandleIncomingTx, InFlightNotTimedOut
<1>8. ASSUME NEW body \in Bodies, AddBlock(body) \/ FailBlock(body)
      PROVE  InFlightNotTimedOut'
  <2>1. ASSUME NEW S, ReturnTxToPool(S)
        PROVE  pool'.timedOut = pool.timedOut
    BY <1>3, <2>1 DEF ReturnTxToPool
  <2>2. CASE AddBlock(body)
    BY <1>2, <1>3, <2>2, Zenon DEF AddBlock
  <2>3. CASE FailBlock(body)
    BY <1>2, <2>1, <2>3, Zenon DEF FailBlock, RefuseBlock, RefuseMinerTx, DbAddFails
  <2> QED BY <1>8, <2>2, <2>3
<1>9. CASE PopBlock
  BY <1>2, <1>3, <1>9, Zenon DEF PopBlock
<1>10. ASSUME NEW S \in SUBSET Tx, RemoveStuckTransactions(S)
       PROVE  InFlightNotTimedOut'
  <2>1. pool'.timedOut = pool.timedOut \cup S
    BY <1>3, <1>10 DEF RemoveStuckTransactions, Remove
  <2> QED BY <1>10, <2>1 DEF RemoveStuckTransactions, InFlightNotTimedOut
<1>11. ASSUME NEW tx \in Tx, FlushTx(tx)
       PROVE  InFlightNotTimedOut'
  BY <1>2, <1>3, <1>11 DEF FlushTx
<1>12. CASE CleanRestart \/ Crash
  BY <1>1, <1>12 DEF CleanRestart, Crash, Boot
<1>13. CASE UNCHANGED vars
  BY <1>2, <1>13 DEF vars
<1> QED BY <1>6, <1>7, <1>8, <1>9, <1>10, <1>11, <1>12, <1>13 DEF Next

\* A transaction that has timed out is accepted again only with a block.
THEOREM TimedOutReturnsOnlyWithBlock == Spec => TimedOutOnlyWithBlock
<1> DEFINE A == restarts' = restarts =>
                  \A tx \in pool.timedOut :
                    tx \in pool'.transactions \ pool.transactions => tx \in pool'.kept
<1>1. ASSUME Inv, InFlightNotTimedOut, [Next]_vars
      PROVE  A
  <2>1. CASE pool'.transactions \subseteq pool.transactions
    BY <2>1
  <2>2. CASE InsertTx
    <3>1. CASE pool' = pool
      BY <2>1, <3>1
    <3>2. CASE pool' = Insert(pool, incoming.tx, incoming.kept)
      <4>1. incoming.kept \/ incoming.tx \notin pool.timedOut
        BY <1>1, <2>2 DEF InsertTx, InFlightNotTimedOut
      <4> QED BY <3>2, <4>1, InsertAdds
    <3> QED BY <2>2, <3>1, <3>2 DEF InsertTx
  <2>3. \A S : InsertKept(Remove(pool, S), S).transactions
                 \subseteq pool.transactions \cup InsertKept(Remove(pool, S), S).kept
    <3>1. \A p, S : /\ InsertKept(p, S).transactions = p.transactions \cup (S \ p.transactions)
                    /\ InsertKept(p, S).kept = p.kept \cup (S \ p.transactions)
      BY DEF InsertKept
    <3>2. \A S : Remove(pool, S).transactions = pool.transactions \ S
      BY DEF Remove
    <3> QED BY <3>1, <3>2
  <2>4. ASSUME NEW S, ReturnTxToPool(S)
        PROVE  A
    BY <2>3, <2>4 DEF ReturnTxToPool
  <2>5. ASSUME NEW body \in Bodies, FailBlock(body)
        PROVE  A
    BY <2>4, <2>5 DEF FailBlock, RefuseBlock, RefuseMinerTx, DbAddFails
  <2>6. CASE PopBlock
    BY <2>6 DEF PopBlock, InsertKept
  <2>7. ASSUME NEW body \in Bodies, AddBlock(body)
        PROVE  A
    BY <2>7 DEF AddBlock, Remove
  <2>8. ASSUME NEW S \in SUBSET Tx, RemoveStuckTransactions(S)
        PROVE  A
    BY <2>8 DEF RemoveStuckTransactions, Remove
  <2>9. ASSUME NEW tx \in Tx, FlushTx(tx)
        PROVE  A
    BY <2>9 DEF FlushTx, Remove
  <2>10. CASE CleanRestart \/ Crash
    <3>1. restarts' = restarts + 1
      BY <2>10 DEF CleanRestart, Crash, Boot
    <3>2. restarts \in 0..MaxRestarts
      BY <1>1, Zenon DEF Inv, TypeOK
    <3>3. restarts' # restarts
      BY <3>1, <3>2, TxAssumption
    <3> QED BY <3>3
  <2>11. CASE UNCHANGED vars
    BY <2>1, <2>11 DEF vars
  <2>12. CASE pool' = pool
    BY <2>1, <2>12
  <2>13. IncomingStep => pool' = pool \/ InsertTx
    BY DEF IncomingStep, HaveTx, HaveTxInChain, CheckPolicy, CheckPoolImages,
           CheckPoolAliases, CheckInputs, CheckAliasDuplicity, OnlyIncoming
  <2>14. ASSUME NEW tx \in Tx, NEW kept \in BOOLEAN, HandleIncomingTx(tx, kept)
         PROVE  pool' = pool
    BY <2>14 DEF HandleIncomingTx, OnlyIncoming
  <2> HIDE DEF A
  <2> QED BY <1>1, <2>2, <2>5, <2>6, <2>7, <2>8, <2>9, <2>10, <2>11, <2>12, <2>13, <2>14 DEF Next
<1>2. Spec => [](Inv /\ InFlightNotTimedOut)
  BY InitInv, NextInv, InitInFlight, NextInFlight, PTL DEF Spec
<1> QED BY <1>1, <1>2, PTL DEF Spec, TimedOutOnlyWithBlock

(***************************************************************************)
(* Nothing is lost.  What a refused block took, or a popped block held, is *)
(* in the sorted container afterwards unless an assertion failed.          *)
(***************************************************************************)
\* return_tx_to_pool puts every transaction it is given into the sorted container
\* unless an assertion of add_tx fails.
LEMMA KeptAllSorted ==
  ASSUME NEW p, NEW S, KeptErrors(p, S) = {}
  PROVE  InsertKept(p, S).sorted = p.sorted \cup S
<1>1. \A tx \in S : InsertErrors(p, tx, TRUE) = {}
  BY Zenon DEF KeptErrors
<1>2. \A tx \in S : tx \notin p.transactions
  BY <1>1, Zenon DEF InsertErrors
<1>3. S \ p.transactions = S
  BY <1>2
<1>4. {tx \in S : InsertErrors(p, tx, TRUE) = {}} = S
  BY <1>1, Zenon
<1> QED BY <1>3, <1>4, Zenon DEF InsertKept

\* A block that add_block stores adds its transactions to those of the chain.
LEMMA MinedAppend ==
  ASSUME NEW c \in Seq(Bodies), NEW body \in Bodies
  PROVE  Mined(Append(c, body)) = Mined(c) \cup BodySet(body)
<1> DEFINE d == Append(c, body)
<1>1. /\ DOMAIN d = DOMAIN c \cup {Len(c) + 1}
      /\ \A h \in DOMAIN c : d[h] = c[h]
      /\ d[Len(c) + 1] = body
  OBVIOUS
<1> HIDE DEF d
<1>2. Mined(d) = Mined(c) \cup BodySet(body)
  BY <1>1 DEF Mined
<1> QED BY <1>2 DEF d

\* pop_block takes no other transactions from the chain than those of its block.
LEMMA MinedPop ==
  ASSUME NEW c \in Seq(Bodies), c # <<>>
  PROVE  Mined(c) = Mined(SubSeq(c, 1, Len(c) - 1)) \cup BodySet(c[Len(c)])
<1> DEFINE d == SubSeq(c, 1, Len(c) - 1)
<1>1. Len(c) \in Nat /\ Len(c) # 0 /\ DOMAIN c = 1..Len(c)
  OBVIOUS
<1>2. d \in Seq(Bodies) /\ Len(d) = Len(c) - 1 /\ \A h \in 1..(Len(c) - 1) : d[h] = c[h]
  BY <1>1
<1>3. DOMAIN d = 1..(Len(c) - 1)
  BY <1>1, <1>2
<1>4. DOMAIN c = DOMAIN d \cup {Len(c)}
  BY <1>1, <1>3
<1>5. \A h \in DOMAIN d : d[h] = c[h]
  BY <1>2, <1>3
<1> HIDE DEF d
<1>6. Mined(c) = Mined(d) \cup BodySet(c[Len(c)])
  BY <1>4, <1>5, Zenon DEF Mined
<1> QED BY <1>6 DEF d

\* Blocks that are added, refused or popped never lose a transaction.
THEOREM NoTransactionLost == Spec => NoTxLost
<1> DEFINE Safe == pool.sorted \cup Mined(chain)
                     \subseteq pool'.sorted \cup Mined(chain') \cup pool'.timedOut
           A == \/ errors' # {}
                \/ restarts' # restarts
                \/ \E tx \in Tx : FlushTx(tx)
                \/ Safe
<1>1. ASSUME Inv, [Next]_vars
      PROVE  A
  <2> SUFFICES ASSUME errors' = {} PROVE A
    OBVIOUS
  <2>1. CASE pool.sorted \subseteq pool'.sorted /\ chain' = chain
    BY <2>1
  <2>2. ASSUME NEW S, ReturnTxToPool(S), chain' = chain
        PROVE  Safe
    <3>1. KeptErrors(Remove(pool, S), S) = {}
      BY <2>2 DEF ReturnTxToPool
    <3>2. pool'.sorted = (pool.sorted \ S) \cup S
      <4>1. Remove(pool, S).sorted = pool.sorted \ S
        BY DEF Remove
      <4>2. pool' = InsertKept(Remove(pool, S), S)
        BY <2>2 DEF ReturnTxToPool
      <4> QED BY <3>1, <4>1, <4>2, KeptAllSorted
    <3> QED BY <2>2, <3>2
  <2>3. ASSUME NEW body \in Bodies, FailBlock(body)
        PROVE  A
    BY <2>2, <2>3 DEF FailBlock, RefuseBlock, RefuseMinerTx, DbAddFails
  <2>4. ASSUME NEW body \in Bodies, AddBlock(body)
        PROVE  A
    <3>1. Mined(chain') = Mined(chain) \cup BodySet(body)
      BY <1>1, <2>4, MinedAppend, Zenon DEF AddBlock, Inv, TypeOK
    <3>2. pool'.sorted = pool.sorted \ BodySet(body)
      BY <2>4, Zenon DEF AddBlock, Remove
    <3> QED BY <3>1, <3>2
  <2>5. CASE PopBlock
    <3> DEFINE popped == BodySet(chain[Len(chain)])
    <3>1. /\ pool' = InsertKept(pool, popped) /\ KeptErrors(pool, popped) = {}
          /\ chain' = SubSeq(chain, 1, Len(chain) - 1)
      BY <2>5 DEF PopBlock
    <3>2. Mined(chain) = Mined(chain') \cup popped
      BY <1>1, <2>5, <3>1, MinedPop, Zenon DEF PopBlock, Inv, TypeOK
    <3> HIDE DEF popped
    <3>3. pool'.sorted = pool.sorted \cup popped
      BY <3>1, KeptAllSorted
    <3> QED BY <3>2, <3>3
  <2>6. ASSUME NEW S \in SUBSET Tx, RemoveStuckTransactions(S)
        PROVE  A
    <3>1. pool'.sorted = pool.sorted \ S /\ pool'.timedOut = pool.timedOut \cup S
      BY <2>6 DEF RemoveStuckTransactions, Remove
    <3>2. chain' = chain
      BY <2>6 DEF RemoveStuckTransactions
    <3> QED BY <3>1, <3>2
  <2>7. CASE InsertTx
    <3>1. pool.sorted \subseteq pool'.sorted
      <4>1. pool' = pool \/ pool' = Insert(pool, incoming.tx, incoming.kept)
        BY <2>7 DEF InsertTx
      <4> QED BY <4>1, InsertAdds
    <3> QED BY <2>1, <2>7, <3>1 DEF InsertTx
  <2>8. CASE CleanRestart \/ Crash
    <3>1. restarts' = restarts + 1
      BY <2>8 DEF CleanRestart, Crash, Boot
    <3>2. restarts \in 0..MaxRestarts
      BY <1>1, Zenon DEF Inv, TypeOK
    <3>3. restarts' # restarts
      BY <3>1, <3>2, TxAssumption
    <3> QED BY <3>3
  <2>9. CASE UNCHANGED vars
    BY <2>1, <2>9 DEF vars
  <2>10. IncomingStep => (pool' = pool /\ chain' = chain) \/ InsertTx
    BY DEF IncomingStep, HaveTx, HaveTxInChain, CheckPolicy, CheckPoolImages,
           CheckPoolAliases, CheckInputs, CheckAliasDuplicity, OnlyIncoming
  <2>11. ASSUME NEW tx \in Tx, NEW kept \in BOOLEAN, HandleIncomingTx(tx, kept)
         PROVE  pool' = pool /\ chain' = chain
    BY <2>11 DEF HandleIncomingTx, OnlyIncoming
  <2>12. (\E tx \in Tx : FlushTx(tx)) => A
    OBVIOUS
  <2>13. pool' = pool /\ chain' = chain => A
    BY <2>1
  <2> HIDE DEF A
  <2> QED BY <1>1, <2>3, <2>4, <2>5, <2>6, <2>7, <2>8, <2>9, <2>10, <2>11, <2>12, <2>13 DEF Next
<1> QED BY <1>1, Invariance, PTL DEF Spec, NoTxLost
=============================================================================
