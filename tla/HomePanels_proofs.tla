-------------------------- MODULE HomePanels_proofs --------------------------
(***************************************************************************)
(* Proofs about HomePanels for any number of page loads, panels, variants, *)
(* cache entries and publications.                                         *)
(***************************************************************************)
EXTENDS HomePanels, CommonLemmas

(* Sequences.                                                              *)

\* An element in its place p is moved to the end, or one is added there.
MovedToEnd(s, t, p, e) ==
    /\ Len(t) = Len(s)
    /\ \A j \in 1 .. Len(s) - 1 : t[j] = IF j < p THEN s[j] ELSE s[j + 1]
    /\ t[Len(s)] = e

AddedAtEnd(s, t, e) ==
    /\ Len(t) = Len(s) + 1
    /\ \A j \in 1 .. Len(s) : t[j] = s[j]
    /\ t[Len(s) + 1] = e

\* Deleting a Map's entry and setting it again moves it to the end.
LEMMA Moving ==
    ASSUME NEW S, NEW s \in Seq(S), NEW e \in S, NEW p \in 1 .. Len(s)
    PROVE  /\ Append(Without(s, {p}), e) \in Seq(S)
           /\ MovedToEnd(s, Append(Without(s, {p}), e), p, e)
<1>1. Without(s, {p}) = RemoveAt(s, p)
  BY DEF Without
<1>. DEFINE r == RemoveAt(s, p)
<1>2. /\ r \in Seq(S)
      /\ Len(r) = Len(s) - 1
      /\ \A j \in 1 .. Len(s) - 1 : r[j] = IF j < p THEN s[j] ELSE s[j + 1]
  BY WhatRemoveAtLeaves
<1>. HIDE DEF r
<1>3. Append(r, e) \in Seq(S) /\ MovedToEnd(s, Append(r, e), p, e)
  BY <1>2 DEF MovedToEnd
<1>. QED
  BY <1>1, <1>3 DEF r

\* Setting a new entry adds it at the end.
LEMMA Adding ==
    ASSUME NEW S, NEW s \in Seq(S), NEW e \in S
    PROVE  /\ Append(Without(s, {}), e) \in Seq(S)
           /\ AddedAtEnd(s, Append(Without(s, {}), e), e)
  BY DEF Without, AddedAtEnd

-----------------------------------------------------------------------------
(* The inductive invariant.                                                *)

Entry == [key : Keys, tree : Tree]

\* A key is in the recency once.
UsedOnce ==
    \A i, j \in 1 .. Len(recency) : recency[i] = recency[j] => i = j

\* What is cached under a key was admitted for it.
CachedUnderItsKey ==
    \A n \in DOMAIN cache : AdmittedFor(cache[n].tree) = cache[n].key

\* An answer that is awaited is to the panel the load is at.
AnswersAreOwn ==
    \A q \in Loads : answer[q] # None =>
        Visiting(q) /\ AdmittedFor(answer[q]) = Key(q, Panel(q))

\* A load has no more views than panels, and none before it begins.
ViewsFit ==
    \A q \in Loads :
        /\ Len(views[q]) <= Len(Roster)
        /\ ~Loading(q) => views[q] = <<>>

CacheInv == UsedOnce /\ CacheIsMostRecent /\ CacheIsLastGood /\ CachedUnderItsKey
PageInv == AnswersAreOwn /\ ViewsFit /\ PagesAreOwn
IInv == TypeOK /\ CacheInv /\ PageInv

\* A key's place in the recency is its place in the cache, counted from the end.
LEMMA WhereCached ==
    ASSUME TypeOK, UsedOnce, CacheIsMostRecent, NEW p \in 1 .. Len(recency)
    PROVE  Entries(recency[p]) =
             IF p > Len(recency) - Len(cache) THEN {p - (Len(recency) - Len(cache))} ELSE {}
<1>. DEFINE n == Len(recency)
            m == Len(cache)
<1>1. n \in Nat /\ m \in Nat /\ m <= n /\ DOMAIN cache = 1 .. m
  BY HomeAssumption DEF TypeOK, CacheIsMostRecent
<1>2. \A i \in 1 .. m : cache[i].key = recency[n - m + i]
  BY DEF CacheIsMostRecent
<1>. HIDE DEF n, m
<1>3. p \in 1 .. n /\ \A i, j \in 1 .. n : recency[i] = recency[j] => i = j
  BY DEF UsedOnce, n
<1>4. \A i \in 1 .. m : n - m + i \in 1 .. n
  BY <1>1
<1>5. \A i \in 1 .. m : cache[i].key = recency[p] <=> i = p - (n - m)
  <2>1. \A i \in 1 .. m : n - m + i = p <=> i = p - (n - m)
    BY <1>1, <1>3
  <2>. QED
    BY <1>2, <1>3, <1>4, <2>1
<1>6. Entries(recency[p]) = {i \in 1 .. m : i = p - (n - m)}
  BY <1>1, <1>5 DEF Entries
<1>7. p - (n - m) \in 1 .. m <=> p > n - m
  BY <1>1, <1>3
<1>. QED
  BY <1>6, <1>7 DEF n, m

\* A key that was never used is not cached.
LEMMA NotCached ==
    ASSUME TypeOK, CacheIsMostRecent, NEW k,
           \A p \in 1 .. Len(recency) : recency[p] # k
    PROVE  Entries(k) = {}
<1>. DEFINE n == Len(recency)
            m == Len(cache)
<1>1. n \in Nat /\ m \in Nat /\ m <= n /\ DOMAIN cache = 1 .. m
  BY HomeAssumption DEF TypeOK, CacheIsMostRecent
<1>2. \A i \in 1 .. m : cache[i].key = recency[n - m + i]
  BY DEF CacheIsMostRecent
<1>. HIDE DEF n, m
<1>3. \A i \in 1 .. m : n - m + i \in 1 .. n
  BY <1>1
<1>4. \A i \in 1 .. m : cache[i].key # k
  BY <1>2, <1>3 DEF n
<1>. QED
  BY <1>1, <1>4 DEF Entries

\* The key that is used goes to the recent end, and stays there only.
LEMMA Used ==
    ASSUME TypeOK, UsedOnce, NEW k \in Keys
    PROVE  /\ UsedLast(k) \in Seq(Keys)
           /\ \A i, j \in 1 .. Len(UsedLast(k)) : UsedLast(k)[i] = UsedLast(k)[j] => i = j
           /\ \/ /\ \A p \in 1 .. Len(recency) : recency[p] # k
                 /\ AddedAtEnd(recency, UsedLast(k), k)
              \/ \E p \in 1 .. Len(recency) :
                   recency[p] = k /\ MovedToEnd(recency, UsedLast(k), p, k)
<1>0. recency \in Seq(Keys) /\ DOMAIN recency = 1 .. Len(recency) /\ Len(recency) \in Nat
  BY DEF TypeOK
<1>1. CASE \A p \in 1 .. Len(recency) : recency[p] # k
  <2>1. {n \in DOMAIN recency : recency[n] = k} = {}
    BY <1>0, <1>1
  <2>2. UsedLast(k) \in Seq(Keys) /\ AddedAtEnd(recency, UsedLast(k), k)
    BY <1>0, <2>1, Adding DEF UsedLast
  <2>3. \A i, j \in 1 .. Len(UsedLast(k)) : UsedLast(k)[i] = UsedLast(k)[j] => i = j
    BY <1>0, <1>1, <2>2 DEF AddedAtEnd, UsedOnce
  <2>. QED
    BY <1>1, <2>2, <2>3
<1>2. ASSUME NEW p \in 1 .. Len(recency), recency[p] = k
      PROVE  /\ UsedLast(k) \in Seq(Keys)
             /\ \A i, j \in 1 .. Len(UsedLast(k)) : UsedLast(k)[i] = UsedLast(k)[j] => i = j
             /\ MovedToEnd(recency, UsedLast(k), p, k)
  <2>1. {n \in DOMAIN recency : recency[n] = k} = {p}
    BY <1>0, <1>2 DEF UsedOnce
  <2>2. UsedLast(k) \in Seq(Keys) /\ MovedToEnd(recency, UsedLast(k), p, k)
    BY <1>0, <2>1, Moving DEF UsedLast
  <2>3. \A i, j \in 1 .. Len(UsedLast(k)) : UsedLast(k)[i] = UsedLast(k)[j] => i = j
    <3>. DEFINE u == UsedLast(k)
                n == Len(recency)
                from(i) == IF i = n THEN p ELSE IF i < p THEN i ELSE i + 1
    <3>1. n \in Nat /\ p \in 1 .. n /\ recency[p] = k
      BY <1>0, <1>2
    <3>2. /\ Len(u) = n /\ u[n] = k
          /\ \A j \in 1 .. n - 1 : u[j] = IF j < p THEN recency[j] ELSE recency[j + 1]
      BY <2>2 DEF MovedToEnd
    <3>3. \A i, j \in 1 .. n : recency[i] = recency[j] => i = j
      BY DEF UsedOnce
    <3>. HIDE DEF u, n
    <3>4. \A i \in 1 .. n : from(i) \in 1 .. n /\ u[i] = recency[from(i)]
      BY <3>1, <3>2
    <3>5. \A i, j \in 1 .. n : from(i) = from(j) => i = j
      BY <3>1
    <3>. HIDE DEF from
    <3>6. \A i, j \in 1 .. n : u[i] = u[j] => i = j
      BY <3>3, <3>4, <3>5
    <3>. QED
      BY <3>2, <3>6 DEF u, n
  <2>. QED
    BY <2>2, <2>3
<1>. QED
  BY <1>1, <1>2

\* The cache c is the most recent keys of those used, and holds, besides e,
\* entries that were there before under another key than k.
Recent(c, used) ==
    /\ c \in Seq(Entry)
    /\ Len(c) = IF Len(used) < MaxEntries THEN Len(used) ELSE MaxEntries
    /\ \A i \in 1 .. Len(c) : c[i].key = used[Len(used) - Len(c) + i]

KeptBut(c, k, e) ==
    \A i \in 1 .. Len(c) :
        c[i] = e \/ \E j \in 1 .. Len(cache) : c[i] = cache[j] /\ cache[j].key # k

\* The cache before its bound, with e set under the key k.
WithEntry(k, e) == Append(Without(cache, Entries(k)), e)

\* An entry the cache does not have is added, and the bound applied.
LEMMA AddedEntry ==
    ASSUME TypeOK, NEW k \in Keys, NEW e \in Entry, e.key = k,
           Entries(k) = {},
           NEW used \in Seq(Keys),
           \/ Len(cache) < MaxEntries /\ Len(used) = Len(cache) + 1
           \/ Len(cache) = MaxEntries /\ Len(used) >= MaxEntries,
           used[Len(used)] = k,
           \A i \in 1 .. Len(cache) :
             i > 1 \/ Len(cache) < MaxEntries =>
               cache[i].key = used[Len(used) - (Len(cache) + 1) + i]
    PROVE  Recent(Bounded(WithEntry(k, e)), used) /\ KeptBut(Bounded(WithEntry(k, e)), k, e)
<1>. DEFINE next == WithEntry(k, e)
            m == Len(cache)
            u == Len(used)
<1>1. cache \in Seq(Entry) /\ m \in Nat /\ MaxEntries \in Nat \ {0} /\ u \in Nat
  BY HomeAssumption DEF TypeOK, Entry
<1>2. /\ next \in Seq(Entry) /\ Len(next) = m + 1 /\ next[m + 1] = e
      /\ \A i \in 1 .. m : next[i] = cache[i]
  BY <1>1, Adding DEF AddedAtEnd, WithEntry
<1>3. \A i \in 1 .. m : cache[i].key # k
  BY <1>1 DEF Entries
<1>. HIDE DEF next
<1>4. CASE m < MaxEntries
  <2>1. Bounded(next) = next
    BY <1>1, <1>2, <1>4 DEF Bounded
  <2>2. u = m + 1 /\ \A i \in 1 .. m : cache[i].key = used[i]
    <3>1. u = m + 1
      BY <1>1, <1>4
    <3>2. \A i \in 1 .. m : u - (m + 1) + i = i
      BY <1>1, <3>1
    <3>3. \A i \in 1 .. m : cache[i].key = used[u - (m + 1) + i]
      BY <1>4
    <3>. QED
      BY <3>1, <3>2, <3>3
  <2>3. Recent(next, used)
    BY <1>1, <1>2, <1>4, <2>2 DEF Recent
  <2>4. KeptBut(next, k, e)
    BY <1>1, <1>2, <1>3 DEF KeptBut
  <2>. QED
    BY <2>1, <2>3, <2>4 DEF next
<1>5. CASE m = MaxEntries
  <2>. DEFINE new == SubSeq(next, 2, m + 1)
  <2>0. u \in Nat /\ u >= m
    BY <1>1, <1>5
  <2>1. Bounded(next) = new
    BY <1>1, <1>2, <1>5 DEF Bounded
  <2>2. new \in Seq(Entry) /\ Len(new) = m /\ \A i \in 1 .. m : new[i] = next[i + 1]
    BY <1>1, <1>2
  <2>. HIDE DEF new
  <2>3. ASSUME NEW i \in 1 .. m PROVE new[i].key = used[u - m + i]
    <3>1. CASE i = m
      BY <3>1, <1>1, <1>2, <2>2
    <3>2. CASE i < m
      <4>1. i + 1 \in 1 .. m /\ i + 1 > 1 /\ u - (m + 1) + (i + 1) = u - m + i
        BY <3>2, <1>1
      <4>2. cache[i + 1].key = used[u - (m + 1) + (i + 1)]
        BY <4>1, <1>1
      <4>3. new[i] = cache[i + 1]
        BY <4>1, <1>2, <2>2
      <4>. QED
        BY <4>1, <4>2, <4>3
    <3>. QED
      BY <3>1, <3>2, <1>1
  <2>5. Recent(new, used)
    BY <1>1, <1>5, <2>0, <2>2, <2>3 DEF Recent
  <2>6. KeptBut(new, k, e)
    <3>1. \A i \in 1 .. m : i = m \/ i + 1 \in 1 .. m
      BY <1>1
    <3>. QED
      BY <1>1, <1>2, <1>3, <2>2, <3>1 DEF KeptBut
  <2>. QED
    BY <2>1, <2>5, <2>6 DEF next
<1>. QED
  BY <1>4, <1>5, <1>1

\* An entry the cache has is replaced, at the recent end.
LEMMA MovedEntry ==
    ASSUME TypeOK, UsedOnce, CacheIsMostRecent, NEW k \in Keys, NEW e \in Entry, e.key = k,
           NEW used \in Seq(Keys),
           NEW n, n = Len(recency), NEW m, m = Len(cache),
           NEW p \in 1 .. n, recency[p] = k, MovedToEnd(recency, used, p, k),
           p > n - m
    PROVE  /\ Bounded(WithEntry(k, e)) = WithEntry(k, e)
           /\ Recent(WithEntry(k, e), used)
           /\ KeptBut(WithEntry(k, e), k, e)
<1>. DEFINE c == p - (n - m)
            new == WithEntry(k, e)
<1>1. /\ cache \in Seq(Entry) /\ recency \in Seq(Keys)
      /\ n \in Nat /\ m \in Nat /\ MaxEntries \in Nat \ {0}
  BY HomeAssumption DEF TypeOK, Entry
<1>2. /\ m = IF n < MaxEntries THEN n ELSE MaxEntries
      /\ \A i \in 1 .. m : cache[i].key = recency[n - m + i]
  BY DEF CacheIsMostRecent
<1>3. Entries(k) = {c}
  BY WhereCached
<1>4. c \in 1 .. m /\ m <= n /\ m <= MaxEntries
  BY <1>1, <1>2
<1>. HIDE DEF c
<1>5. \A i \in 1 .. m : cache[i].key = k => i = c
  BY <1>1, <1>3 DEF Entries
<1>6. /\ new \in Seq(Entry) /\ Len(new) = m /\ new[m] = e
      /\ \A i \in 1 .. m - 1 : new[i] = IF i < c THEN cache[i] ELSE cache[i + 1]
  <2>1. new = Append(Without(cache, {c}), e)
    BY <1>3 DEF WithEntry
  <2>2. new \in Seq(Entry) /\ MovedToEnd(cache, new, c, e)
    BY <1>1, <1>4, <2>1, Moving
  <2>. QED
    BY <2>2 DEF MovedToEnd
<1>7. /\ Len(used) = n /\ used[n] = k
      /\ \A i \in 1 .. n - 1 : used[i] = IF i < p THEN recency[i] ELSE recency[i + 1]
  BY DEF MovedToEnd
<1>. HIDE DEF new
<1>8. Bounded(new) = new
  BY <1>1, <1>4, <1>6 DEF Bounded
<1>9. ASSUME NEW i \in 1 .. m PROVE new[i].key = used[n - m + i]
  <2>1. CASE i = m
    <3>1. n - m + i = n
      BY <2>1, <1>1
    <3>. QED
      BY <2>1, <3>1, <1>6, <1>7
  <2>2. CASE i < m /\ i < c
    <3>1. i \in 1 .. m - 1 /\ n - m + i \in 1 .. n - 1 /\ n - m + i < p
      BY <2>2, <1>1, <1>4 DEF c
    <3>2. new[i] = cache[i] /\ used[n - m + i] = recency[n - m + i]
      BY <3>1, <2>2, <1>6, <1>7
    <3>. QED
      BY <3>2, <1>2
  <2>3. CASE i < m /\ ~(i < c)
    <3>1. /\ i \in 1 .. m - 1 /\ i + 1 \in 1 .. m
          /\ n - m + i \in 1 .. n - 1 /\ ~(n - m + i < p)
          /\ (n - m + i) + 1 = n - m + (i + 1)
      BY <2>3, <1>1, <1>4 DEF c
    <3>2. new[i] = cache[i + 1] /\ used[n - m + i] = recency[n - m + (i + 1)]
      BY <3>1, <2>3, <1>6, <1>7
    <3>. QED
      BY <3>1, <3>2, <1>2
  <2>. QED
    BY <2>1, <2>2, <2>3, <1>1
<1>10. Recent(new, used)
  BY <1>1, <1>2, <1>6, <1>7, <1>9 DEF Recent
<1>11. KeptBut(new, k, e)
  <2>1. \A i \in 1 .. m :
          \/ i = m
          \/ i \in 1 .. m - 1 /\ i + 1 \in 1 .. m /\ (i < c => i # c) /\ (~(i < c) => i + 1 # c)
    BY <1>1, <1>4
  <2>2. \A i \in 1 .. m : new[i] = e \/ \E j \in 1 .. m : j # c /\ new[i] = cache[j]
    BY <1>6, <2>1
  <2>. QED
    BY <1>1, <1>5, <1>6, <2>2 DEF KeptBut
<1>. QED
  BY <1>8, <1>10, <1>11 DEF new

\* What a load caches under a key keeps the cache the most recently used keys;
\* every other entry was there before, under another key.
LEMMA Recached ==
    ASSUME TypeOK, UsedOnce, CacheIsMostRecent, NEW k \in Keys, NEW e \in Entry, e.key = k
    PROVE  /\ Recent(Bounded(WithEntry(k, e)), UsedLast(k))
           /\ KeptBut(Bounded(WithEntry(k, e)), k, e)
           /\ Entries(k) # {} => Bounded(WithEntry(k, e)) = WithEntry(k, e)
<1>. DEFINE n == Len(recency)
            m == Len(cache)
            used == UsedLast(k)
<1>1. /\ n \in Nat /\ m \in Nat /\ MaxEntries \in Nat \ {0}
      /\ m = IF n < MaxEntries THEN n ELSE MaxEntries
  BY HomeAssumption DEF TypeOK, CacheIsMostRecent
<1>2. \A i \in 1 .. m : cache[i].key = recency[n - m + i]
  BY DEF CacheIsMostRecent
<1>3. used \in Seq(Keys)
  BY Used
<1>4. ASSUME \A p \in 1 .. n : recency[p] # k, AddedAtEnd(recency, used, k)
      PROVE  /\ Entries(k) = {}
             /\ Recent(Bounded(WithEntry(k, e)), used)
             /\ KeptBut(Bounded(WithEntry(k, e)), k, e)
  <2>1. Entries(k) = {}
    BY <1>4, NotCached
  <2>2. /\ Len(used) = n + 1 /\ used[n + 1] = k
        /\ \A i \in 1 .. n : used[i] = recency[i]
    BY <1>4 DEF AddedAtEnd
  <2>. HIDE DEF used, n, m
  <2>3. \A i \in 1 .. m : n - m + i \in 1 .. n /\ Len(used) - (m + 1) + i = n - m + i
    BY <1>1, <2>2
  <2>4. \A i \in 1 .. m : cache[i].key = used[Len(used) - (m + 1) + i]
    BY <1>2, <2>2, <2>3
  <2>5. \/ m < MaxEntries /\ n + 1 = m + 1
        \/ m = MaxEntries /\ n + 1 >= MaxEntries
    BY <1>1
  <2>6. Recent(Bounded(WithEntry(k, e)), used) /\ KeptBut(Bounded(WithEntry(k, e)), k, e)
    <3>1. \A i \in 1 .. Len(cache) : cache[i].key = used[Len(used) - (Len(cache) + 1) + i]
      BY <2>4 DEF m
    <3>2. \/ Len(cache) < MaxEntries /\ Len(used) = Len(cache) + 1
          \/ Len(cache) = MaxEntries /\ Len(used) >= MaxEntries
      BY <2>2, <2>5 DEF m
    <3>3. used[Len(used)] = k
      BY <2>2
    <3>. QED
      BY <1>3, <2>1, <3>1, <3>2, <3>3, AddedEntry
  <2>. QED
    BY <2>1, <2>6
<1>5. ASSUME NEW p \in 1 .. n, recency[p] = k, MovedToEnd(recency, used, p, k),
             p <= n - m
      PROVE  /\ Entries(k) = {}
             /\ Recent(Bounded(WithEntry(k, e)), used)
             /\ KeptBut(Bounded(WithEntry(k, e)), k, e)
  <2>. HIDE DEF used
  <2>1. Entries(k) = {}
    <3>1. Entries(recency[p]) = IF p > n - m THEN {p - (n - m)} ELSE {}
      BY WhereCached
    <3>2. ~(p > n - m)
      BY <1>1, <1>5
    <3>. QED
      BY <1>5, <3>1, <3>2
  <2>2. /\ Len(used) = n /\ used[n] = k
        /\ \A i \in 1 .. n - 1 : used[i] = IF i < p THEN recency[i] ELSE recency[i + 1]
    BY <1>5 DEF MovedToEnd
  <2>. HIDE DEF n, m
  <2>3. m = MaxEntries /\ n >= MaxEntries
    BY <1>1, <1>5
  <2>4. ASSUME NEW i \in 1 .. m, i > 1
        PROVE  cache[i].key = used[n - (m + 1) + i]
    <3>1. /\ n - (m + 1) + i \in 1 .. n - 1 /\ ~(n - (m + 1) + i < p)
          /\ (n - (m + 1) + i) + 1 = n - m + i
      BY <1>1, <1>5, <2>4
    <3>. QED
      BY <3>1, <1>2, <2>2
  <2>5. \A i \in 1 .. m : i > 1 \/ m < MaxEntries => cache[i].key = used[n - (m + 1) + i]
    BY <1>1, <2>3, <2>4
  <2>6. Recent(Bounded(WithEntry(k, e)), used) /\ KeptBut(Bounded(WithEntry(k, e)), k, e)
    <3>1. \A i \in 1 .. Len(cache) :
            i > 1 \/ Len(cache) < MaxEntries =>
              cache[i].key = used[Len(used) - (Len(cache) + 1) + i]
      BY <2>2, <2>5 DEF m
    <3>2. Len(cache) = MaxEntries /\ Len(used) >= MaxEntries
      BY <2>2, <2>3 DEF m
    <3>3. used[Len(used)] = k
      BY <2>2
    <3>. QED
      BY <1>3, <2>1, <3>1, <3>2, <3>3, AddedEntry
  <2>. QED
    BY <2>1, <2>6
<1>6. ASSUME NEW p \in 1 .. n, recency[p] = k, MovedToEnd(recency, used, p, k),
             p > n - m
      PROVE  /\ Bounded(WithEntry(k, e)) = WithEntry(k, e)
             /\ Recent(WithEntry(k, e), used)
             /\ KeptBut(WithEntry(k, e), k, e)
  BY <1>3, <1>6, MovedEntry
<1>7. \A p \in 1 .. n : p <= n - m \/ p > n - m
  BY <1>1
<1>. QED
  BY <1>4, <1>5, <1>6, <1>7, Used

-----------------------------------------------------------------------------
(* Every step keeps the invariant.                                         *)

\* A load that visits a panel is typed: the panel, the request and the key.
LEMMA VisitTyping ==
    ASSUME TypeOK, NEW q \in Loads, Visiting(q)
    PROVE  /\ Len(views[q]) + 1 \in 1 .. Len(Roster)
           /\ Panel(q) \in Panels /\ variant[q] \in Variants
           /\ Key(q, Panel(q)) \in Keys
<1>1. Len(Roster) \in Nat /\ Len(views[q]) \in Nat /\ Len(views[q]) < Len(Roster)
  BY HomeAssumption DEF TypeOK, Visiting
<1>2. Len(views[q]) + 1 \in 1 .. Len(Roster)
  BY <1>1
<1>. QED
  BY <1>2 DEF TypeOK, Visiting, Loading, Panel, Panels, Key, Keys

\* None is no tree, no variant and no key.
LEMMA NoneIsNothing == None \notin Tree /\ None \notin Variants /\ None \notin Keys
  BY HomeAssumption

\* A view of the panel a load is at, of nothing or of the load's own key,
\* keeps the page well typed, its own, and no longer than the roster.
LEMMA PushedView ==
    ASSUME TypeOK, PageInv, NEW q \in Loads, Visiting(q), UNCHANGED variant,
           NEW kind \in {"live", "stale", "dead"}, NEW of,
           of = None \/ of = Key(q, Panel(q)),
           Push(q, kind, of)
    PROVE  /\ views' \in [Loads -> Seq(View)]
           /\ answer' \in [Loads -> Tree \cup {None}]
           /\ PageInv'
<1>. DEFINE view == [panel |-> Panel(q), kind |-> kind, of |-> of]
            n == Len(views[q])
<1>1. /\ n \in Nat /\ n + 1 \in 1 .. Len(Roster) /\ Len(Roster) \in Nat
      /\ Panel(q) \in Panels /\ variant[q] \in Variants /\ Key(q, Panel(q)) \in Keys
      /\ views[q] \in Seq(View)
  BY VisitTyping, HomeAssumption DEF TypeOK
<1>2. view \in View
  BY <1>1 DEF View
<1>3. views' = [views EXCEPT ![q] = Append(views[q], view)] /\ answer' = [answer EXCEPT ![q] = None]
  BY DEF Push
<1>4. views' \in [Loads -> Seq(View)] /\ answer' \in [Loads -> Tree \cup {None}]
  BY <1>1, <1>2, <1>3 DEF TypeOK
<1>5. /\ views'[q] = Append(views[q], view) /\ answer'[q] = None
      /\ \A x \in Loads \ {q} : views'[x] = views[x] /\ answer'[x] = answer[x]
  BY <1>3 DEF TypeOK
<1>6. AnswersAreOwn'
  <2>. SUFFICES ASSUME NEW x \in Loads, answer'[x] # None
                PROVE  Visiting(x)' /\ AdmittedFor(answer'[x]) = Key(x, Panel(x))'
    BY DEF AnswersAreOwn
  <2>1. x # q /\ answer'[x] = answer[x] /\ views'[x] = views[x] /\ variant'[x] = variant[x]
    BY <1>5
  <2>. QED
    BY <2>1 DEF PageInv, AnswersAreOwn, Visiting, Loading, Panel, Key
<1>7. Len(views'[q]) = n + 1 /\ views'[q][n + 1] = view /\ \A j \in 1 .. n : views'[q][j] = views[q][j]
  BY <1>1, <1>2, <1>5
<1>8. ViewsFit'
  <2>1. Len(views'[q]) <= Len(Roster) /\ Loading(q)
    BY <1>1, <1>7 DEF Visiting
  <2>. QED
    BY <1>5, <2>1 DEF PageInv, ViewsFit, Loading
<1>9. PagesAreOwn'
  <2>. SUFFICES ASSUME NEW x \in Loads, NEW j \in DOMAIN views'[x]
                PROVE  /\ views'[x][j].panel = Roster[j]
                       /\ views'[x][j].of # None => views'[x][j].of = <<Roster[j], variant'[x]>>
    BY DEF PagesAreOwn
  <2>1. CASE x # q
    BY <2>1, <1>5 DEF PageInv, PagesAreOwn
  <2>2. CASE x = q /\ j = n + 1
    BY <2>2, <1>7 DEF Panel, Key
  <2>3. CASE x = q /\ j # n + 1
    <3>1. j \in 1 .. n /\ DOMAIN views[q] = 1 .. n
      BY <1>1, <1>4, <1>7, <2>3
    <3>. QED
      BY <3>1, <2>3, <1>7 DEF PageInv, PagesAreOwn
  <2>. QED
    BY <2>1, <2>2, <2>3
<1>. QED
  BY <1>4, <1>6, <1>8, <1>9 DEF PageInv

\* Caching under a load's key what was admitted last for it keeps the cache
\* well typed, the last good of each key, and the most recently used.
LEMMA CachedEntry ==
    ASSUME TypeOK, CacheInv, NEW k \in Keys, NEW e \in Entry, e.key = k,
           AdmittedFor(e.tree) = k,
           cache' = Bounded(WithEntry(k, e)), recency' = UsedLast(k),
           lastAdmitted' = [lastAdmitted EXCEPT ![k] = e.tree]
    PROVE  /\ cache' \in Seq(Entry) /\ Len(cache') <= MaxEntries
           /\ recency' \in Seq(Keys)
           /\ CacheInv'
<1>1. /\ Recent(cache', recency') /\ KeptBut(cache', k, e)
      /\ recency' \in Seq(Keys) /\ UsedOnce'
  BY Recached, Used DEF CacheInv, UsedOnce
<1>2. /\ cache' \in Seq(Entry) /\ Len(recency') \in Nat /\ MaxEntries \in Nat
      /\ Len(cache') = IF Len(recency') < MaxEntries THEN Len(recency') ELSE MaxEntries
  BY <1>1, HomeAssumption DEF Recent
<1>3. Len(cache') <= MaxEntries
  BY <1>2
<1>4. CacheIsMostRecent'
  BY <1>1 DEF Recent, CacheIsMostRecent
<1>5. /\ e.tree = lastAdmitted'[k]
      /\ \A x \in Keys \ {k} : lastAdmitted'[x] = lastAdmitted[x]
  BY DEF TypeOK
<1>6. \A i \in 1 .. Len(cache') :
        cache'[i].tree = lastAdmitted'[cache'[i].key] /\ AdmittedFor(cache'[i].tree) = cache'[i].key
  <2>. SUFFICES ASSUME NEW i \in 1 .. Len(cache')
                PROVE  /\ cache'[i].tree = lastAdmitted'[cache'[i].key]
                       /\ AdmittedFor(cache'[i].tree) = cache'[i].key
    OBVIOUS
  <2>1. CASE cache'[i] = e
    BY <2>1, <1>5
  <2>2. ASSUME NEW j \in 1 .. Len(cache), cache'[i] = cache[j], cache[j].key # k
        PROVE  /\ cache'[i].tree = lastAdmitted'[cache'[i].key]
               /\ AdmittedFor(cache'[i].tree) = cache'[i].key
    <3>0. cache \in Seq(Entry)
      BY DEF TypeOK, Entry
    <3>1. j \in DOMAIN cache /\ cache[j] \in Entry
      BY <3>0
    <3>2. cache[j].key \in Keys
      BY <3>1 DEF Entry
    <3>. QED
      BY <2>2, <3>1, <3>2, <1>5 DEF CacheInv, CacheIsLastGood, CachedUnderItsKey
  <2>. QED
    BY <1>1, <2>1, <2>2 DEF KeptBut
<1>7. DOMAIN cache' = 1 .. Len(cache')
  BY <1>2
<1>8. CacheIsLastGood'
  BY <1>6, <1>7 DEF CacheIsLastGood
<1>9. CachedUnderItsKey'
  BY <1>6, <1>7 DEF CachedUnderItsKey, AdmittedFor
<1>. QED
  BY <1>1, <1>2, <1>3, <1>4, <1>8, <1>9 DEF CacheInv

\* A step that leaves the pages' state alone, or the cache's, keeps its part.
LEMMA PagesUntouched ==
    ASSUME PageInv, UNCHANGED request PROVE PageInv'
  BY DEF PageInv, request, AnswersAreOwn, ViewsFit, PagesAreOwn, Visiting, Loading, Panel, Key

LEMMA CacheUntouched ==
    ASSUME CacheInv, UNCHANGED <<cache, history>> PROVE CacheInv'
  BY DEF CacheInv, history, UsedOnce, CacheIsMostRecent, CacheIsLastGood, CachedUnderItsKey, AdmittedFor

\* The conjuncts of IInv are kept by every step.
LEMMA IInvInductive == IInv /\ [Next]_vars => IInv'
<1>. SUFFICES ASSUME IInv, [Next]_vars PROVE IInv'
  OBVIOUS
<1>. USE DEF IInv
<1>1. CASE Publish
  <2>1. TypeOK'
    BY <1>1, HomeAssumption DEF Publish, TypeOK, request, history, Versions
  <2>. QED
    BY <1>1, <2>1, PagesUntouched, CacheUntouched DEF Publish
<1>2. ASSUME NEW q \in Loads, NEW v \in Variants, BeginLoad(q, v) PROVE IInv'
  <2>1. TypeOK'
    BY <1>2 DEF BeginLoad, TypeOK, history
  <2>2. CacheInv'
    BY <1>2, CacheUntouched DEF BeginLoad
  <2>3. \A x \in Loads : variant'[x] = IF x = q THEN v ELSE variant[x]
    BY <1>2 DEF BeginLoad, TypeOK
  <2>4. v # None /\ variant[q] = None /\ views[q] = <<>> /\ UNCHANGED <<answer, views>>
    BY <1>2, NoneIsNothing DEF BeginLoad, Loading, PageInv, ViewsFit
  <2>5. answer[q] = None
    BY <2>4 DEF PageInv, AnswersAreOwn, Visiting, Loading
  <2>6. AnswersAreOwn' /\ ViewsFit'
    BY <2>3, <2>4, <2>5 DEF PageInv, AnswersAreOwn, ViewsFit, Visiting, Loading, Panel, Key, AdmittedFor
  <2>7. PagesAreOwn'
    BY <2>3, <2>4 DEF PageInv, PagesAreOwn
  <2>. QED
    BY <2>1, <2>2, <2>6, <2>7 DEF PageInv
<1>3. ASSUME NEW q \in Loads, Answer(q) PROVE IInv'
  <2>. DEFINE tree == [panel |-> Panel(q), variant |-> variant[q], version |-> version]
  <2>1. Visiting(q) /\ answer' = [answer EXCEPT ![q] = tree] /\ UNCHANGED <<version, cache, variant, views, history>>
    BY <1>3 DEF Answer
  <2>2. tree \in Tree
    BY <2>1, VisitTyping DEF Tree, TypeOK
  <2>3. AdmittedFor(tree) = Key(q, Panel(q))
    BY DEF AdmittedFor, Key
  <2>. HIDE DEF tree
  <2>4. TypeOK'
    BY <2>1, <2>2 DEF TypeOK, history
  <2>5. \A x \in Loads : answer'[x] = IF x = q THEN tree ELSE answer[x]
    BY <2>1 DEF TypeOK
  <2>6. AnswersAreOwn'
    BY <2>1, <2>3, <2>5 DEF PageInv, AnswersAreOwn, Visiting, Loading, Panel, Key, AdmittedFor
  <2>7. ViewsFit' /\ PagesAreOwn'
    BY <2>1 DEF PageInv, ViewsFit, PagesAreOwn, Loading
  <2>. QED
    BY <2>1, <2>4, <2>6, <2>7, CacheUntouched DEF PageInv
<1>4. ASSUME NEW q \in Loads, Admit(q) PROVE IInv'
  <2>. DEFINE k == Key(q, Panel(q))
              e == [key |-> k, tree |-> answer[q]]
  <2>1. /\ Visiting(q) /\ answer[q] # None
        /\ cache' = Bounded(Inserted(k, answer[q])) /\ recency' = UsedLast(k)
        /\ lastAdmitted' = [lastAdmitted EXCEPT ![<<Panel(q), variant[q]>>] = answer[q]]
        /\ Push(q, "live", AdmittedFor(answer[q]))
        /\ UNCHANGED <<version, variant>>
    BY <1>4 DEF Admit
  <2>2. k \in Keys /\ answer[q] \in Tree /\ AdmittedFor(answer[q]) = k
    BY <2>1, VisitTyping DEF TypeOK, PageInv, AnswersAreOwn
  <2>3. e \in Entry /\ e.key = k /\ e.tree = answer[q]
    BY <2>2 DEF Entry
  <2>4. cache' = Bounded(WithEntry(k, e))
    BY <2>1 DEF Inserted, WithEntry
  <2>5. lastAdmitted' = [lastAdmitted EXCEPT ![k] = e.tree]
    BY <2>1 DEF Key
  <2>. HIDE DEF k, e
  <2>6. /\ cache' \in Seq(Entry) /\ Len(cache') <= MaxEntries /\ recency' \in Seq(Keys)
        /\ CacheInv'
    BY <2>1, <2>2, <2>3, <2>4, <2>5, CachedEntry
  <2>7. /\ views' \in [Loads -> Seq(View)] /\ answer' \in [Loads -> Tree \cup {None}]
        /\ PageInv'
    BY <2>1, <2>2, PushedView DEF k
  <2>8. TypeOK'
    BY <2>1, <2>2, <2>3, <2>5, <2>6, <2>7 DEF TypeOK, Entry
  <2>. QED
    BY <2>6, <2>7, <2>8
<1>5. ASSUME NEW q \in Loads, FallBack(q) PROVE IInv'
  <2>. DEFINE k == Key(q, Panel(q))
  <2>1. Visiting(q) /\ UNCHANGED <<version, variant, lastAdmitted>>
    BY <1>5 DEF FallBack
  <2>2. k \in Keys
    BY <2>1, VisitTyping
  <2>3. ASSUME NEW n \in Entries(k),
               cache' = Refreshed(k, n), recency' = UsedLast(k),
               Push(q, "stale", AdmittedFor(cache[n].tree))
        PROVE  IInv'
    <3>. DEFINE e == cache[n]
    <3>1. e \in Entry /\ e.key = k /\ AdmittedFor(e.tree) = k /\ lastAdmitted[k] = e.tree
      <4>1. cache \in Seq(Entry) /\ n \in DOMAIN cache /\ e.key = k
        BY <2>3 DEF TypeOK, Entry, Entries
      <4>2. e \in Entry
        BY <4>1
      <4>. QED
        BY <4>1, <4>2 DEF CacheInv, CacheIsLastGood, CachedUnderItsKey
    <3>2. cache' = Bounded(WithEntry(k, e))
      <4>1. cache' = WithEntry(k, e)
        BY <2>3 DEF Refreshed, WithEntry
      <4>. HIDE DEF e
      <4>2. Bounded(WithEntry(k, e)) = WithEntry(k, e)
        BY <2>2, <2>3, <3>1, Recached DEF CacheInv
      <4>. QED
        BY <4>1, <4>2
    <3>. HIDE DEF e, k
    <3>3. lastAdmitted' = [lastAdmitted EXCEPT ![k] = e.tree]
      BY <2>1, <2>2, <3>1 DEF TypeOK
    <3>4. /\ cache' \in Seq(Entry) /\ Len(cache') <= MaxEntries /\ recency' \in Seq(Keys)
          /\ CacheInv'
      BY <2>2, <2>3, <3>1, <3>2, <3>3, CachedEntry
    <3>5. /\ views' \in [Loads -> Seq(View)] /\ answer' \in [Loads -> Tree \cup {None}]
          /\ PageInv'
      BY <2>1, <2>3, <3>1, PushedView DEF k, e
    <3>6. TypeOK'
      BY <2>1, <3>4, <3>5 DEF TypeOK, Entry
    <3>. QED
      BY <3>4, <3>5, <3>6
  <2>4. CASE PushDead(q)
    <3>1. Push(q, "dead", None) /\ UNCHANGED <<cache, recency>>
      BY <2>4 DEF PushDead
    <3>2. /\ views' \in [Loads -> Seq(View)] /\ answer' \in [Loads -> Tree \cup {None}]
          /\ PageInv'
      BY <2>1, <3>1, PushedView
    <3>3. TypeOK' /\ CacheInv'
      BY <2>1, <3>1, <3>2, CacheUntouched DEF TypeOK, history
    <3>. QED
      BY <3>2, <3>3
  <2>. QED
    BY <1>5, <2>3, <2>4 DEF FallBack
<1>6. ASSUME NEW q \in Loads, EndLoad(q) PROVE IInv'
  <2>1. /\ variant' = [variant EXCEPT ![q] = None] /\ views' = [views EXCEPT ![q] = <<>>]
        /\ Len(views[q]) = Len(Roster)
        /\ UNCHANGED <<version, cache, answer, history>>
    BY <1>6 DEF EndLoad, Whole
  <2>2. TypeOK'
    BY <2>1 DEF TypeOK, history
  <2>3. \A x \in Loads : /\ variant'[x] = IF x = q THEN None ELSE variant[x]
                         /\ views'[x] = IF x = q THEN <<>> ELSE views[x]
    BY <2>1 DEF TypeOK
  <2>4. answer[q] = None
    BY <2>1, HomeAssumption DEF PageInv, AnswersAreOwn, Visiting
  <2>5. AnswersAreOwn'
    BY <2>1, <2>3, <2>4 DEF PageInv, AnswersAreOwn, Visiting, Loading, Panel, Key, AdmittedFor
  <2>6. ViewsFit'
    BY <2>3, HomeAssumption DEF PageInv, ViewsFit, Loading
  <2>7. PagesAreOwn'
    BY <2>3 DEF PageInv, PagesAreOwn
  <2>. QED
    BY <2>1, <2>2, <2>5, <2>6, <2>7, CacheUntouched DEF PageInv
<1>7. CASE UNCHANGED vars
  <2>1. TypeOK'
    BY <1>7 DEF vars, TypeOK, request, history
  <2>. QED
    BY <1>7, <2>1, PagesUntouched, CacheUntouched DEF vars
<1>. QED
  BY <1>1, <1>2, <1>3, <1>4, <1>5, <1>6, <1>7 DEF Next

\* Every reachable state satisfies the invariant.
LEMMA IInvHolds == Spec => []IInv
<1>1. Init => IInv
  <2>. SUFFICES ASSUME Init PROVE IInv
    OBVIOUS
  <2>1. TypeOK
    BY HomeAssumption DEF Init, TypeOK, Versions
  <2>2. CacheInv
    BY HomeAssumption
    DEF Init, CacheInv, UsedOnce, CacheIsMostRecent, CacheIsLastGood, CachedUnderItsKey
  <2>3. PageInv
    BY HomeAssumption DEF Init, PageInv, AnswersAreOwn, ViewsFit, PagesAreOwn, Loading
  <2>. QED
    BY <2>1, <2>2, <2>3 DEF IInv
<1>. QED
  BY <1>1, IInvInductive, PTL DEF Spec

\* The cache, the page loads and what they hold are well typed, and the cache
\* never exceeds its bound, however many page loads overlap.
THEOREM HomeTypeCorrect == Spec => []TypeOK
<1>1. IInv => TypeOK
  BY DEF IInv
<1>. QED
  BY <1>1, IInvHolds, PTL

\* The cached tree of a panel and request is the one admitted last for them,
\* whatever order the overlapping page loads admit theirs in.
THEOREM TheCacheIsTheLastGood == Spec => []CacheIsLastGood
<1>1. IInv => CacheIsLastGood
  BY DEF IInv, CacheInv
<1>. QED
  BY <1>1, IInvHolds, PTL

\* The cache is exactly the most recently used keys, in order of their use.
THEOREM TheCacheIsTheMostRecent == Spec => []CacheIsMostRecent
<1>1. IInv => CacheIsMostRecent
  BY DEF IInv, CacheInv
<1>. QED
  BY <1>1, IInvHolds, PTL

\* A page shows, live or stale, only trees admitted for its own panels under
\* its own request.
THEOREM EveryPageIsItsOwn == Spec => []PagesAreOwn
<1>1. IInv => PagesAreOwn
  BY DEF IInv, PageInv
<1>. QED
  BY <1>1, IInvHolds, PTL
=============================================================================
