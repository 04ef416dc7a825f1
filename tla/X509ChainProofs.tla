-------------------------- MODULE X509ChainProofs --------------------------
(***************************************************************************)
(* A chain that brisk__x509_chain_verify accepts is a path to a trust      *)
(* anchor, for every set of certificates, trust store, pin set, clock and  *)
(* budget, whatever the search tried and took back before.                 *)
(***************************************************************************)
EXTENDS X509Chain, SetSums

(***************************************************************************)
(* The invariant: the search stands on a path, and below and pin_mask say  *)
(* of exactly this path how many certificates count towards a              *)
(* pathLenConstraint and which are pinned.                                 *)
(***************************************************************************)

Counted(p, d) == {k \in 0..d - 1 : ~self_issued(cert(p[k]))}

SearchInv ==
    /\ time_ok(cert(0))
    /\ Path(chosen, depth)
    /\ below = Between(chosen, depth)
    /\ pin_mask = pin_start \cup
         {d \in 0..depth - 1 : input.pinning /\ pinned(cert(chosen[d]))}

IInv ==
    /\ TypeOK /\ input \in Inputs
    /\ at # "done" => rc = "none" /\ SearchInv
    /\ at = "anchors" => depth < MAX_CHAIN
    /\ at = "peers" => i # 0
    /\ at # "done" => work <= MAX_VERIFY
    /\ OkIsTrusted

\* Indices name certificates.
LEMMA CertType ==
    ASSUME TypeOK
    PROVE  /\ n_certs \in Nat /\ 0 \in Index
           /\ cur \in Index
           /\ \A k \in Index : k \in Nat /\ cert(k) \in Cert
<1>1. n_certs \in Nat /\ n_certs > 0
  BY DEF TypeOK, n_certs
<1>2. \A k \in Index : k \in Nat /\ cert(k) \in Cert
  BY <1>1 DEF TypeOK, Index, cert, n_certs
<1>3. 0 \in Index
  BY <1>1 DEF Index
<1>4. cur \in Index
  BY <1>3, ChainAssumption DEF TypeOK, cur, Depths
<1> QED  BY <1>1, <1>2, <1>3, <1>4

\* The count below a depth is a number no larger than it.
LEMMA CountedFinite ==
    ASSUME NEW p, NEW d \in Nat
    PROVE  IsFiniteSet(Counted(p, d)) /\ Between(p, d) \in 0..d
<1>1. IsFiniteSet(0..d - 1) /\ Cardinality(0..d - 1) = d
  BY FS_Interval
<1>2. Counted(p, d) \subseteq 0..d - 1
  BY DEF Counted
<1>3. IsFiniteSet(Counted(p, d)) /\ Cardinality(Counted(p, d)) \in Nat
      /\ Cardinality(Counted(p, d)) <= d
  BY <1>1, <1>2, FS_Subset, FS_CardinalityType
<1> QED  BY <1>3 DEF Between, Counted

\* Only what lies below a depth matters to its count.
LEMMA BetweenSame ==
    ASSUME NEW p, NEW q, NEW d \in Nat, \A k \in 0..d - 1 : p[k] = q[k]
    PROVE  Between(p, d) = Between(q, d)
<1>1. Counted(p, d) = Counted(q, d)
  BY DEF Counted
<1> QED  BY <1>1 DEF Between, Counted

\* One level more counts its parent unless that is self-issued (6.1.4 (l)).
LEMMA BetweenNext ==
    ASSUME NEW p, NEW d \in Nat
    PROVE  Between(p, d + 1) =
             IF self_issued(cert(p[d])) THEN Between(p, d) ELSE Between(p, d) + 1
<1>1. IsFiniteSet(Counted(p, d)) /\ d \notin Counted(p, d)
  <2>1. IsFiniteSet(Counted(p, d))
    BY CountedFinite
  <2> QED  BY <2>1 DEF Counted
<1>2. CASE self_issued(cert(p[d]))
  <2>1. Counted(p, d + 1) = Counted(p, d)
    BY <1>2 DEF Counted
  <2> QED  BY <2>1, <1>2 DEF Between, Counted
<1>3. CASE ~self_issued(cert(p[d]))
  <2>1. Counted(p, d + 1) = Counted(p, d) \cup {d}
    BY <1>3 DEF Counted
  <2>2. Cardinality(Counted(p, d + 1)) = Cardinality(Counted(p, d)) + 1
    BY <1>1, <2>1, FS_AddElement
  <2> QED  BY <2>2, <1>3 DEF Between, Counted
<1> QED  BY <1>2, <1>3

\* A path is a path by what lies on it.
LEMMA PathSame ==
    ASSUME NEW p, NEW q, NEW n \in Nat, \A k \in 0..n - 1 : p[k] = q[k], Path(p, n)
    PROVE  Path(q, n)
<1> SUFFICES ASSUME NEW d \in 0..n - 1 PROVE Link(q, d)
  BY DEF Path
<1>1. Link(p, d)
  BY DEF Path
<1>2. p[d] = q[d] /\ On(p, d) = On(q, d)
  BY DEF On
<1>3. Between(p, d) = Between(q, d)
  BY BetweenSame
<1> QED  BY <1>1, <1>2, <1>3 DEF Link

\* The call's arguments do not change under it.
LEMMA Transfer ==
    ASSUME input' = input
    PROVE  /\ Path(chosen, depth)' <=> Path(chosen', depth')
           /\ Between(chosen, depth)' = Between(chosen', depth')
           /\ pin_start' = pin_start
           /\ time_ok(cert(0))' <=> time_ok(cert(0))
           /\ \A k : pinned(cert(k))' <=> pinned(cert(k))
<1>1. Between(chosen, depth)' = Between(chosen', depth')
  BY DEF Between, cert
<1>2. pin_start' = pin_start
  BY DEF pin_start, pinned, cert
<1>3. (time_ok(cert(0))' <=> time_ok(cert(0))) /\ \A k : pinned(cert(k))' <=> pinned(cert(k))
  BY DEF time_ok, tfloor, cert, pinned
<1>4. Path(chosen, depth)' <=> Path(chosen', depth')
  BY DEF Path, Link, On, Between, cert, time_ok, tfloor, Index, n_certs
<1> QED  BY <1>1, <1>2, <1>3, <1>4

\* A step that leaves the path alone keeps what is known of it.
LEMMA SearchSame ==
    ASSUME SearchInv, UNCHANGED <<input, chosen, depth, below, pin_mask>>
    PROVE  SearchInv'
BY Transfer DEF SearchInv

(***************************************************************************)
(* Init and the steps                                                      *)
(***************************************************************************)

\* The search starts on the path that is the end entity alone.
LEMMA InitIInv == Init => IInv
<1> SUFFICES ASSUME NEW in \in Inputs, Start(in) PROVE IInv
  BY DEF Init
<1>1. input = in /\ depth = 0 /\ below = 0 /\ i = 0 /\ resume = 1 /\ work = 0 /\ lookups = 0
  BY DEF Start
<1>2. input.certs \in Seq(Cert) /\ n_certs > 0 /\ n_certs \in Nat
  BY <1>1, ChainAssumption DEF n_certs
<1>3. chosen \in [Depths -> Index]
  BY <1>2 DEF Start, Index
<1>4. pin_mask \subseteq 0..31 /\ rc # "BRISK_OK" /\ at \in {"arrive", "done"}
      /\ rc \in {"none", "BRISK_E_AUTH"}
  BY DEF Start, pin_start, END_ENTITY
<1>5. TypeOK
  BY <1>1, <1>2, <1>3, <1>4, ChainAssumption DEF TypeOK
<1>6. Between(chosen, 0) = 0
  BY CountedFinite
<1>7. at # "done" => rc = "none" /\ SearchInv
  BY <1>1, <1>6 DEF Start, SearchInv, Path
<1>8. work <= MAX_VERIFY
  BY <1>1, ChainAssumption
<1> QED  BY <1>1, <1>4, <1>5, <1>7, <1>8 DEF IInv, OkIsTrusted

\* A verified candidate prolongs the path by one link.
LEMMA DescendKeeps ==
    ASSUME IInv, at = "peers", depth < MAX_CHAIN, NEW k \in Index \ {0},
           peer_fits(k), signed_by(cert(cur), cert(k)), Descend(k), input' = input
    PROVE  /\ SearchInv'
           /\ chosen' \in [Depths -> Index] /\ depth' \in 0..MAX_CHAIN /\ below' \in 0..depth'
           /\ pin_mask' \subseteq 0..31
<1>1. /\ TypeOK /\ SearchInv /\ depth \in Nat /\ depth \in Depths /\ k \in Index
      /\ MAX_CHAIN \in 1..31
  BY ChainAssumption DEF IInv, TypeOK, Depths
<1>2. /\ chosen' = [chosen EXCEPT ![depth] = k] /\ depth' = depth + 1
      /\ below' = (IF self_issued(cert(k)) THEN below ELSE below + 1)
      /\ pin_mask' = Pins(k)
  BY DEF Descend
<1>3. chosen'[depth] = k /\ \A d \in 0..depth - 1 : chosen'[d] = chosen[d]
  BY <1>1, <1>2 DEF TypeOK, Depths
<1>4. Path(chosen', depth)
  BY <1>1, <1>3, PathSame DEF SearchInv
<1>5. Between(chosen', depth) = below
  BY <1>1, <1>3, BetweenSame DEF SearchInv
<1>6. On(chosen', depth) = cur
  BY <1>1, <1>3 DEF On, cur
<1>7. Link(chosen', depth)
  BY <1>3, <1>5, <1>6 DEF Link, peer_fits
<1>8. Path(chosen', depth + 1)
  <2>1. \A d \in 0..(depth + 1) - 1 : d \in 0..depth - 1 \/ d = depth
    BY <1>1
  <2> QED  BY <1>4, <1>7, <2>1 DEF Path
<1>9. Between(chosen', depth + 1) = below'
  BY <1>1, <1>2, <1>3, <1>5, BetweenNext
<1>10. pin_mask' = pin_start \cup
         {d \in 0..depth : input.pinning /\ pinned(cert(chosen'[d]))}
  <2>1. 0..depth = (0..depth - 1) \cup {depth}
    BY <1>1
  <2>2. pin_mask = pin_start \cup {d \in 0..depth - 1 : input.pinning /\ pinned(cert(chosen'[d]))}
    BY <1>1, <1>3 DEF SearchInv
  <2> QED  BY <1>2, <1>3, <2>1, <2>2 DEF Pins
<1>11. SearchInv'
  <2>1. /\ Path(chosen, depth)' /\ Between(chosen, depth)' = below' /\ time_ok(cert(0))'
        /\ pin_start' = pin_start /\ \A d : pinned(cert(d))' <=> pinned(cert(d))
    BY Transfer, <1>1, <1>2, <1>8, <1>9 DEF SearchInv
  <2>2. 0..depth' - 1 = 0..depth
    BY <1>1, <1>2
  <2>3. {d \in 0..depth : input.pinning /\ pinned(cert(chosen'[d]))} =
          {d \in 0..depth - 1 : input.pinning /\ pinned(cert(chosen[d]))}'
    BY <2>2 DEF pinned, cert
  <2> QED  BY <2>1, <2>3, <1>10 DEF SearchInv
<1>12. chosen' \in [Depths -> Index]
  BY <1>1, <1>2 DEF TypeOK
<1>13. depth' \in 0..MAX_CHAIN /\ below' \in 0..depth'
  BY <1>1, <1>2 DEF TypeOK
<1>14. pin_mask' \subseteq 0..31
  BY <1>1, <1>2 DEF TypeOK, Pins
<1> QED  BY <1>11, <1>12, <1>13, <1>14

\* Backing up leaves the path below, its count and its pins.
LEMMA BackUpKeeps ==
    ASSUME IInv, at = "peers", depth # 0, DeadEnd
    PROVE  /\ SearchInv'
           /\ depth' \in 0..MAX_CHAIN /\ below' \in 0..depth' /\ pin_mask' \subseteq 0..31
           /\ resume' \in Nat \ {0}
<1> DEFINE d == depth - 1
<1>1. /\ TypeOK /\ SearchInv /\ d \in Nat /\ depth = d + 1 /\ d \in Depths /\ d <= 30
      /\ MAX_CHAIN \in 1..31 /\ depth \in 0..MAX_CHAIN
  BY ChainAssumption DEF IInv, TypeOK, Depths
<1>2. /\ depth' = d /\ resume' = chosen[d] + 1 /\ UNCHANGED <<input, chosen>>
      /\ below' = (IF self_issued(cert(chosen[d])) THEN below ELSE below - 1)
      /\ pin_mask' = pin_mask \ {d}
  BY DEF DeadEnd, Under, Unpinned
<1> HIDE DEF d
<1>3. Path(chosen, d)
  BY <1>1 DEF SearchInv, Path
<1>4. Between(chosen, d) = below' /\ below' \in 0..d
  BY <1>1, <1>2, BetweenNext, CountedFinite DEF SearchInv
<1>5. pin_mask' = pin_start \cup {e \in 0..d - 1 : input.pinning /\ pinned(cert(chosen[e]))}
  <2>1. d \notin pin_start
    BY <1>1 DEF pin_start, END_ENTITY
  <2>2. (0..depth - 1) \ {d} = 0..d - 1
    BY <1>1
  <2> QED  BY <1>1, <1>2, <2>1, <2>2 DEF SearchInv
<1>6. SearchInv'
  <2>1. /\ Path(chosen, depth)' /\ Between(chosen, depth)' = below' /\ time_ok(cert(0))'
        /\ pin_start' = pin_start /\ \A e : pinned(cert(e))' <=> pinned(cert(e))
    BY Transfer, <1>1, <1>2, <1>3, <1>4 DEF SearchInv
  <2>2. {e \in 0..d - 1 : input.pinning /\ pinned(cert(chosen[e]))} =
          {e \in 0..depth - 1 : input.pinning /\ pinned(cert(chosen[e]))}'
    BY <1>2 DEF pinned, cert
  <2> QED  BY <2>1, <2>2, <1>5 DEF SearchInv
<1>7. resume' \in Nat \ {0}
  BY <1>1, <1>2, CertType DEF TypeOK
<1>8. depth' \in 0..MAX_CHAIN /\ below' \in 0..depth' /\ pin_mask' \subseteq 0..31
  BY <1>1, <1>2, <1>4 DEF TypeOK
<1> QED  BY <1>6, <1>7, <1>8

\* An anchor that is accepted stands above a path whose pins, or its own key, satisfy the policy.
LEMMA AnchorTrusted ==
    ASSUME IInv, at = "anchors", NEW k \in Offers(cert(cur).issuer),
           anchor_fits(Offered(cert(cur).issuer, k)),
           signed_by(cert(cur), Offered(cert(cur).issuer, k)),
           pin_mask # {} \/ pinned(Offered(cert(cur).issuer, k))
    PROVE  depth < MAX_CHAIN /\ Trusted(chosen, depth, Offered(cert(cur).issuer, k))
<1> DEFINE a == Offered(cert(cur).issuer, k)
<1>1. SearchInv /\ depth < MAX_CHAIN /\ depth \in Nat /\ On(chosen, depth) = cur
  BY DEF IInv, TypeOK, On, cur
<1>2. anchor_fits(a) /\ signed_by(cert(cur), a) /\ (pin_mask # {} \/ pinned(a))
  OBVIOUS
<1>3. \E m \in Offers(cert(cur).issuer) : a = Offered(cert(cur).issuer, m)
  OBVIOUS
<1> HIDE DEF a
<1>4. Anchored(chosen, depth, a)
  BY <1>1, <1>2, <1>3 DEF Anchored, anchor_fits, SearchInv
<1>5. PinSatisfied(chosen, depth, a)
  <2> SUFFICES ASSUME input.pinning, ~pinned(a)
               PROVE  \E d \in 0..depth : pinned(cert(On(chosen, d)))
    BY DEF PinSatisfied
  <2>1. PICK b \in pin_mask : TRUE
    BY <1>2
  <2>2. CASE b \in pin_start
    <3>1. pinned(cert(0)) /\ On(chosen, 0) = 0 /\ 0 \in 0..depth
      BY <1>1, <2>2 DEF pin_start, On
    <3> QED  BY <3>1
  <2>3. CASE b \in 0..depth - 1 /\ pinned(cert(chosen[b]))
    <3>1. b + 1 \in 0..depth /\ On(chosen, b + 1) = chosen[b]
      BY <1>1, <2>3 DEF On
    <3> QED  BY <3>1, <2>3
  <2> QED  BY <1>1, <2>1, <2>2, <2>3 DEF SearchInv
<1> QED  BY <1>1, <1>4, <1>5 DEF Trusted, SearchInv, a

\* Every step keeps the invariant.
LEMMA NextIInv == IInv /\ [Next]_vars => IInv'
<1> SUFFICES ASSUME IInv, [Next]_vars PROVE IInv'
  OBVIOUS
<1>1. TypeOK /\ input \in Inputs
  BY DEF IInv
<1>2. CASE Arrive
  <2>1. /\ UNCHANGED <<input, chosen, depth, resume, below, pin_mask, work, anchor, rc>>
        /\ lookups' \in Nat /\ rc = "none" /\ SearchInv /\ work <= MAX_VERIFY
        /\ \/ at' = "anchors" /\ i' = 0 /\ depth < MAX_CHAIN
           \/ at' = "peers" /\ i' = resume
    BY <1>1, <1>2 DEF Arrive, IInv, TypeOK
  <2>2. TypeOK'
    BY <2>1, <1>1 DEF TypeOK, n_certs, Index
  <2>3. SearchInv'
    BY <2>1, SearchSame
  <2> QED  BY <2>1, <2>2, <2>3, <1>1 DEF IInv, OkIsTrusted, TypeOK
<1>3. CASE NoMoreAnchors
  <2>1. /\ UNCHANGED <<input, chosen, depth, resume, below, pin_mask, work, lookups, anchor, rc>>
        /\ at' = "peers" /\ i' = resume /\ rc = "none" /\ SearchInv /\ work <= MAX_VERIFY
    BY <1>3 DEF NoMoreAnchors, IInv
  <2>2. TypeOK'
    BY <2>1, <1>1 DEF TypeOK, n_certs, Index
  <2>3. SearchInv'
    BY <2>1, SearchSame
  <2> QED  BY <2>1, <2>2, <2>3, <1>1 DEF IInv, OkIsTrusted, TypeOK
<1>4. CASE TryAnchor
  <2>1. /\ at = "anchors" /\ i \in Offers(cert(cur).issuer) /\ rc = "none" /\ SearchInv
        /\ UNCHANGED <<input, chosen, depth, resume, below, pin_mask, lookups>>
        /\ work \in 0..MAX_VERIFY + 1 /\ i \in Nat /\ MAX_VERIFY \in Nat
    BY <1>1, <1>4, ChainAssumption DEF TryAnchor, IInv, TypeOK
  <2>2. SearchInv'
    BY <2>1, SearchSame
  <2>3. /\ work' \in 0..MAX_VERIFY + 1 /\ i' \in Nat
        /\ at' # "done" => work' <= MAX_VERIFY
        /\ \/ at' = "done" /\ rc' = "BRISK_E_AUTH"
           \/ at' = "anchors" /\ rc' = "none"
           \/ /\ at' = "done" /\ rc' = "BRISK_OK"
              /\ anchor' = Offered(cert(cur).issuer, i)
              /\ anchor_fits(Offered(cert(cur).issuer, i))
              /\ signed_by(cert(cur), Offered(cert(cur).issuer, i))
              /\ pin_mask # {} \/ pinned(Offered(cert(cur).issuer, i))
    <3> DEFINE a == Offered(cert(cur).issuer, i)
               fits == anchor_fits(a)
    <3>1. /\ work' = IF fits THEN work + 1 ELSE work
          /\ IF work' > MAX_VERIFY
             THEN at' = "done" /\ rc' = "BRISK_E_AUTH" /\ UNCHANGED <<i, anchor>>
             ELSE IF fits /\ signed_by(cert(cur), a) /\ (pin_mask # {} \/ pinned(a))
             THEN at' = "done" /\ rc' = "BRISK_OK" /\ anchor' = a /\ UNCHANGED i
             ELSE i' = i + 1 /\ UNCHANGED <<at, rc, anchor>>
      BY <1>4 DEF TryAnchor, return
    <3> HIDE DEF a, fits
    <3>2. work' \in 0..MAX_VERIFY + 1
      <4>1. at # "done" => work <= MAX_VERIFY
        BY <1>1 DEF IInv
      <4> QED  BY <2>1, <3>1, <4>1
    <3>3. i' \in Nat
      BY <2>1, <3>1
    <3>4. at' # "done" => work' <= MAX_VERIFY
      BY <2>1, <3>1, <3>2
    <3> QED  BY <2>1, <3>1, <3>2, <3>3, <3>4 DEF a, fits
  <2>4. TypeOK'
    BY <2>1, <2>3, <1>1 DEF TypeOK, n_certs, Index
  <2>5. OkIsTrusted'
    <3>1. CASE rc' # "BRISK_OK"
      BY <3>1 DEF OkIsTrusted
    <3>2. CASE rc' = "BRISK_OK"
      <4>1. depth < MAX_CHAIN /\ Trusted(chosen, depth, anchor')
        BY <2>1, <2>3, <3>2, AnchorTrusted
      <4>2. Trusted(chosen, depth, anchor)'
        BY <2>1, <4>1 DEF Trusted, Path, Link, Anchored, PinSatisfied, On, Between, cert, time_ok,
                          tfloor, Index, n_certs, pinned, Offers, Offered, conn_anchor
      <4> QED  BY <2>1, <4>1, <4>2 DEF OkIsTrusted
    <3> QED  BY <3>1, <3>2
  <2> QED  BY <2>1, <2>2, <2>3, <2>4, <2>5, <1>1 DEF IInv
<1>5. CASE TryPeer
  <2>1. /\ at = "peers" /\ depth < MAX_CHAIN /\ i < n_certs /\ rc = "none" /\ SearchInv /\ i # 0
        /\ UNCHANGED <<input, lookups, anchor>>
        /\ work \in 0..MAX_VERIFY + 1 /\ i \in Nat /\ MAX_VERIFY \in Nat
    BY <1>1, <1>5, ChainAssumption DEF TryPeer, Scanning, IInv, TypeOK
  <2>2. i \in Index \ {0}
    BY <2>1, <1>1, CertType DEF Index
  <2>3. work' \in 0..MAX_VERIFY + 1
    <3>1. at # "done" => work <= MAX_VERIFY
      BY <1>1 DEF IInv
    <3> QED  BY <2>1, <3>1, <1>5 DEF TryPeer
  <2>4. CASE work' <= MAX_VERIFY /\ peer_fits(i) /\ signed_by(cert(cur), cert(i)) /\ Descend(i)
    <3>1. /\ SearchInv' /\ chosen' \in [Depths -> Index] /\ depth' \in 0..MAX_CHAIN
          /\ below' \in 0..depth' /\ pin_mask' \subseteq 0..31
      BY <2>1, <2>2, <2>4, DescendKeeps
    <3>2. resume' = 1 /\ at' = "arrive" /\ i' = 0 /\ rc' = rc
      BY <2>4 DEF Descend
    <3>3. TypeOK'
      BY <2>1, <2>3, <3>1, <3>2, <1>1 DEF TypeOK, n_certs, Index
    <3> QED  BY <2>1, <2>4, <3>1, <3>2, <3>3, <1>1 DEF IInv, OkIsTrusted
  <2>5. CASE /\ UNCHANGED <<chosen, below, pin_mask, depth, resume>>
             /\ \/ at' = "done" /\ rc' = "BRISK_E_AUTH" /\ i' = i
                \/ at' = at /\ rc' = rc /\ i' = i + 1 /\ work' <= MAX_VERIFY
    <3>1. SearchInv'
      BY <2>1, <2>5, SearchSame
    <3>2. TypeOK'
      BY <2>1, <2>3, <2>5, <1>1 DEF TypeOK, n_certs, Index
    <3> QED  BY <2>1, <2>5, <3>1, <3>2, <1>1 DEF IInv, OkIsTrusted
  <2> QED  BY <2>1, <2>3, <2>4, <2>5, <1>5 DEF TryPeer, return
<1>6. CASE DeadEnd
  <2>1. /\ at = "peers" /\ rc = "none" /\ SearchInv
        /\ UNCHANGED <<input, chosen, work, lookups, i, anchor>>
    BY <1>6 DEF DeadEnd, IInv
  <2>2. CASE depth = 0
    <3>1. /\ at' = "done" /\ rc' = "BRISK_E_AUTH"
          /\ UNCHANGED <<depth, resume, below, pin_mask>>
      BY <1>6, <2>2 DEF DeadEnd, return
    <3>2. TypeOK'
      BY <2>1, <3>1, <1>1 DEF TypeOK, n_certs, Index
    <3> QED  BY <2>1, <3>1, <3>2, <1>1 DEF IInv, OkIsTrusted
  <2>3. CASE depth # 0
    <3>1. at' = "arrive" /\ rc' = rc
      BY <1>6, <2>3 DEF DeadEnd
    <3>2. /\ SearchInv' /\ resume' \in Nat \ {0} /\ depth' \in 0..MAX_CHAIN
          /\ below' \in 0..depth' /\ pin_mask' \subseteq 0..31
      BY <1>6, <2>1, <2>3, BackUpKeeps
    <3>3. TypeOK'
      BY <2>1, <3>1, <3>2, <1>1 DEF TypeOK, n_certs, Index
    <3> QED  BY <2>1, <3>1, <3>2, <3>3, <1>1 DEF IInv, OkIsTrusted
  <2> QED  BY <2>2, <2>3
<1>7. CASE UNCHANGED vars
  <2>1. /\ UNCHANGED <<input, chosen, depth, resume, below, pin_mask, work, lookups>>
        /\ UNCHANGED <<at, i, anchor, rc>>
    BY <1>7 DEF vars
  <2>2. TypeOK'
    BY <2>1, <1>1 DEF TypeOK, n_certs, Index
  <2>3. at # "done" => SearchInv'
    BY <2>1, SearchSame DEF IInv
  <2>4. OkIsTrusted'
    BY <2>1 DEF IInv, OkIsTrusted, Trusted, Path, Link, Anchored, PinSatisfied, On, Between, cert,
                time_ok, tfloor, Index, n_certs, pinned, Offers, Offered, conn_anchor
  <2> QED  BY <2>1, <2>2, <2>3, <2>4, <1>1 DEF IInv
<1> QED  BY <1>2, <1>3, <1>4, <1>5, <1>6, <1>7 DEF Next

\* The invariant holds throughout.
LEMMA SpecIInv == Spec => []IInv
BY InitIInv, NextIInv, PTL DEF Spec

-----------------------------------------------------------------------------
(***************************************************************************)
(* The other half: the search passes over no path.  It visits the paths in *)
(* lexicographic order of their indices, the anchors of a path before its  *)
(* prolongations, so a trusted path it has not returned lies ahead of it.  *)
(* A path that follows a certificate by itself is never visited, and need  *)
(* not be: the certificate is self-issued, counts towards no pathLen, and  *)
(* the path without the repetition is trusted as well.                     *)
(***************************************************************************)

Straight(p, n) == \A d \in 0..n - 1 : p[d] # On(p, d)
Agrees(p, d) == \A e \in 0..d - 1 : p[e] = chosen[e]

\* The search has still to come to anchor k above the path p of length n.
Ahead(p, n, k) ==
    \/ \E e \in 0..depth - 1 : e < n /\ Agrees(p, e) /\ p[e] > chosen[e]
    \/ /\ Agrees(p, depth) /\ n >= depth
       /\ at = "arrive" => (resume = 1 \/ (n > depth /\ p[depth] >= resume))
       /\ at = "anchors" => (n > depth \/ k >= i)
       /\ at = "peers" => (n > depth /\ p[depth] >= i)

Offering(p, n) == Offers(cert(On(p, n)).issuer)
Accepted(p, n, k) ==
    Straight(p, n) /\ Trusted(p, n, Offered(cert(On(p, n)).issuer, k))

AllAhead ==
    \A n \in Depths : \A p \in [0..n - 1 -> Index \ {0}] :
        \A k \in Offering(p, n) : Accepted(p, n, k) => Ahead(p, n, k)

HopeInv ==
    /\ at = "anchors" => resume = 1
    /\ at # "done" /\ lookups <= MAX_LOOKUPS => AllAhead
    /\ AuthIsHopeless

\* The path p of length n without its certificate d.
Without(p, n, d) == [e \in 0..n - 2 |-> IF e < d THEN p[e] ELSE p[e + 1]]

\* Without a certificate that repeats the one below it, every certificate above comes one lower.
LEMMA WithoutShifts ==
    ASSUME NEW n \in Nat, NEW p \in [0..n - 1 -> Index \ {0}], NEW d \in 0..n - 1,
           p[d] = On(p, d)
    PROVE  /\ d \in Nat \ {0} /\ d <= n - 1
           /\ Without(p, n, d) \in [0..(n - 1) - 1 -> Index \ {0}]
           /\ \A e \in 0..n - 2 : Without(p, n, d)[e] = IF e < d THEN p[e] ELSE p[e + 1]
           /\ \A e \in 0..n - 1 : e <= d => On(Without(p, n, d), e) = On(p, e)
           /\ \A e \in 0..n - 1 : e >= d => On(Without(p, n, d), e) = On(p, e + 1)
<1> DEFINE q == Without(p, n, d)
<1>1. d \in Nat \ {0} /\ d <= n - 1
  BY DEF On
<1>2. \A e \in 0..n - 2 : q[e] = IF e < d THEN p[e] ELSE p[e + 1]
  BY DEF Without
<1>3. q \in [0..(n - 1) - 1 -> Index \ {0}]
  <2>1. \A e \in 0..n - 2 : (IF e < d THEN p[e] ELSE p[e + 1]) \in Index \ {0}
    BY <1>1
  <2>2. 0..(n - 1) - 1 = 0..n - 2
    BY <1>1
  <2> QED  BY <2>1, <2>2 DEF Without
<1> HIDE DEF q
<1>4. \A e \in 0..n - 1 : e <= d => On(q, e) = On(p, e)
  BY <1>1, <1>2 DEF On
<1>5. \A e \in 0..n - 1 : e >= d => On(q, e) = On(p, e + 1)
  <2> TAKE e \in 0..n - 1
  <2> SUFFICES ASSUME e >= d PROVE On(q, e) = On(p, e + 1)
    OBVIOUS
  <2>1. CASE e = d
    BY <1>1, <1>2, <2>1 DEF On
  <2>2. CASE e > d
    <3>1. e - 1 \in 0..n - 2 /\ ~(e - 1 < d) /\ (e - 1) + 1 = e
      BY <1>1, <2>2
    <3> QED  BY <1>1, <1>2, <3>1 DEF On
  <2> QED  BY <2>1, <2>2, <1>1
<1> QED  BY <1>1, <1>2, <1>3, <1>4, <1>5 DEF q

\* ... and what is below it counts as much as before.
LEMMA WithoutCounts ==
    ASSUME NEW n \in Nat, NEW p \in [0..n - 1 -> Index \ {0}], NEW d \in 0..n - 1,
           p[d] = On(p, d), self_issued(cert(p[d])), NEW e \in 0..n - 1
    PROVE  /\ e <= d => Between(Without(p, n, d), e) = Between(p, e)
           /\ e >= d => Between(Without(p, n, d), e) = Between(p, e + 1)
<1> DEFINE q == Without(p, n, d)
<1>1. /\ d \in Nat \ {0} /\ d <= n - 1 /\ e \in Nat
      /\ \A k \in 0..n - 2 : q[k] = IF k < d THEN p[k] ELSE p[k + 1]
  <2>1. e \in Nat
    OBVIOUS
  <2>2. d \in Nat \ {0} /\ d <= n - 1
    <3> HIDE DEF q
    <3> QED  BY WithoutShifts
  <2>3. \A k \in 0..n - 2 : q[k] = IF k < d THEN p[k] ELSE p[k + 1]
    BY WithoutShifts
  <2> QED  BY <2>1, <2>2, <2>3
<1> HIDE DEF q
<1>2. e <= d => Between(q, e) = Between(p, e)
  <2> SUFFICES ASSUME e <= d PROVE Between(q, e) = Between(p, e)
    OBVIOUS
  <2>1. \A k \in 0..e - 1 : q[k] = p[k]
    BY <1>1
  <2> QED  BY <2>1, <1>1, BetweenSame
<1>3. e >= d => Between(q, e) = Between(p, e + 1)
  <2> SUFFICES ASSUME e >= d PROVE Between(q, e) = Between(p, e + 1)
    OBVIOUS
  <2> DEFINE S == Counted(q, e)
             T == Counted(p, e + 1)
             f == [k \in S |-> IF k < d THEN k ELSE k + 1]
  <2>1. \A k \in S : k \in 0..e - 1 /\ k \in 0..n - 2 /\ ~self_issued(cert(q[k]))
    BY <1>1 DEF Counted
  <2>2. \A k : k \in T <=> k \in 0..e /\ ~self_issued(cert(p[k]))
    BY <1>1 DEF Counted
  <2>3. \A k : k \in 0..e - 1 /\ ~self_issued(cert(q[k])) => k \in S
    BY DEF Counted
  <2>4. IsFiniteSet(S)
    BY <1>1, CountedFinite
  <2> HIDE DEF S, T
  <2>5. f \in [S -> T]
    <3>1. ASSUME NEW k \in S, k < d PROVE k \in T
      <4>1. k \in 0..e /\ q[k] = p[k]
        BY <1>1, <2>1, <3>1
      <4> QED  BY <4>1, <2>1, <2>2
    <3>2. ASSUME NEW k \in S, ~(k < d) PROVE k + 1 \in T
      <4>1. k + 1 \in 0..e /\ q[k] = p[k + 1]
        BY <1>1, <2>1, <3>2
      <4> QED  BY <4>1, <2>1, <2>2
    <3> QED  BY <3>1, <3>2
  <2>6. \A a, b \in S : f[a] = f[b] => a = b
    BY <1>1, <2>1
  <2>7. \A t \in T : \E s \in S : f[s] = t
    <3> TAKE t \in T
    <3>1. t \in 0..e /\ ~self_issued(cert(p[t])) /\ t # d
      BY <2>2
    <3>2. CASE t < d
      <4>1. t \in 0..n - 2 /\ t \in 0..e - 1 /\ q[t] = p[t]
        BY <1>1, <3>1, <3>2
      <4>2. t \in S
        BY <4>1, <3>1, <2>3
      <4> QED  BY <4>2, <3>2
    <3>3. CASE t > d
      <4>1. t - 1 \in 0..n - 2 /\ t - 1 \in 0..e - 1 /\ ~(t - 1 < d) /\ (t - 1) + 1 = t
        BY <1>1, <3>1, <3>3
      <4>2. q[t - 1] = p[t]
        BY <1>1, <4>1
      <4>3. t - 1 \in S
        BY <4>1, <4>2, <3>1, <2>3
      <4> QED  BY <4>1, <4>3
    <3> QED  BY <1>1, <3>1, <3>2, <3>3
  <2>8. f \in Bijection(S, T)
    <3> HIDE DEF f
    <3> QED  BY <2>5, <2>6, <2>7 DEF Bijection, Injection, Surjection, IsInjective
  <2>9. Cardinality(T) = Cardinality(S)
    <3>1. ExistsBijection(S, T)
      BY <2>8 DEF ExistsBijection
    <3> QED  BY <3>1, <2>4, FS_Bijection
  <2> QED  BY <2>9 DEF S, T, Between, Counted
<1> QED  BY <1>2, <1>3 DEF q

\* A trusted path that repeats a certificate is trusted without the repetition.
LEMMA WithoutTrusted ==
    ASSUME NEW n \in Nat, NEW p \in [0..n - 1 -> Index \ {0}], NEW d \in 0..n - 1,
           p[d] = On(p, d), NEW a, Trusted(p, n, a)
    PROVE  Trusted(Without(p, n, d), n - 1, a)
<1> DEFINE q == Without(p, n, d)
<1>1. /\ d \in Nat \ {0} /\ d <= n - 1 /\ n - 1 \in Nat
      /\ q \in [0..(n - 1) - 1 -> Index \ {0}]
      /\ \A e \in 0..n - 2 : q[e] = IF e < d THEN p[e] ELSE p[e + 1]
      /\ \A e \in 0..n - 1 : e <= d => On(q, e) = On(p, e)
      /\ \A e \in 0..n - 1 : e >= d => On(q, e) = On(p, e + 1)
  BY WithoutShifts
<1>2. self_issued(cert(p[d]))
  BY DEF Trusted, Path, Link, self_issued
<1>3. \A e \in 0..n - 1 : /\ e <= d => Between(q, e) = Between(p, e)
                          /\ e >= d => Between(q, e) = Between(p, e + 1)
  BY <1>2, WithoutCounts
<1> HIDE DEF q
<1>4. Path(q, n - 1)
  <2>1. ASSUME NEW e \in 0..(n - 1) - 1, e < d PROVE Link(q, e)
    <3>1. /\ e \in 0..n - 1 /\ Link(p, e)
          /\ q[e] = p[e] /\ On(q, e) = On(p, e) /\ Between(q, e) = Between(p, e)
      BY <1>1, <1>3, <2>1 DEF Trusted, Path
    <3> QED  BY <3>1 DEF Link
  <2>2. ASSUME NEW e \in 0..(n - 1) - 1, e >= d PROVE Link(q, e)
    <3>1. /\ e + 1 \in 0..n - 1 /\ Link(p, e + 1)
          /\ q[e] = p[e + 1] /\ On(q, e) = On(p, e + 1) /\ Between(q, e) = Between(p, e + 1)
      BY <1>1, <1>3, <2>2 DEF Trusted, Path
    <3> QED  BY <3>1 DEF Link
  <2>3. \A e \in 0..(n - 1) - 1 : Link(q, e)
    BY <1>1, <2>1, <2>2
  <2> QED  BY <2>3 DEF Path, Trusted
<1>5. Anchored(q, n - 1, a)
  <2>1. On(q, n - 1) = On(p, n) /\ Between(q, n - 1) = Between(p, n)
    BY <1>1, <1>3
  <2> QED  BY <2>1 DEF Trusted, Anchored
<1>6. PinSatisfied(q, n - 1, a)
  <2> SUFFICES ASSUME NEW m \in 0..n, pinned(cert(On(p, m)))
               PROVE  \E e \in 0..n - 1 : pinned(cert(On(q, e)))
    BY DEF Trusted, PinSatisfied
  <2>1. CASE m <= d
    <3>1. m \in 0..n - 1 /\ On(q, m) = On(p, m)
      BY <1>1, <2>1
    <3> QED  BY <3>1
  <2>2. CASE m > d
    <3>1. m - 1 \in 0..n - 1 /\ m - 1 >= d /\ (m - 1) + 1 = m
      BY <1>1, <2>2
    <3>2. On(q, m - 1) = On(p, m)
      BY <1>1, <3>1
    <3> QED  BY <3>1, <3>2
  <2> QED  BY <1>1, <2>1, <2>2
<1> QED  BY <1>4, <1>5, <1>6 DEF Trusted, q

\* If there is a trusted path, there is one that repeats nothing: a shortest one.
LEMMA StraightSuffices ==
    ASSUME NEW n \in Depths, NEW p \in [0..n - 1 -> Index \ {0}], NEW a, Trusted(p, n, a)
    PROVE  \E m \in Depths : \E q \in [0..m - 1 -> Index \ {0}] :
               Straight(q, m) /\ Trusted(q, m, a)
<1> DEFINE Lengths == {m \in Depths : \E q \in [0..m - 1 -> Index \ {0}] : Trusted(q, m, a)}
<1>1. Lengths \subseteq Nat /\ n \in Lengths
  BY DEF Depths
<1>2. PICK m \in Lengths : \A l \in Lengths : m <= l
  <2> HIDE DEF Lengths
  <2> QED  BY <1>1, LeastNatural
<1>3. PICK q \in [0..m - 1 -> Index \ {0}] : Trusted(q, m, a)
  BY <1>2
<1>4. m \in Depths /\ m \in Nat
  BY <1>1, <1>2
<1>5. ASSUME NEW d \in 0..m - 1, q[d] = On(q, d) PROVE FALSE
  <2>1. Without(q, m, d) \in [0..(m - 1) - 1 -> Index \ {0}] /\ m >= 1
    BY <1>4, <1>5, WithoutShifts
  <2>2. Trusted(Without(q, m, d), m - 1, a)
    BY <1>3, <1>4, <1>5, WithoutTrusted
  <2>3. m - 1 \in Depths
    BY <1>4, <2>1, ChainAssumption DEF Depths
  <2>4. m - 1 \in Lengths
    BY <2>1, <2>2, <2>3
  <2> QED  BY <1>2, <1>4, <2>4
<1> QED  BY <1>3, <1>4, <1>5 DEF Straight

\* Where the search follows a trusted path, its next certificate passes every test of the peers'
\* loop and, at its top, its anchor passes every test of the anchors' loop.
LEMMA FollowedFits ==
    ASSUME IInv, at # "done", NEW n \in Depths, NEW p \in [0..n - 1 -> Index \ {0}],
           NEW k \in Offering(p, n), Accepted(p, n, k), Agrees(p, depth), n >= depth
    PROVE  /\ n > depth => peer_fits(p[depth]) /\ signed_by(cert(cur), cert(p[depth]))
           /\ n = depth =>
                /\ k \in Offers(cert(cur).issuer)
                /\ anchor_fits(Offered(cert(cur).issuer, k))
                /\ signed_by(cert(cur), Offered(cert(cur).issuer, k))
                /\ pin_mask # {} \/ pinned(Offered(cert(cur).issuer, k))
<1>1. TypeOK /\ SearchInv /\ depth \in Nat /\ n \in Nat
  BY DEF IInv, TypeOK, Depths
<1>2. On(p, depth) = cur
  BY <1>1 DEF On, cur, Agrees
<1>3. Between(p, depth) = below
  BY <1>1, BetweenSame DEF SearchInv, Agrees
<1>4. ASSUME n > depth PROVE peer_fits(p[depth]) /\ signed_by(cert(cur), cert(p[depth]))
  <2>1. depth \in 0..n - 1
    BY <1>1, <1>4
  <2>2. Link(p, depth) /\ p[depth] # cur
    BY <1>2, <2>1 DEF Accepted, Trusted, Path, Straight
  <2> QED  BY <1>2, <1>3, <2>2 DEF Link, peer_fits
<1>5. ASSUME n = depth
      PROVE  /\ k \in Offers(cert(cur).issuer)
             /\ anchor_fits(Offered(cert(cur).issuer, k))
             /\ signed_by(cert(cur), Offered(cert(cur).issuer, k))
             /\ pin_mask # {} \/ pinned(Offered(cert(cur).issuer, k))
  <2> DEFINE a == Offered(cert(cur).issuer, k)
  <2>1. Trusted(p, n, a) /\ k \in Offers(cert(cur).issuer)
    BY <1>2, <1>5 DEF Accepted, Offering
  <2> HIDE DEF a
  <2>2. anchor_fits(a) /\ signed_by(cert(cur), a)
    BY <1>2, <1>3, <1>5, <2>1 DEF Trusted, Anchored, anchor_fits
  <2>3. ASSUME ~pinned(a) PROVE pin_mask # {}
    <3>1. CASE ~input.pinning
      <4>1. END_ENTITY \in pin_start
        BY <3>1 DEF pin_start
      <4> QED  BY <1>1, <4>1 DEF SearchInv
    <3>2. CASE input.pinning
      <4>1. PICK d \in 0..n : pinned(cert(On(p, d)))
        BY <2>1, <2>3, <3>2 DEF Trusted, PinSatisfied
      <4>2. CASE d = 0
        <5>1. END_ENTITY \in pin_start
          BY <4>1, <4>2 DEF pin_start, On
        <5> QED  BY <1>1, <5>1 DEF SearchInv
      <4>3. CASE d > 0
        <5>1. d - 1 \in 0..depth - 1 /\ pinned(cert(chosen[d - 1]))
          BY <1>1, <1>5, <4>1, <4>3 DEF On, Agrees
        <5>2. d - 1 \in pin_mask
          BY <1>1, <3>2, <5>1 DEF SearchInv
        <5> QED  BY <5>2
      <4> QED  BY <1>1, <4>1, <4>2, <4>3
    <3> QED  BY <3>1, <3>2
  <2> QED  BY <2>1, <2>2, <2>3 DEF a
<1> QED  BY <1>4, <1>5

\* The call's arguments decide what is trusted.
LEMMA AcceptedSame ==
    ASSUME input' = input
    PROVE  /\ Index' = Index
           /\ \A n, p : Offering(p, n)' = Offering(p, n)
           /\ \A n, p, k : Accepted(p, n, k)' <=> Accepted(p, n, k)
           /\ \A n, p, k : Trusted(p, n, Offered(cert(On(p, n)).issuer, k))'
                            <=> Trusted(p, n, Offered(cert(On(p, n)).issuer, k))
<1>1. /\ Index' = Index /\ n_certs' = n_certs /\ \A k : cert(k)' = cert(k)
  BY DEF Index, n_certs, cert
<1>2. \A n, p : Offering(p, n)' = Offering(p, n)
  BY DEF Offering, Offers, conn_anchor, cert, On
<1>3. \A n, p, k : Trusted(p, n, Offered(cert(On(p, n)).issuer, k))'
                   <=> Trusted(p, n, Offered(cert(On(p, n)).issuer, k))
  BY DEF Trusted, Path, Link, Anchored, PinSatisfied, On, Between, cert, time_ok,
         tfloor, Index, n_certs, pinned, Offers, Offered, conn_anchor
<1>4. \A n, p, k : Accepted(p, n, k)' <=> Accepted(p, n, k)
  <2> TAKE n, p, k
  <2>1. Straight(p, n)' <=> Straight(p, n)
    BY DEF Straight, On
  <2> QED  BY <1>3, <2>1 DEF Accepted
<1> QED  BY <1>1, <1>2, <1>3, <1>4

\* A step that goes on passes over no trusted path.
LEMMA StepAhead ==
    ASSUME IInv, at = "anchors" => resume = 1, Next, at' # "done", lookups' <= MAX_LOOKUPS,
           NEW n \in Depths, NEW p \in [0..n - 1 -> Index \ {0}],
           NEW k \in Offering(p, n), Accepted(p, n, k), Ahead(p, n, k)
    PROVE  Ahead(p, n, k)'
<1>1. /\ TypeOK /\ SearchInv /\ depth \in 0..MAX_CHAIN /\ depth \in Nat /\ i \in Nat
      /\ n \in Nat /\ n < MAX_CHAIN /\ MAX_CHAIN \in Nat /\ resume \in Nat \ {0} /\ k \in Nat
      /\ chosen \in [Depths -> Index] /\ Depths = 0..MAX_CHAIN - 1
      /\ \A d \in 0..n - 1 : p[d] \in Nat \ {0} /\ p[d] < n_certs
  <2>1. at # "done" /\ MAX_CHAIN \in Nat
    BY ChainAssumption DEF Next, Arrive, NoMoreAnchors, TryAnchor, TryPeer, DeadEnd, Scanning
  <2>2. TypeOK /\ SearchInv
    BY <2>1 DEF IInv
  <2>3. \A d \in 0..n - 1 : p[d] \in Nat \ {0} /\ p[d] < n_certs
    <3>1. n_certs \in Nat
      BY <2>2, CertType
    <3> QED  BY <3>1 DEF Index
  <2>4. n \in Nat /\ n < MAX_CHAIN
    BY <2>1 DEF Depths
  <2>5. k \in Nat
    BY ChainAssumption DEF Offering, Offers
  <2>6. depth \in Nat
    BY <2>1, <2>2 DEF TypeOK
  <2> QED  BY <2>1, <2>2, <2>3, <2>4, <2>5, <2>6 DEF TypeOK, Depths
<1>2. CASE \E e \in 0..depth - 1 : e < n /\ Agrees(p, e) /\ p[e] > chosen[e]
  <2>1. PICK e \in 0..depth - 1 : e < n /\ Agrees(p, e) /\ p[e] > chosen[e]
    BY <1>2
  <2>2. CASE UNCHANGED <<chosen, depth>>
    BY <2>1, <2>2 DEF Ahead, Agrees
  <2>3. CASE at = "peers" /\ Descend(i)
    <3>1. /\ depth' = depth + 1 /\ e \in Nat /\ e # depth
          /\ chosen' = [chosen EXCEPT ![depth] = i]
      BY <1>1, <2>1, <2>3 DEF Descend
    <3>2. \A d \in 0..e : chosen'[d] = chosen[d]
      BY <1>1, <2>1, <3>1
    <3>3. e \in 0..depth' - 1 /\ p[e] > chosen'[e] /\ \A d \in 0..e - 1 : p[d] = chosen'[d]
      BY <1>1, <2>1, <3>1, <3>2 DEF Agrees
    <3> QED  BY <2>1, <3>3 DEF Ahead, Agrees
  <2>4. CASE DeadEnd /\ depth # 0
    <3>1. /\ depth' = depth - 1 /\ chosen' = chosen /\ at' = "arrive"
          /\ resume' = chosen[depth - 1] + 1
      BY <2>4 DEF DeadEnd
    <3>2. CASE e < depth - 1
      <4>1. e \in 0..depth' - 1
        BY <1>1, <2>1, <3>1, <3>2
      <4> QED  BY <2>1, <3>1, <4>1 DEF Ahead, Agrees
    <3>3. CASE e = depth - 1
      <4>1. chosen[e] \in Nat /\ p[e] \in Nat
        BY <1>1, <2>1, CertType
      <4>2. n > e /\ n >= e /\ p[e] >= chosen[e] + 1
        BY <1>1, <2>1, <4>1
      <4> QED  BY <2>1, <3>1, <3>3, <4>2 DEF Ahead, Agrees
    <3> QED  BY <1>1, <2>1, <3>2, <3>3
  <2> QED  BY <2>2, <2>3, <2>4 DEF Next, Arrive, NoMoreAnchors, TryAnchor, TryPeer, DeadEnd,
                                   return, Scanning
<1>3. CASE /\ Agrees(p, depth) /\ n >= depth
           /\ at = "arrive" => (resume = 1 \/ (n > depth /\ p[depth] >= resume))
           /\ at = "anchors" => (n > depth \/ k >= i)
           /\ at = "peers" => (n > depth /\ p[depth] >= i)
  <2>1. CASE Arrive
    <3>1. /\ UNCHANGED <<chosen, depth, resume>> /\ at = "arrive"
          /\ \/ at' = "anchors" /\ i' = 0
             \/ at' = "peers" /\ i' = resume /\ (resume # 1 \/ ~(depth < MAX_CHAIN))
      BY <2>1 DEF Arrive
    <3>2. resume # 1 \/ ~(depth < MAX_CHAIN) => n > depth /\ p[depth] >= resume
      BY <1>1, <1>3, <3>1
    <3> QED  BY <1>1, <1>3, <3>1, <3>2 DEF Ahead, Agrees
  <2>2. CASE NoMoreAnchors
    <3>1. /\ UNCHANGED <<chosen, depth>> /\ at = "anchors" /\ at' = "peers" /\ i' = 1
          /\ i \notin Offers(cert(cur).issuer)
      BY <2>2 DEF NoMoreAnchors
    <3>2. n # depth
      <4> SUFFICES ASSUME n = depth PROVE FALSE
        OBVIOUS
      <4>1. k >= i /\ k \in Offers(cert(cur).issuer)
        <5>1. k >= i /\ at # "done"
          BY <1>1, <1>3, <3>1
        <5> QED  BY <1>3, <5>1, FollowedFits
      <4>2. i \in 0..MAX_ANCHORS - 1 /\ k \in 0..MAX_ANCHORS - 1
            /\ k < Len(conn_anchor(cert(cur).issuer))
        BY <1>1, <4>1, ChainAssumption DEF Offers
      <4>3. i < Len(conn_anchor(cert(cur).issuer))
        BY <1>1, <4>1, <4>2
      <4> QED  BY <3>1, <4>2, <4>3 DEF Offers
    <3>3. n > depth /\ p[depth] >= 1
      BY <1>1, <1>3, <3>2
    <3> QED  BY <1>3, <3>1, <3>3 DEF Ahead, Agrees
  <2>3. CASE TryAnchor
    <3>1. /\ UNCHANGED <<chosen, depth>> /\ at = "anchors" /\ at' = "anchors" /\ i' = i + 1
          /\ ~ /\ anchor_fits(Offered(cert(cur).issuer, i))
               /\ signed_by(cert(cur), Offered(cert(cur).issuer, i))
               /\ pin_mask # {} \/ pinned(Offered(cert(cur).issuer, i))
      BY <2>3 DEF TryAnchor, return
    <3>2. n = depth => k # i
      BY <1>1, <1>3, <3>1, FollowedFits
    <3>3. n > depth \/ k >= i + 1
      BY <1>1, <1>3, <3>1, <3>2
    <3> QED  BY <1>3, <3>1, <3>3 DEF Ahead, Agrees
  <2>4. CASE TryPeer
    <3>1. at = "peers" /\ n > depth /\ p[depth] >= i /\ depth \in Depths
      BY <1>1, <1>3, <2>4 DEF TryPeer, Scanning
    <3>2. peer_fits(p[depth]) /\ signed_by(cert(cur), cert(p[depth]))
      BY <1>1, <1>3, <3>1, FollowedFits
    <3>3. CASE Descend(i)
      <4>1. /\ depth' = depth + 1 /\ at' = "arrive" /\ resume' = 1
            /\ chosen' = [chosen EXCEPT ![depth] = i]
        BY <3>3 DEF Descend
      <4>2. chosen'[depth] = i /\ \A d \in 0..depth - 1 : chosen'[d] = chosen[d]
        BY <1>1, <3>1, <4>1
      <4>3. CASE p[depth] = i
        <5>1. \A d \in 0..(depth + 1) - 1 : d \in 0..depth - 1 \/ d = depth
          BY <1>1
        <5>2. \A d \in 0..depth' - 1 : p[d] = chosen'[d]
          BY <1>3, <4>1, <4>2, <4>3, <5>1 DEF Agrees
        <5>3. n >= depth'
          BY <1>1, <3>1, <4>1
        <5> QED  BY <4>1, <5>2, <5>3 DEF Ahead, Agrees
      <4>4. CASE p[depth] > i
        <5>1. depth \in 0..depth' - 1 /\ p[depth] > chosen'[depth]
          BY <1>1, <4>1, <4>2, <4>4
        <5>2. \A d \in 0..depth - 1 : p[d] = chosen'[d]
          BY <1>3, <4>2 DEF Agrees
        <5> QED  BY <3>1, <5>1, <5>2 DEF Ahead, Agrees
      <4> QED  BY <1>1, <3>1, <4>3, <4>4
    <3>4. CASE /\ UNCHANGED <<chosen, depth>> /\ at' = "peers" /\ i' = i + 1
               /\ ~(peer_fits(i) /\ signed_by(cert(cur), cert(i)))
      <4>1. p[depth] # i /\ p[depth] \in Nat
        BY <1>1, <3>1, <3>2, <3>4
      <4>2. p[depth] >= i + 1
        BY <1>1, <3>1, <4>1
      <4> QED  BY <1>3, <3>1, <3>4, <4>2 DEF Ahead, Agrees
    <3> QED  BY <2>4, <3>1, <3>3, <3>4 DEF TryPeer, return
  <2>5. CASE DeadEnd
    <3>1. at = "peers" /\ ~Scanning
      BY <2>5 DEF DeadEnd
    <3>2. n > depth /\ p[depth] >= i /\ p[depth] < n_certs /\ depth < MAX_CHAIN /\ ~(i < n_certs)
      BY <1>1, <1>3, <3>1 DEF Scanning
    <3>3. n_certs \in Nat /\ p[depth] \in Nat
      BY <1>1, <3>2, CertType
    <3> QED  BY <1>1, <3>2, <3>3
  <2> QED  BY <2>1, <2>2, <2>3, <2>4, <2>5 DEF Next
<1> QED  BY <1>2, <1>3 DEF Ahead

\* A trusted path ahead of a search that has come back to the end entity and has no peer left to
\* try: there is none.
LEMMA NothingAhead ==
    ASSUME IInv, at = "peers", ~Scanning, depth = 0,
           NEW n \in Depths, NEW p \in [0..n - 1 -> Index \ {0}], NEW k \in Offering(p, n)
    PROVE  ~Ahead(p, n, k)
<1> SUFFICES ASSUME Ahead(p, n, k) PROVE FALSE
  OBVIOUS
<1>1. n \in Nat /\ MAX_CHAIN \in 1..31 /\ i \in Nat /\ n_certs \in Nat
  BY CertType, ChainAssumption DEF Depths, IInv, TypeOK
<1>2. n > 0 /\ p[0] >= i
  BY <1>1 DEF Ahead
<1>3. p[0] \in Nat /\ p[0] < n_certs
  BY <1>1, <1>2 DEF Index
<1>4. ~(i < n_certs)
  BY <1>1 DEF Scanning
<1> QED  BY <1>1, <1>2, <1>3, <1>4

\* Where no trusted path that repeats nothing is left, none is.
LEMMA NoneTrusted ==
    ASSUME \A n \in Depths : \A p \in [0..n - 1 -> Index \ {0}] :
               \A k \in Offering(p, n) : ~Accepted(p, n, k)
    PROVE  \A n \in Depths : \A p \in [0..n - 1 -> Index \ {0}] :
               \A k \in Offering(p, n) : ~Trusted(p, n, Offered(cert(On(p, n)).issuer, k))
<1> SUFFICES ASSUME NEW n \in Depths, NEW p \in [0..n - 1 -> Index \ {0}], NEW a,
                    Trusted(p, n, a)
             PROVE  FALSE
  OBVIOUS
<1>1. PICK m \in Depths : \E q \in [0..m - 1 -> Index \ {0}] : Straight(q, m) /\ Trusted(q, m, a)
  BY StraightSuffices
<1>2. PICK q \in [0..m - 1 -> Index \ {0}] : Straight(q, m) /\ Trusted(q, m, a)
  BY <1>1
<1>3. PICK k \in Offering(q, m) : a = Offered(cert(On(q, m)).issuer, k)
  BY <1>2 DEF Trusted, Anchored, Offering
<1> QED  BY <1>2, <1>3 DEF Accepted

\* Nothing is behind the search when it starts.
LEMMA InitHope == Init => HopeInv
<1> SUFFICES ASSUME NEW in \in Inputs, Start(in) PROVE HopeInv
  BY DEF Init
<1>1. at # "anchors" /\ depth = 0 /\ (at # "done" => at = "arrive" /\ resume = 1)
      /\ (rc = "BRISK_E_AUTH" => ~time_ok(cert(0)))
  BY DEF Start
<1>2. at # "done" => AllAhead
  <2> SUFFICES ASSUME at # "done", NEW n \in Depths, NEW p PROVE n >= depth /\ Agrees(p, depth)
    BY <1>1 DEF AllAhead, Ahead
  <2>1. n \in Nat
    BY DEF Depths
  <2> QED  BY <1>1, <2>1 DEF Agrees
<1>3. AuthIsHopeless
  BY <1>1 DEF AuthIsHopeless, Path
<1> QED  BY <1>1, <1>2, <1>3 DEF HopeInv

\* Every step keeps it.
LEMMA NextHope == IInv /\ HopeInv /\ [Next]_vars => HopeInv'
<1> SUFFICES ASSUME IInv, HopeInv, [Next]_vars PROVE HopeInv'
  OBVIOUS
<1>1. input' = input /\ (lookups' <= MAX_LOOKUPS => lookups <= MAX_LOOKUPS)
  <2>1. lookups \in Nat /\ MAX_LOOKUPS \in Nat
    BY ChainAssumption DEF IInv, TypeOK
  <2> QED  BY <2>1 DEF Next, Arrive, NoMoreAnchors, TryAnchor, TryPeer, DeadEnd, vars
<1>2. CASE UNCHANGED vars
  <2>1. AllAhead => AllAhead'
    <3>1. Index' = Index /\ (\A n, p : Offering(p, n)' = Offering(p, n))
          /\ \A n, p, k : Accepted(p, n, k)' <=> Accepted(p, n, k)
      BY <1>1, AcceptedSame
    <3>2. \A n, p, k : Ahead(p, n, k)' <=> Ahead(p, n, k)
      BY <1>2 DEF vars, Ahead, Agrees
    <3> QED  BY <3>1, <3>2 DEF AllAhead
  <2>2. AuthIsHopeless'
    <3>1. /\ Index' = Index /\ \A n, p : Offering(p, n)' = Offering(p, n)
          /\ \A n, p, k : Trusted(p, n, Offered(cert(On(p, n)).issuer, k))'
                           <=> Trusted(p, n, Offered(cert(On(p, n)).issuer, k))
      BY <1>1, AcceptedSame
    <3>2. AuthIsHopeless /\ UNCHANGED <<rc, work, lookups>>
      BY <1>2 DEF HopeInv, vars
    <3> SUFFICES ASSUME rc' = "BRISK_E_AUTH", work' <= MAX_VERIFY, lookups' <= MAX_LOOKUPS
                 PROVE  \A n \in Depths : \A p \in [0..n - 1 -> Index \ {0}] :
                           \A k \in Offering(p, n) :
                               ~Trusted(p, n, Offered(cert(On(p, n)).issuer, k))
      BY <3>1 DEF AuthIsHopeless, Offering
    <3>3. \A n, p, k : Trusted(p, n, Offered(cert(On(p, n)).issuer, k)) => Path(p, n)
      BY DEF Trusted
    <3> QED  BY <3>2, <3>3 DEF AuthIsHopeless, Offering
  <2> QED  BY <1>2, <2>1, <2>2 DEF vars, HopeInv
<1>3. CASE Next
  <2>1. at # "done" /\ rc = "none"
    BY <1>3 DEF IInv, Next, Arrive, NoMoreAnchors, TryAnchor, TryPeer, DeadEnd, Scanning
  <2>2. at' = "anchors" => resume' = 1
    BY <1>3 DEF HopeInv, Next, Arrive, NoMoreAnchors, TryAnchor, TryPeer, DeadEnd, Descend, return
  <2>3. ASSUME at' # "done", lookups' <= MAX_LOOKUPS PROVE AllAhead'
    <3>1. AllAhead /\ (at = "anchors" => resume = 1)
      BY <1>1, <2>1, <2>3 DEF HopeInv
    <3>2. \A n \in Depths : \A p \in [0..n - 1 -> Index \ {0}] : \A k \in Offering(p, n) :
              Accepted(p, n, k) => Ahead(p, n, k)'
      BY <1>3, <2>3, <3>1, StepAhead DEF AllAhead
    <3> QED  BY <1>1, <3>2, AcceptedSame DEF AllAhead
  <2>4. AuthIsHopeless'
    <3> SUFFICES ASSUME rc' = "BRISK_E_AUTH", work' <= MAX_VERIFY, lookups' <= MAX_LOOKUPS
                 PROVE  \A n \in Depths : \A p \in [0..n - 1 -> Index \ {0}] :
                           \A k \in Offering(p, n) :
                               ~Trusted(p, n, Offered(cert(On(p, n)).issuer, k))
      <4>1. /\ Index' = Index /\ \A n, p : Offering(p, n)' = Offering(p, n)
            /\ \A n, p, k : Trusted(p, n, Offered(cert(On(p, n)).issuer, k))'
                             <=> Trusted(p, n, Offered(cert(On(p, n)).issuer, k))
        BY <1>1, AcceptedSame
      <4> QED  BY <4>1 DEF AuthIsHopeless, Offering
    <3>1. DeadEnd /\ depth = 0
      <4>1. work' \in Nat /\ MAX_VERIFY \in Nat
        BY <1>3, NextIInv, ChainAssumption DEF IInv, TypeOK
      <4> QED  BY <1>3, <2>1, <4>1 DEF Next, Arrive, NoMoreAnchors, TryAnchor, TryPeer, DeadEnd,
                                       Descend, return
    <3>2. AllAhead /\ at = "peers" /\ ~Scanning
      BY <1>1, <2>1, <3>1 DEF HopeInv, DeadEnd
    <3>3. \A n \in Depths : \A p \in [0..n - 1 -> Index \ {0}] :
              \A k \in Offering(p, n) : ~Accepted(p, n, k)
      BY <3>1, <3>2, NothingAhead DEF AllAhead
    <3> QED  BY <3>3, NoneTrusted
  <2> QED  BY <2>2, <2>3, <2>4 DEF HopeInv
<1> QED  BY <1>2, <1>3

-----------------------------------------------------------------------------
(* Theorems *)

\* The path stays inside its array, below and the budgets inside theirs.
THEOREM ChainTypeOK == Spec => []TypeOK
<1>1. IInv => TypeOK
  BY DEF IInv
<1> QED  BY <1>1, SpecIInv, PTL

\* No order and no number of certificates, no trust store and no dead end on the way makes
\* brisk__x509_chain_verify accept what is not a trusted path.
THEOREM AcceptedIsTrusted == Spec => []OkIsTrusted
<1>1. IInv => OkIsTrusted
  BY DEF IInv
<1> QED  BY <1>1, SpecIInv, PTL

\* No wrong first choice, no order of the certificates and no circle among them makes
\* brisk__x509_chain_verify refuse a server for which a trusted path exists, unless a budget
\* was spent.
THEOREM RefusedIsHopeless == Spec => []AuthIsHopeless
<1>1. IInv /\ HopeInv => AuthIsHopeless
  BY DEF HopeInv
<1> QED  BY <1>1, InitHope, NextHope, SpecIInv, PTL DEF Spec
=============================================================================
