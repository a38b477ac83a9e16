--------------------------- MODULE PackageProofs ---------------------------
(***************************************************************************)
(* What is published can be read and what is packed can be published, for  *)
(* any folders, zips of other tools and limits.                            *)
(*                                                                         *)
(* Sizes and entries are taken one after another by recursive functions;   *)
(* what holds after each of them is proved by induction over a set of      *)
(* numbers (Induction).  Two theorems about the zip itself follow, for any *)
(* zip (PublishedReads) and for one that pack wrote (PackedReads); the     *)
(* invariant of the commands is at the end.                                *)
(***************************************************************************)
EXTENDS CoursePackage, FiniteSetTheorems, WellFoundedInduction, TLAPS

-----------------------------------------------------------------------------
(* Files, their order and their sizes.                                     *)

(* A set of numbers that is not empty has a least one. *)
LEMMA LeastOf ==
    ASSUME NEW S, S \subseteq Nat, S # {}
    PROVE  \E m \in S : \A i \in S : m <= i
<1>1. PICK m \in S : \A i \in S : ~ (<<i, m>> \in OpToRel(<, Nat))
  BY NatLessThanWellFounded, WFMin
<1>2. \A i \in S : i \in Nat /\ m \in Nat OBVIOUS
<1>3. \A i \in S : ~(i < m) BY <1>1, <1>2 DEF OpToRel
<1> QED BY <1>2, <1>3

(* Induction: a set that has 0 and, with a number, the next one, has all. *)
LEMMA Induction ==
    ASSUME NEW S, S \subseteq Nat, 0 \in S, \A n \in S : n + 1 \in S
    PROVE  S = Nat
<1> DEFINE missing == Nat \ S
<1>1. SUFFICES ASSUME missing # {} PROVE FALSE OBVIOUS
<1>2. PICK m \in missing : \A i \in missing : m <= i
  <2> HIDE DEF missing
  <2>1. missing \subseteq Nat BY DEF missing
  <2> QED BY <1>1, <2>1, LeastOf
<1>3. m \in Nat /\ m # 0 OBVIOUS
<1>4. m - 1 \in Nat /\ ~(m <= m - 1) BY <1>3
<1>5. m - 1 \in S BY <1>2, <1>4
<1>6. (m - 1) + 1 = m BY <1>3
<1> QED BY <1>3, <1>5, <1>6

LEMMA PutAt ==
    ASSUME NEW f, NEW x, NEW y
    PROVE  /\ DOMAIN Put(f, x, y) = DOMAIN f \cup {x}
           /\ Put(f, x, y)[x] = y
           /\ \A z \in DOMAIN f : z # x => Put(f, x, y)[z] = f[z]
           /\ Put(f, x, y) = [z \in DOMAIN f \cup {x} |-> Put(f, x, y)[z]]
  BY DEF Put

(* The order of a finite set of files. *)
LEMMA OrderOf ==
    ASSUME NEW files, IsFiniteSet(DOMAIN files)
    PROVE  LET n == Cardinality(DOMAIN files) IN
           /\ n \in Nat
           /\ Order(files) \in [1 .. n -> DOMAIN files]
           /\ \A i, j \in 1 .. n : Order(files)[i] = Order(files)[j] => i = j
           /\ \A p \in DOMAIN files : \E i \in 1 .. n : Order(files)[i] = p
<1> DEFINE n == Cardinality(DOMAIN files)
<1>1. n \in Nat /\ ExistsBijection(1 .. n, DOMAIN files) BY FS_CardinalityType
<1>2. Injection(1 .. n, DOMAIN files) # {} BY <1>1 DEF ExistsBijection, Bijection
<1>3. Order(files) \in Injection(1 .. n, DOMAIN files) BY <1>2 DEF Order
<1>4. IsFiniteSet(1 .. n) /\ Cardinality(1 .. n) = n
  <2>1. 1 \in Int /\ n \in Int BY <1>1
  <2>2. Cardinality(1 .. n) = IF 1 > n THEN 0 ELSE n - 1 + 1 BY <2>1, FS_Interval
  <2>3. IsFiniteSet(1 .. n) BY <2>1, FS_Interval
  <2> QED BY <1>1, <2>2, <2>3
<1>5. Order(files) \in Surjection(1 .. n, DOMAIN files)
  BY <1>3, <1>4, FS_Injection
<1>6. Order(files) \in [1 .. n -> DOMAIN files] BY <1>3 DEF Injection
<1>7. \A i, j \in 1 .. n : Order(files)[i] = Order(files)[j] => i = j
  BY <1>3, <1>6 DEF Injection, IsInjective
<1>8. \A p \in DOMAIN files : \E i \in 1 .. n : Order(files)[i] = p
  BY <1>5 DEF Surjection
<1> QED BY <1>1, <1>6, <1>7, <1>8

(* The sizes added up, one file after the other. *)
TotalTo(files, n, total) ==
    total = [k \in 0 .. n |-> IF k = 0 THEN 0
                              ELSE total[k - 1] + files[Order(files)[k]].size]

LEMMA TotalsExist ==
    ASSUME NEW files, NEW n \in Nat
    PROVE  \E total : TotalTo(files, n, total)
<1> DEFINE S == {m \in Nat : \E total : TotalTo(files, m, total)}
<1>1. 0 \in S
  <2> DEFINE first == [k \in 0 .. 0 |-> 0]
  <2>1. TotalTo(files, 0, first) BY DEF TotalTo
  <2> QED BY <2>1
<1>2. ASSUME NEW m \in S PROVE m + 1 \in S
  <2>1. PICK h : TotalTo(files, m, h) OBVIOUS
  <2> DEFINE g == [k \in 0 .. m + 1 |-> IF k = m + 1 THEN h[m] + files[Order(files)[k]].size
                                        ELSE h[k]]
  <2>2. m \in Nat OBVIOUS
  <2>3. \A k \in 0 .. m : g[k] = h[k] BY <2>2
  <2>4. \A k \in 0 .. m + 1 : k # 0 => k - 1 \in 0 .. m BY <2>2
  <2>5. \A k \in 0 .. m + 1 : g[k] = IF k = 0 THEN 0 ELSE g[k - 1] + files[Order(files)[k]].size
    <3> SUFFICES ASSUME NEW k \in 0 .. m + 1
                 PROVE  g[k] = IF k = 0 THEN 0 ELSE g[k - 1] + files[Order(files)[k]].size
      OBVIOUS
    <3>1. CASE k = m + 1
      <4>1. g[k - 1] = h[m] BY <2>2, <2>3, <3>1
      <4> QED BY <2>2, <3>1, <4>1
    <3>2. CASE k # m + 1
      <4>1. k \in 0 .. m /\ g[k] = h[k] BY <2>2, <3>2
      <4>2. k # 0 => g[k - 1] = h[k - 1] BY <2>3, <2>4
      <4>3. h[k] = IF k = 0 THEN 0 ELSE h[k - 1] + files[Order(files)[k]].size
        BY <2>1, <4>1 DEF TotalTo
      <4> QED BY <4>1, <4>2, <4>3
    <3> QED BY <3>1, <3>2
  <2>6. TotalTo(files, m + 1, g) BY <2>5 DEF TotalTo
  <2> QED BY <2>2, <2>6
<1>3. S \subseteq Nat OBVIOUS
<1>4. S = Nat
  <2> HIDE DEF S
  <2> QED BY <1>1, <1>2, <1>3, Induction
<1> QED BY <1>4

LEMMA TotalsStep ==
    ASSUME NEW files, IsFiniteSet(DOMAIN files)
    PROVE  TotalTo(files, Cardinality(DOMAIN files), Totals(files))
<1>1. Cardinality(DOMAIN files) \in Nat BY FS_CardinalityType
<1>2. Totals(files) = CHOOSE total : TotalTo(files, Cardinality(DOMAIN files), total)
  BY DEF Totals, TotalTo
<1> QED BY <1>1, <1>2, TotalsExist

(* The totals grow to the size of them all. *)
LEMMA TotalsGrow ==
    ASSUME NEW files, IsFiniteSet(DOMAIN files), \A p \in DOMAIN files : files[p].size \in Nat
    PROVE  LET n == Cardinality(DOMAIN files) IN
           /\ Size(files) \in Nat
           /\ Totals(files)[0] = 0
           /\ \A i \in 1 .. n : /\ Totals(files)[i] = Totals(files)[i - 1] + files[Order(files)[i]].size
                                /\ Totals(files)[i] \in Nat /\ Totals(files)[i - 1] \in Nat
                                /\ Totals(files)[i] <= Size(files)
<1> DEFINE n == Cardinality(DOMAIN files)
           T == Totals(files)
<1>1. /\ n \in Nat
      /\ \A i \in 1 .. n : files[Order(files)[i]].size \in Nat
  BY OrderOf
<1>2. /\ T[0] = 0
      /\ \A i \in 1 .. n : T[i] = T[i - 1] + files[Order(files)[i]].size
  <2>1. TotalTo(files, n, T) BY TotalsStep
  <2>2. 0 \in 0 .. n /\ \A i \in 1 .. n : i \in 0 .. n /\ i # 0 BY <1>1
  <2>3. \A k \in 0 .. n : T[k] = IF k = 0 THEN 0 ELSE T[k - 1] + files[Order(files)[k]].size
    <3> HIDE DEF T, n
    <3> QED BY <2>1 DEF TotalTo
  <2> QED BY <2>2, <2>3
<1> DEFINE S == {m \in Nat : m <= n => T[m] \in Nat}
           U == {m \in Nat : \A i \in 0 .. n : i + m <= n => T[i] <= T[i + m]}
<1> HIDE DEF T, n
<1>3. S = Nat
  <2>1. 0 \in S BY <1>1, <1>2
  <2>2. ASSUME NEW m \in S PROVE m + 1 \in S
    <3>1. SUFFICES ASSUME m + 1 <= n PROVE T[m + 1] \in Nat OBVIOUS
    <3>2. m \in Nat /\ m + 1 \in 1 .. n /\ m <= n /\ (m + 1) - 1 = m BY <1>1, <3>1
    <3>3. T[m + 1] = T[m] + files[Order(files)[m + 1]].size BY <1>2, <3>2
    <3>4. T[m] \in Nat BY <3>2
    <3> QED BY <1>1, <3>2, <3>3, <3>4
  <2>3. S \subseteq Nat OBVIOUS
  <2> HIDE DEF S
  <2> QED BY <2>1, <2>2, <2>3, Induction
<1>4. \A i \in 0 .. n : T[i] \in Nat BY <1>1, <1>3
<1>5. U = Nat
  <2>1. 0 \in U
    <3>1. \A i \in 0 .. n : i + 0 = i /\ T[i] <= T[i] BY <1>1, <1>4
    <3> QED BY <3>1
  <2>2. ASSUME NEW m \in U PROVE m + 1 \in U
    <3>1. SUFFICES ASSUME NEW i \in 0 .. n, i + (m + 1) <= n PROVE T[i] <= T[i + (m + 1)]
      OBVIOUS
    <3>2. /\ m \in Nat /\ i \in Nat /\ i + m \in 0 .. n /\ i + m <= n
          /\ i + (m + 1) \in 1 .. n /\ (i + (m + 1)) - 1 = i + m
      BY <1>1, <3>1
    <3>3. T[i + (m + 1)] = T[i + m] + files[Order(files)[i + (m + 1)]].size BY <1>2, <3>2
    <3>4. T[i] <= T[i + m] BY <3>2
    <3>5. T[i] \in Nat /\ T[i + m] \in Nat BY <1>4, <3>2
    <3>6. files[Order(files)[i + (m + 1)]].size \in Nat BY <1>1, <3>2
    <3> QED BY <3>3, <3>4, <3>5, <3>6
  <2>3. U \subseteq Nat OBVIOUS
  <2> HIDE DEF U
  <2> QED BY <2>1, <2>2, <2>3, Induction
<1>6. \A i \in 0 .. n : T[i] <= T[n]
  <2> SUFFICES ASSUME NEW i \in 0 .. n PROVE T[i] <= T[n] OBVIOUS
  <2>1. n - i \in Nat /\ i + (n - i) = n BY <1>1
  <2>2. n - i \in U BY <1>5, <2>1
  <2> QED BY <1>1, <2>1, <2>2
<1>7. Size(files) = T[n] BY DEF Size, T, n
<1>8. \A i \in 1 .. n : i \in 0 .. n /\ i - 1 \in 0 .. n BY <1>1
<1>9. n \in 0 .. n BY <1>1
<1>10. Size(files) \in Nat BY <1>4, <1>7, <1>9
<1>11. \A i \in 1 .. n : T[i] \in Nat /\ T[i - 1] \in Nat /\ T[i] <= Size(files)
  BY <1>4, <1>6, <1>7, <1>8
<1> QED BY <1>2, <1>10, <1>11 DEF T, n

-----------------------------------------------------------------------------
(* What unpackZip knows after some of the entries. *)
Known(so) ==
    so = [announced |-> so.announced, total |-> so.total, failure |-> so.failure,
          dropped |-> so.dropped, files |-> so.files]

(* An entry passes every gate, and what is known with it. *)
Passes(indexed, so, entry) ==
    /\ so.failure = Unset /\ ~EscapesPackage(entry.name)
    /\ DuplicateKey(entry.name) \notin so.announced /\ entry.name \in indexed
    /\ ~(so.total + entry.content.size > MaxBytes)

Claims(so, entry) ==
    entry.sound /\ ~(entry.claim # Unset /\ entry.claim > MaxBytes - so.total)

Takes(so, entry, next) ==
    /\ next.failure = Unset
    /\ next.announced = so.announced \cup {DuplicateKey(entry.name)}
    /\ next.total = so.total + entry.content.size
    /\ IsMarker(entry) => next.dropped = so.dropped + 1 /\ next.files = so.files
    /\ ~IsMarker(entry) => /\ next.dropped = so.dropped + 0
                           /\ next.files = Put(so.files, entry.name, entry.content)

LEMMA EntryIsRead ==
    ASSUME NEW indexed, NEW so, NEW entry, Known(so)
    PROVE  LET next == ReadEntry(indexed, so, entry) IN
           /\ Known(next)
           /\ next.failure = Unset => Passes(indexed, so, entry) /\ Takes(so, entry, next)
           /\ Passes(indexed, so, entry) /\ Claims(so, entry) => Takes(so, entry, next)
<1> DEFINE fail(code) == [so EXCEPT !.failure = code]
           key == DuplicateKey(entry.name)
           total == so.total + entry.content.size
           taken == [announced |-> so.announced \cup {key}, total |-> total, failure |-> Unset,
                     dropped |-> so.dropped + (IF IsMarker(entry) THEN 1 ELSE 0),
                     files |-> IF IsMarker(entry) THEN so.files
                               ELSE Put(so.files, entry.name, entry.content)]
           next == ReadEntry(indexed, so, entry)
           Claimed == entry.claim # Unset /\ entry.claim > MaxBytes - so.total
<1>1. \A code \in UnsafeArchiveCodes : Known(fail(code)) /\ fail(code).failure # Unset
  BY UnsetAssumption DEF Known
<1>2. Known(taken) /\ Takes(so, entry, taken) BY DEF Known, Takes
<1>3. {"PATH_ESCAPE", "DUPLICATE_ENTRY", "TOO_LARGE", "MALFORMED"} \subseteq UnsafeArchiveCodes
  BY DEF UnsafeArchiveCodes
<1>4. next = CASE so.failure # Unset -> so
               [] so.failure = Unset /\ EscapesPackage(entry.name) -> fail("PATH_ESCAPE")
               [] OTHER ->
                  IF key \in so.announced THEN fail("DUPLICATE_ENTRY")
                  ELSE IF entry.name \notin indexed THEN fail("MALFORMED")
                  ELSE IF Claimed THEN fail("TOO_LARGE")
                  ELSE IF ~entry.sound THEN fail("MALFORMED")
                  ELSE IF total > MaxBytes THEN fail("TOO_LARGE")
                  ELSE taken
  BY DEF ReadEntry
<1> SUFFICES /\ Known(next)
             /\ next.failure = Unset => Passes(indexed, so, entry) /\ Takes(so, entry, next)
             /\ Passes(indexed, so, entry) /\ Claims(so, entry) => Takes(so, entry, next)
  OBVIOUS
<1> HIDE DEF next
<1>5. CASE so.failure # Unset
  <2>1. next = so BY <1>4, <1>5
  <2> QED BY <2>1, <1>5 DEF Passes
<1>6. CASE so.failure = Unset /\ EscapesPackage(entry.name)
  <2>1. next = fail("PATH_ESCAPE") BY <1>4, <1>6
  <2> QED BY <2>1, <1>1, <1>3, <1>6 DEF Passes
<1>7. CASE so.failure = Unset /\ ~EscapesPackage(entry.name)
  <2>1. next = IF key \in so.announced THEN fail("DUPLICATE_ENTRY")
               ELSE IF entry.name \notin indexed THEN fail("MALFORMED")
               ELSE IF Claimed THEN fail("TOO_LARGE")
               ELSE IF ~entry.sound THEN fail("MALFORMED")
               ELSE IF total > MaxBytes THEN fail("TOO_LARGE")
               ELSE taken
    BY <1>4, <1>7
  <2>2. CASE key \in so.announced \/ entry.name \notin indexed \/ Claimed \/ ~entry.sound
             \/ total > MaxBytes
    <3> HIDE DEF fail, taken
    <3>1. \E code \in UnsafeArchiveCodes : next = fail(code) BY <1>3, <2>1, <2>2
    <3>2. Known(next) /\ next.failure # Unset BY <1>1, <3>1
    <3>3. ~(Passes(indexed, so, entry) /\ Claims(so, entry))
      BY <2>2 DEF Passes, Claims
    <3> QED BY <3>2, <3>3
  <2>3. CASE ~(key \in so.announced \/ entry.name \notin indexed \/ Claimed \/ ~entry.sound
               \/ total > MaxBytes)
    <3> HIDE DEF fail, taken
    <3>1. next = taken BY <2>1, <2>3
    <3>2. Passes(indexed, so, entry) BY <1>7, <2>3 DEF Passes
    <3> QED BY <1>2, <3>1, <3>2
  <2> QED BY <2>2, <2>3
<1> QED BY <1>5, <1>6, <1>7

(* The readings, one entry after the other. *)
ReadTo(archive, n, so) ==
    so = [k \in 0 .. n |-> IF k = 0 THEN NothingRead
                           ELSE ReadEntry(Range(archive.index), so[k - 1], archive.entries[k])]

LEMMA ReadingsExist ==
    ASSUME NEW archive, NEW n \in Nat
    PROVE  \E so : ReadTo(archive, n, so)
<1> DEFINE S == {m \in Nat : \E so : ReadTo(archive, m, so)}
           Step(so, k) == ReadEntry(Range(archive.index), so, archive.entries[k])
<1>1. 0 \in S
  <2> DEFINE first == [k \in 0 .. 0 |-> NothingRead]
  <2>1. ReadTo(archive, 0, first) BY DEF ReadTo
  <2> QED BY <2>1
<1>2. ASSUME NEW m \in S PROVE m + 1 \in S
  <2>1. PICK h : ReadTo(archive, m, h) OBVIOUS
  <2> DEFINE g == [k \in 0 .. m + 1 |-> IF k = m + 1 THEN Step(h[m], k) ELSE h[k]]
  <2>2. m \in Nat OBVIOUS
  <2>3. \A k \in 0 .. m : g[k] = h[k] BY <2>2
  <2>4. \A k \in 0 .. m + 1 : k # 0 => k - 1 \in 0 .. m BY <2>2
  <2>5. \A k \in 0 .. m + 1 : g[k] = IF k = 0 THEN NothingRead ELSE Step(g[k - 1], k)
    <3> SUFFICES ASSUME NEW k \in 0 .. m + 1
                 PROVE  g[k] = IF k = 0 THEN NothingRead ELSE Step(g[k - 1], k)
      OBVIOUS
    <3>1. CASE k = m + 1
      <4>1. g[k - 1] = h[m] BY <2>2, <2>3, <3>1
      <4> QED BY <2>2, <3>1, <4>1
    <3>2. CASE k # m + 1
      <4>1. k \in 0 .. m /\ g[k] = h[k] BY <2>2, <3>2
      <4>2. k # 0 => g[k - 1] = h[k - 1] BY <2>3, <2>4
      <4>3. h[k] = IF k = 0 THEN NothingRead ELSE Step(h[k - 1], k)
        BY <2>1, <4>1 DEF ReadTo
      <4> QED BY <4>1, <4>2, <4>3
    <3> QED BY <3>1, <3>2
  <2>6. ReadTo(archive, m + 1, g) BY <2>5 DEF ReadTo
  <2> QED BY <2>2, <2>6
<1>3. S \subseteq Nat OBVIOUS
<1>4. S = Nat
  <2> HIDE DEF S
  <2> QED BY <1>1, <1>2, <1>3, Induction
<1> QED BY <1>4

LEMMA ReadingsStep ==
    ASSUME NEW archive, Len(archive.entries) \in Nat
    PROVE  LET n == Len(archive.entries)
               so == Readings(archive)
           IN  /\ so[0] = NothingRead
               /\ \A k \in 1 .. n :
                     so[k] = ReadEntry(Range(archive.index), so[k - 1], archive.entries[k])
<1> DEFINE n == Len(archive.entries)
           so == Readings(archive)
<1>1. so = CHOOSE s : ReadTo(archive, n, s) BY DEF Readings, ReadTo
<1>2. ReadTo(archive, n, so) BY <1>1, ReadingsExist
<1>3. 0 \in 0 .. n /\ \A k \in 1 .. n : k \in 0 .. n /\ k # 0 OBVIOUS
<1> HIDE DEF so
<1>4. \A k \in 0 .. n : so[k] = IF k = 0 THEN NothingRead
          ELSE ReadEntry(Range(archive.index), so[k - 1], archive.entries[k])
  BY <1>2 DEF ReadTo
<1>5. so[0] = NothingRead BY <1>3, <1>4
<1>6. \A k \in 1 .. n : so[k] = ReadEntry(Range(archive.index), so[k - 1], archive.entries[k])
  BY <1>3, <1>4
<1> QED BY <1>5, <1>6 DEF so

-----------------------------------------------------------------------------
(* A package without a finding: nothing of what the rules look for is there. *)
LEMMA NoFindings ==
    ASSUME NEW files, ValidatePackage(files) = {}
    PROVE  LET manifest == files[ManifestPath].manifest IN
           /\ ~(Size(files) > MaxBytes)
           /\ \A p \in DOMAIN files : ~EscapesPackage(p)
           /\ ManifestPath \in DOMAIN files
           /\ manifest # Unset
           /\ ManifestFindings(manifest) = {}
           /\ ChapterFindings(manifest.chapters, files) = {}
           /\ WidgetFindings(files) = {}
           /\ WidgetUseFindings(manifest.chapters, files) = {}
<1> DEFINE tooLarge == IF Size(files) > MaxBytes THEN {<<"TOO_LARGE", ".">>} ELSE {}
           escapes == {<<"PATH_ESCAPE", p>> : p \in {q \in DOMAIN files : EscapesPackage(q)}}
           manifest == files[ManifestPath].manifest
           chapters == manifest.chapters
           scripts == {<<"JS_FILE_IN_PACKAGE", p>> : p \in
                             {q \in DOMAIN files : ~InWidgetDir(q) /\ q[Len(q)] \in Scripts}}
           content == IF tooLarge = {} THEN ScanContent(files) ELSE {}
           all == UNION {tooLarge \cup escapes, ManifestFindings(manifest),
                         ChapterFindings(chapters, files), scripts, content,
                         WidgetFindings(files), WidgetUseFindings(chapters, files)}
<1>1. files # <<>> BY DEF ValidatePackage
<1>2. ValidatePackage(files) =
        IF ManifestPath \notin DOMAIN files
        THEN (tooLarge \cup escapes) \cup {<<"MANIFEST_MISSING", ManifestPath>>}
        ELSE IF manifest = Unset
        THEN (tooLarge \cup escapes) \cup {<<"MANIFEST_PARSE", ManifestPath>>}
        ELSE all
  BY <1>1, Zenon DEF ValidatePackage
<1> HIDE DEF all
<1>3. ManifestPath \in DOMAIN files /\ manifest # Unset /\ all = {}
  <2> HIDE DEF tooLarge, escapes, manifest
  <2>1. CASE ManifestPath \notin DOMAIN files BY <1>2, <2>1
  <2>2. CASE ManifestPath \in DOMAIN files /\ manifest = Unset BY <1>2, <2>2
  <2>3. CASE ManifestPath \in DOMAIN files /\ manifest # Unset BY <1>2, <2>3
  <2> QED BY <2>1, <2>2, <2>3
<1>4. /\ tooLarge \cup escapes = {} /\ ManifestFindings(manifest) = {}
      /\ ChapterFindings(chapters, files) = {} /\ WidgetFindings(files) = {}
      /\ WidgetUseFindings(chapters, files) = {}
  <2> HIDE DEF tooLarge, escapes, manifest, chapters, scripts, content
  <2> QED BY <1>3 DEF all
<1>5. tooLarge = {} /\ escapes = {} BY <1>4
<1>6. ~(Size(files) > MaxBytes) BY <1>5
<1>7. \A p \in DOMAIN files : ~EscapesPackage(p) BY <1>5
<1> QED BY <1>3, <1>4, <1>6, <1>7

(* What the entries that pack wrote are read as, up to one of them. *)
ReadBack(files, so, k) ==
    LET done == {Order(files)[i] : i \in 1 .. k} IN
    /\ Known(so) /\ so.failure = Unset /\ so.dropped = 0
    /\ so.total = Totals(files)[k]
    /\ so.announced = {DuplicateKey(p) : p \in done}
    /\ so.files = [p \in done |-> files[p]]

LEMMA PackedEntries ==
    ASSUME NEW files, IsFolder(files)
    PROVE  LET n == Cardinality(DOMAIN files)
               archive == PackZip(files)
           IN  /\ n \in Nat /\ Len(archive.entries) = n /\ archive.index = Order(files)
               /\ Len(archive.index) = n
               /\ archive.entries \in Seq(Range(archive.entries))
               /\ archive.index \in Seq(Range(archive.index))
               /\ DOMAIN archive.entries = 1 .. n
               /\ Range(archive.index) = DOMAIN files
               /\ \A i \in 1 .. n :
                    /\ Order(files)[i] \in DOMAIN files
                    /\ archive.entries[i] = [name |-> Order(files)[i],
                         claim |-> files[Order(files)[i]].size, sound |-> TRUE,
                         content |-> files[Order(files)[i]]]
<1> DEFINE n == Cardinality(DOMAIN files)
           order == Order(files)
           archive == PackZip(files)
           entries == [i \in DOMAIN order |->
                        [name |-> order[i], claim |-> files[order[i]].size, sound |-> TRUE,
                         content |-> files[order[i]]]]
<1>1. /\ n \in Nat /\ order \in [1 .. n -> DOMAIN files]
      /\ \A p \in DOMAIN files : \E i \in 1 .. n : order[i] = p
  BY OrderOf DEF IsFolder
<1>2. archive.entries = entries /\ archive.index = order BY DEF PackZip
<1> HIDE DEF n, order, archive
<1>3. DOMAIN order = 1 .. n BY <1>1
<1>4. DOMAIN entries = 1 .. n /\ Len(entries) = n BY <1>1, <1>3
<1>5. Len(order) = n BY <1>1
<1>6. order \in Seq(Range(order)) BY <1>1, <1>3 DEF Range
<1>7. entries \in [1 .. n -> Range(entries)] BY <1>4 DEF Range
<1>8. entries \in Seq(Range(entries))
  <2> HIDE DEF entries
  <2> QED BY <1>1, <1>7
<1>9. Range(order) = DOMAIN files BY <1>1, <1>3 DEF Range
<1>10. \A i \in 1 .. n : /\ order[i] \in DOMAIN files
                         /\ entries[i] = [name |-> order[i], claim |-> files[order[i]].size,
                              sound |-> TRUE, content |-> files[order[i]]]
  BY <1>1, <1>3
<1> HIDE DEF entries
<1> QED BY <1>1, <1>2, <1>4, <1>5, <1>6, <1>8, <1>9, <1>10 DEF n, order, archive

LEMMA PackedIsReadBack ==
    ASSUME NEW files, IsFolder(files), ValidatePackage(files) = {}, NoFoldClash(files)
    PROVE  \A k \in 0 .. Cardinality(DOMAIN files) :
              ReadBack(files, Readings(PackZip(files))[k], k)
<1> DEFINE n == Cardinality(DOMAIN files)
           order == Order(files)
           archive == PackZip(files)
           so == Readings(archive)
           S == {k \in Nat : k <= n => ReadBack(files, so[k], k)}
<1>1. n \in Nat /\ Len(archive.entries) = n /\ Range(archive.index) = DOMAIN files
  BY PackedEntries
<1>2. /\ so[0] = NothingRead
      /\ \A k \in 1 .. n : so[k] = ReadEntry(DOMAIN files, so[k - 1], archive.entries[k])
  BY <1>1, ReadingsStep
<1>3. \A i \in 1 .. n : /\ order[i] \in DOMAIN files
                        /\ archive.entries[i] = [name |-> order[i], claim |-> files[order[i]].size,
                              sound |-> TRUE, content |-> files[order[i]]]
  BY PackedEntries
<1>4. \A i, j \in 1 .. n : order[i] = order[j] => i = j BY OrderOf DEF IsFolder
<1>5. \A p \in DOMAIN files : files[p].size \in Nat /\ ~IsDirectory(p) /\ ~EscapesPackage(p)
  BY NoFindings DEF IsFolder, IsFile
<1>6. /\ Size(files) \in Nat /\ Totals(files)[0] = 0
      /\ \A i \in 1 .. n : /\ Totals(files)[i] = Totals(files)[i - 1] + files[order[i]].size
                           /\ Totals(files)[i] \in Nat /\ Totals(files)[i - 1] \in Nat
                           /\ Totals(files)[i] <= Size(files)
  BY <1>5, TotalsGrow DEF IsFolder
<1>7. Size(files) <= MaxBytes /\ MaxBytes \in Nat
  BY <1>6, NoFindings, PackageAssumption
<1> HIDE DEF n, order, archive, so
<1>8. 0 \in S
  <2>1. ReadBack(files, so[0], 0)
    <3>1. {order[i] : i \in 1 .. 0} = {} OBVIOUS
    <3>2. <<>> = [p \in {} |-> files[p]] OBVIOUS
    <3> QED BY <1>2, <1>6, <3>1, <3>2 DEF ReadBack, NothingRead, Known, order
  <2> QED BY <2>1
<1>9. ASSUME NEW m \in S PROVE m + 1 \in S
  <2>1. SUFFICES ASSUME m + 1 <= n PROVE ReadBack(files, so[m + 1], m + 1) OBVIOUS
  <2> DEFINE k == m + 1
             entry == archive.entries[k]
             old == so[m]
             new == so[k]
             path == order[k]
             done == {order[i] : i \in 1 .. m}
  <2>2. m \in Nat /\ m <= n /\ k \in 1 .. n /\ k - 1 = m /\ ReadBack(files, old, m)
    BY <1>1, <2>1
  <2>3. new = ReadEntry(DOMAIN files, old, entry) BY <1>2, <2>2
  <2>4. /\ path \in DOMAIN files /\ entry.name = path /\ entry.claim = files[path].size
        /\ entry.sound /\ entry.content = files[path]
    <3>1. /\ path \in DOMAIN files
          /\ entry = [name |-> path, claim |-> files[path].size, sound |-> TRUE,
                      content |-> files[path]]
      <4> HIDE DEF k
      <4> QED BY <1>3, <2>2
    <3> HIDE DEF entry, path
    <3> QED BY <3>1
  <2>5. /\ Known(old) /\ old.failure = Unset /\ old.dropped = 0
        /\ old.total = Totals(files)[m] /\ old.announced = {DuplicateKey(p) : p \in done}
        /\ old.files = [p \in done |-> files[p]]
    BY <2>2 DEF ReadBack, order
  <2>6. {order[i] : i \in 1 .. k} = done \cup {path}
    <3>1. 1 .. k = (1 .. m) \cup {k} BY <2>2
    <3> QED BY <3>1
  <2>7. path \notin done /\ done \subseteq DOMAIN files
    <3>1. \A i \in 1 .. m : i \in 1 .. n /\ i # k BY <1>1, <2>2
    <3>2. \A i \in 1 .. m : order[i] \in DOMAIN files BY <1>3, <3>1
    <3>3. \A i \in 1 .. m : order[i] # order[k]
      <4> HIDE DEF k
      <4> QED BY <1>4, <2>2, <3>1
    <3> QED BY <3>2, <3>3
  <2>8. DuplicateKey(path) \notin old.announced
    BY <2>4, <2>5, <2>7 DEF NoFoldClash
  <2>9. Totals(files)[k] = old.total + files[path].size /\ old.total \in Nat
        /\ Totals(files)[k] <= MaxBytes /\ Totals(files)[k] \in Nat /\ files[path].size \in Nat
    BY <1>5, <1>6, <1>7, <2>2, <2>4, <2>5
  <2> HIDE DEF entry, old, new, path, done
  <2>10. Passes(DOMAIN files, old, entry)
    <3>1. ~EscapesPackage(entry.name) BY <1>5, <2>4
    <3>2. ~(old.total + entry.content.size > MaxBytes) BY <1>7, <2>4, <2>9
    <3> QED BY <2>4, <2>5, <2>8, <3>1, <3>2 DEF Passes
  <2>11. Claims(old, entry)
    <3>1. ~(entry.claim > MaxBytes - old.total) BY <1>7, <2>4, <2>9
    <3> QED BY <2>4, <3>1 DEF Claims
  <2>12. Known(new) /\ Takes(old, entry, new)
    BY <2>3, <2>5, <2>10, <2>11, EntryIsRead
  <2>13. ~IsMarker(entry) BY <1>5, <2>4 DEF IsMarker
  <2>14. new.files = [p \in done \cup {path} |-> files[p]]
    <3>1. new.files = Put(old.files, path, files[path]) BY <2>4, <2>12, <2>13 DEF Takes
    <3> QED BY <2>5, <2>7, <3>1 DEF Put
  <2>15. new.announced = {DuplicateKey(p) : p \in done \cup {path}}
    BY <2>4, <2>5, <2>12 DEF Takes
  <2>16. new.failure = Unset /\ new.dropped = 0 /\ new.total = Totals(files)[k]
    BY <2>4, <2>5, <2>9, <2>12, <2>13 DEF Takes
  <2>17. ReadBack(files, new, k)
    BY <2>6, <2>12, <2>14, <2>15, <2>16 DEF ReadBack, order
  <2> QED BY <2>17 DEF new
<1>10. S \subseteq Nat OBVIOUS
<1>11. S = Nat
  <2> HIDE DEF S
  <2> QED BY <1>8, <1>9, <1>10, Induction
<1>12. \A k \in 0 .. n : ReadBack(files, so[k], k) BY <1>1, <1>11
<1> QED BY <1>12 DEF n, so, archive

-----------------------------------------------------------------------------
LEMMA ManifestIsNoDirectory == ~IsDirectory(ManifestPath)
<1>1. Len(ManifestPath) = 1 /\ ManifestPath[1] = "manifest.json" BY DEF ManifestPath
<1> QED BY <1>1 DEF IsDirectory

(* A package without a finding can be read from end to end. *)
LEMMA AcceptedIsReadable ==
    ASSUME NEW files, IsFiniteSet(DOMAIN files), \A p \in DOMAIN files : IsFile(files[p]),
           ValidatePackage(files) = {}
    PROVE  Readable(files, files[ManifestPath].manifest.id)
<1> DEFINE manifest == files[ManifestPath].manifest
           chapters == manifest.chapters
           pages == {c.file : c \in Range(chapters)}
           shown == UNION {files[p].refs : p \in pages}
<1>1. /\ ~(Size(files) > MaxBytes) /\ ManifestPath \in DOMAIN files /\ manifest # Unset
      /\ ChapterFindings(chapters, files) = {} /\ WidgetFindings(files) = {}
      /\ WidgetUseFindings(chapters, files) = {}
  BY NoFindings
<1>2. Size(files) <= MaxBytes
  <2>1. Size(files) \in Nat BY TotalsGrow DEF IsFile
  <2> QED BY <1>1, <2>1, PackageAssumption
<1>3. chapters \in Seq(Range(chapters)) BY <1>1 DEF IsFile
<1> HIDE DEF chapters
<1>4. Len(chapters) \in Nat /\ DOMAIN chapters = 1 .. Len(chapters) BY <1>3
<1>5. \A i, j \in DOMAIN chapters : chapters[i].id = chapters[j].id => i = j
  <2>1. \A j \in DOMAIN chapters : ~\E k \in 1 .. j - 1 : chapters[k].id = chapters[j].id
    BY <1>1 DEF ChapterFindings
  <2>2. \A i, j \in 1 .. Len(chapters) : i # j => i \in 1 .. j - 1 \/ j \in 1 .. i - 1 BY <1>4
  <2> QED BY <1>4, <2>1, <2>2
<1>6. pages \subseteq DOMAIN files
  <2>1. \A j \in DOMAIN chapters : chapters[j].file \in DOMAIN files
    BY <1>1 DEF ChapterFindings
  <2> QED BY <2>1 DEF Range
<1> HIDE DEF pages
<1>7. \A p \in DOMAIN files : InWidgetDir(p) => IsWidgetIndex(p) BY <1>1 DEF WidgetFindings
<1>8. pages \cap DOMAIN files = pages BY <1>6
<1>9. /\ \A n \in shown : IsRealWidget(files, n)
      /\ \A n \in WidgetNames(files) : IsRealWidget(files, n) => n \in shown
  <2>1. {c.file : c \in Range(chapters)} \cap DOMAIN files = pages BY <1>8 DEF pages
  <2> DEFINE referring == {c.file : c \in Range(chapters)} \cap DOMAIN files
             missing(p) == {<<"WIDGET_MISSING", p>> :
                               n \in {m \in files[p].refs : ~IsRealWidget(files, m)}}
             asked == UNION {missing(p) : p \in referring}
             referred == UNION {files[p].refs : p \in referring}
             orphans == {m \in WidgetNames(files) : IsRealWidget(files, m)} \ referred
             idle == {<<"WIDGET_ORPHAN", n>> : n \in orphans}
  <2>a. WidgetUseFindings(chapters, files) = idle \cup asked
    BY DEF WidgetUseFindings
  <2>b. asked = {} /\ idle = {}
    <3> HIDE DEF asked, idle
    <3> QED BY <1>1, <2>a
  <2>c. referring = pages /\ referred = shown BY <2>1
  <2>d. orphans = {}
    <3> HIDE DEF orphans
    <3> QED BY <2>b
  <2> HIDE DEF referring
  <2>e. \A p \in referring : missing(p) = {}
    <3> HIDE DEF missing
    <3> QED BY <2>b
  <2>2. \A p \in pages : \A n \in files[p].refs : IsRealWidget(files, n)
    BY <2>c, <2>e
  <2>3. \A n \in WidgetNames(files) : IsRealWidget(files, n) => n \in shown
    <3> HIDE DEF referred, shown
    <3> QED BY <2>c, <2>d
  <2> QED BY <2>2, <2>3
<1> HIDE DEF shown
<1>10. \A n : Len(IndexOf(n)) = 3 /\ IndexOf(n)[1] = "widgets" /\ IndexOf(n)[2] = n
  BY DEF IndexOf
<1>11. \A n \in shown : IndexOf(n) \in DOMAIN files /\ InWidgetDir(IndexOf(n))
  BY <1>9, <1>10 DEF IsRealWidget, InWidgetDir
<1>12. \A p \in DOMAIN files : InWidgetDir(p) => \E n \in shown : p = IndexOf(n)
  <2> SUFFICES ASSUME NEW p \in DOMAIN files, InWidgetDir(p) PROVE \E n \in shown : p = IndexOf(n)
    OBVIOUS
  <2>1. p = IndexOf(p[2]) BY <1>7 DEF IsWidgetIndex
  <2>2. p[2] \in WidgetNames(files) BY DEF WidgetNames
  <2>3. IsRealWidget(files, p[2]) BY <2>1 DEF IsRealWidget
  <2> QED BY <1>9, <2>1, <2>2, <2>3
<1>13. {p \in DOMAIN files : InWidgetDir(p)} = {IndexOf(n) : n \in shown}
  BY <1>11, <1>12
<1> QED BY <1>2, <1>5, <1>6, <1>13 DEF Readable, manifest, chapters, pages, shown

(* What the entries of any archive are read as, up to one of them. *)
ReadSome(archive, so, k) ==
    LET name(i) == archive.entries[i].name
        kept == {i \in 1 .. k : ~IsMarker(archive.entries[i])}
    IN  /\ \A i \in 1 .. k : name(i) \in Range(archive.index)
                             /\ DuplicateKey(name(i)) \in so.announced
        /\ \A i, j \in 1 .. k : DuplicateKey(name(i)) = DuplicateKey(name(j)) => i = j
        /\ DOMAIN so.files = {name(i) : i \in kept}
        /\ \A i \in kept : so.files[name(i)] = archive.entries[i].content
        /\ so.dropped \in Nat /\ IsFiniteSet(DOMAIN so.files)
        /\ Cardinality(DOMAIN so.files) + so.dropped = k

LEMMA EntriesAreRead ==
    ASSUME NEW archive, Len(archive.entries) \in Nat
    PROVE  \A k \in 0 .. Len(archive.entries) :
              /\ Known(Readings(archive)[k])
              /\ Readings(archive)[k].failure = Unset =>
                    ReadSome(archive, Readings(archive)[k], k)
<1> DEFINE n == Len(archive.entries)
           so == Readings(archive)
           S == {k \in Nat : k <= n => Known(so[k]) /\ (so[k].failure = Unset =>
                                                           ReadSome(archive, so[k], k))}
<1>1. /\ so[0] = NothingRead
      /\ \A k \in 1 .. n :
            so[k] = ReadEntry(Range(archive.index), so[k - 1], archive.entries[k])
  BY ReadingsStep
<1> HIDE DEF so
<1>2. 0 \in S
  <2>1. Known(NothingRead) BY DEF Known, NothingRead
  <2>2. /\ NothingRead.announced = {} /\ NothingRead.dropped = 0
        /\ DOMAIN NothingRead.files = {}
    BY DEF NothingRead
  <2>3. IsFiniteSet({}) /\ Cardinality({}) = 0 BY FS_EmptySet
  <2>4. 1 .. 0 = {} OBVIOUS
  <2>5. ReadSome(archive, NothingRead, 0) BY <2>2, <2>3, <2>4 DEF ReadSome
  <2> QED BY <1>1, <2>1, <2>5
<1>3. ASSUME NEW m \in S PROVE m + 1 \in S
  <2>1. SUFFICES ASSUME m + 1 <= n
                 PROVE  /\ Known(so[m + 1])
                        /\ so[m + 1].failure = Unset => ReadSome(archive, so[m + 1], m + 1)
    OBVIOUS
  <2> DEFINE k == m + 1
             entry == archive.entries[k]
             old == so[m]
             new == so[k]
             name(i) == archive.entries[i].name
             key(i) == DuplicateKey(name(i))
             kept(j) == {i \in 1 .. j : ~IsMarker(archive.entries[i])}
  <2>2. /\ m \in Nat /\ m <= n /\ k \in 1 .. n /\ k - 1 = m /\ Known(old)
        /\ old.failure = Unset => ReadSome(archive, old, m)
    BY <2>1
  <2>3. new = ReadEntry(Range(archive.index), old, entry)
    <3> HIDE DEF k
    <3> QED BY <1>1, <2>2
  <2>4. 1 .. k = (1 .. m) \cup {k} /\ k \notin 1 .. m BY <2>2
  <2> HIDE DEF entry, old, new, k
  <2>5. Known(new) BY <2>2, <2>3, EntryIsRead
  <2>6. ASSUME new.failure = Unset PROVE ReadSome(archive, new, k)
    <3>1. Passes(Range(archive.index), old, entry) /\ Takes(old, entry, new)
      BY <2>2, <2>3, <2>6, EntryIsRead
    <3>2. ReadSome(archive, old, m) BY <2>2, <3>1 DEF Passes
    <3>3. name(k) = entry.name BY DEF entry
    <3>4. /\ \A i \in 1 .. m : name(i) \in Range(archive.index) /\ key(i) \in old.announced
          /\ \A i, j \in 1 .. m : key(i) = key(j) => i = j
          /\ DOMAIN old.files = {name(i) : i \in kept(m)}
          /\ \A i \in kept(m) : old.files[name(i)] = archive.entries[i].content
          /\ old.dropped \in Nat /\ IsFiniteSet(DOMAIN old.files)
          /\ Cardinality(DOMAIN old.files) + old.dropped = m
      BY <3>2 DEF ReadSome
    <3>c. /\ old.dropped \in Nat /\ IsFiniteSet(DOMAIN old.files)
          /\ Cardinality(DOMAIN old.files) \in Nat
          /\ Cardinality(DOMAIN old.files) + old.dropped = m
      <4>1. /\ old.dropped \in Nat /\ IsFiniteSet(DOMAIN old.files)
            /\ Cardinality(DOMAIN old.files) + old.dropped = m
        BY <3>4
      <4> QED BY <4>1, FS_CardinalityType
    <3>5. /\ key(k) \notin old.announced /\ name(k) \in Range(archive.index)
          /\ new.announced = old.announced \cup {key(k)}
      BY <3>1, <3>3 DEF Passes, Takes
    <3>6. \A i \in 1 .. m : key(i) # key(k) /\ name(i) # name(k) BY <3>4, <3>5
    <3>7. \A i \in 1 .. k : name(i) \in Range(archive.index) /\ key(i) \in new.announced
      BY <2>4, <3>4, <3>5
    <3>8. \A i, j \in 1 .. k : key(i) = key(j) => i = j BY <2>4, <3>4, <3>6
    <3>9. name(k) \notin DOMAIN old.files BY <3>4, <3>6
    <3>10. CASE IsMarker(entry)
      <4>1. new.files = old.files /\ new.dropped = old.dropped + 1
        BY <3>1, <3>10 DEF Takes
      <4>2. kept(k) = kept(m) BY <2>4, <3>10 DEF entry
      <4>4. Cardinality(DOMAIN new.files) + new.dropped = k
        BY <2>2, <3>c, <4>1 DEF k
      <4>5. /\ DOMAIN new.files = {name(i) : i \in kept(k)}
            /\ \A i \in kept(k) : new.files[name(i)] = archive.entries[i].content
        BY <3>4, <4>1, <4>2
      <4>6. new.dropped \in Nat /\ IsFiniteSet(DOMAIN new.files) BY <3>c, <4>1
      <4> QED BY <3>7, <3>8, <4>4, <4>5, <4>6 DEF ReadSome
    <3>11. CASE ~IsMarker(entry)
      <4>1. new.files = Put(old.files, name(k), entry.content) /\ new.dropped = old.dropped + 0
        BY <3>1, <3>3, <3>11 DEF Takes
      <4>2. kept(k) = kept(m) \cup {k} BY <2>4, <3>11 DEF entry
      <4>3. /\ DOMAIN new.files = DOMAIN old.files \cup {name(k)}
            /\ new.files[name(k)] = entry.content
            /\ \A p \in DOMAIN old.files : p # name(k) => new.files[p] = old.files[p]
        <5> DEFINE f == old.files
        <5> HIDE DEF f
        <5>1. new.files = Put(f, name(k), entry.content) BY <4>1 DEF f
        <5>2. /\ DOMAIN new.files = DOMAIN f \cup {name(k)}
              /\ new.files[name(k)] = entry.content
              /\ \A p \in DOMAIN f : p # name(k) => new.files[p] = f[p]
          BY <5>1 DEF Put
        <5> QED BY <5>2 DEF f
      <4>4. DOMAIN new.files = {name(i) : i \in kept(k)} BY <3>4, <4>2, <4>3
      <4>5. \A i \in kept(k) : new.files[name(i)] = archive.entries[i].content
        <5> SUFFICES ASSUME NEW i \in kept(k)
                     PROVE  new.files[name(i)] = archive.entries[i].content
          OBVIOUS
        <5>1. CASE i = k BY <4>3, <5>1 DEF entry
        <5>2. CASE i \in kept(m)
          <6>1. i \in 1 .. m /\ name(i) # name(k) BY <3>6, <5>2
          <6>2. name(i) \in DOMAIN old.files BY <3>4, <5>2
          <6> QED BY <3>4, <4>3, <5>2, <6>1, <6>2
        <5> QED BY <4>2, <5>1, <5>2
      <4>6. /\ IsFiniteSet(DOMAIN new.files)
            /\ Cardinality(DOMAIN new.files) = Cardinality(DOMAIN old.files) + 1
        <5> DEFINE D == DOMAIN old.files
        <5> HIDE DEF D
        <5>1. IsFiniteSet(D) /\ name(k) \notin D /\ DOMAIN new.files = D \cup {name(k)}
          BY <3>c, <3>9, <4>3 DEF D
        <5>2. /\ IsFiniteSet(D \cup {name(k)})
              /\ Cardinality(D \cup {name(k)}) =
                    IF name(k) \in D THEN Cardinality(D) ELSE Cardinality(D) + 1
          BY <5>1, FS_AddElement
        <5> QED BY <5>1, <5>2 DEF D
      <4>8. new.dropped \in Nat /\ Cardinality(DOMAIN new.files) + new.dropped = k
        <5>1. /\ Cardinality(DOMAIN new.files) = Cardinality(DOMAIN old.files) + 1
              /\ new.dropped = old.dropped + 0 /\ k = m + 1 /\ m \in Nat
          BY <2>2, <4>1, <4>6 DEF k
        <5> QED BY <3>c, <5>1
      <4> QED BY <3>7, <3>8, <4>4, <4>5, <4>6, <4>8 DEF ReadSome
    <3> QED BY <3>10, <3>11
  <2> QED BY <2>5, <2>6 DEF new, k
<1>4. S \subseteq Nat OBVIOUS
<1>5. S = Nat
  <2> HIDE DEF S
  <2> QED BY <1>2, <1>3, <1>4, Induction
<1>6. \A k \in 0 .. n : Known(so[k]) /\ (so[k].failure = Unset => ReadSome(archive, so[k], k))
  BY <1>5
<1> QED BY <1>6 DEF so

-----------------------------------------------------------------------------
(* An archive that unpackZip takes: each entry is listed in the index once, *)
(* and nothing else is.                                                     *)
LEMMA UnpackedEntries ==
    ASSUME NEW archive, IsArchive(archive), UnpackZip(archive).failure = Unset
    PROVE  LET n == Len(archive.entries)
               read == ReadEntries(archive)
           IN  /\ n \in Nat /\ DOMAIN archive.entries = 1 .. n
               /\ ReadSome(archive, read, n)
               /\ Len(archive.index) = n /\ IsFiniteSet(Range(archive.index))
               /\ Cardinality(Range(archive.index)) = n
               /\ \A p \in Range(archive.index) : \E i \in 1 .. n : archive.entries[i].name = p
<1> DEFINE n == Len(archive.entries)
           read == ReadEntries(archive)
           index == archive.index
           names == [i \in 1 .. n |-> archive.entries[i].name]
<1>1. n \in Nat /\ DOMAIN archive.entries = 1 .. n
  BY DEF IsArchive
<1>2. Len(index) \in Nat /\ DOMAIN index = 1 .. Len(index) /\ index \in [1 .. Len(index) -> Range(index)]
  BY DEF IsArchive
<1>3. read.failure = Unset /\ Cardinality(DOMAIN read.files) + read.dropped = Len(index)
  <2>1. UnpackZip(archive).failure =
          IF read.failure # Unset THEN read.failure
          ELSE IF Cardinality(DOMAIN read.files) + read.dropped # Len(index)
          THEN "MALFORMED" ELSE Unset
    BY DEF UnpackZip
  <2>2. "MALFORMED" # Unset BY UnsetAssumption DEF UnsafeArchiveCodes
  <2> HIDE DEF read, index
  <2> QED BY <2>1, <2>2
<1>4. ReadSome(archive, read, n)
  <2>1. n \in 0 .. n /\ read = Readings(archive)[n] BY <1>1 DEF ReadEntries
  <2> QED BY <1>1, <1>3, <2>1, EntriesAreRead
<1> HIDE DEF n, read, index
<1>5. Len(index) = n BY <1>3, <1>4 DEF ReadSome
<1>6. names \in Injection(1 .. n, Range(index))
  <2>1. \A i \in 1 .. n : names[i] \in Range(index) BY <1>4 DEF ReadSome, index
  <2>2. \A i, j \in 1 .. n : names[i] = names[j] => i = j BY <1>4 DEF ReadSome
  <2> QED BY <2>1, <2>2 DEF Injection, IsInjective
<1>7. index \in Surjection(1 .. n, Range(index))
  BY <1>2, <1>5 DEF Surjection, Range
<1>8. IsFiniteSet(1 .. n) /\ Cardinality(1 .. n) = n
  <2>1. 1 \in Int /\ n \in Int BY <1>1
  <2>2. Cardinality(1 .. n) = IF 1 > n THEN 0 ELSE n - 1 + 1 BY <2>1, FS_Interval
  <2>3. IsFiniteSet(1 .. n) BY <2>1, FS_Interval
  <2> QED BY <1>1, <2>2, <2>3
<1>9. IsFiniteSet(Range(index)) /\ Cardinality(Range(index)) <= n
  BY <1>7, <1>8, FS_Surjection
<1> HIDE DEF names
<1>10. n <= Cardinality(Range(index)) BY <1>6, <1>8, <1>9, FS_Injection
<1>11. Cardinality(Range(index)) = n
  <2>1. Cardinality(Range(index)) \in Nat BY <1>9, FS_CardinalityType
  <2> QED BY <1>1, <1>9, <1>10, <2>1
<1>12. names \in Surjection(1 .. n, Range(index))
  BY <1>6, <1>8, <1>9, <1>11, FS_Injection
<1>13. \A p \in Range(index) : \E i \in 1 .. n : archive.entries[i].name = p
  BY <1>12 DEF Surjection, names
<1> QED BY <1>1, <1>4, <1>5, <1>9, <1>11, <1>13 DEF n, read, index

(* What the server reads of it is what was unpacked, but for directories.  *)
LEMMA ServedIsUnpacked ==
    ASSUME NEW archive, IsArchive(archive), UnpackZip(archive).failure = Unset
    PROVE  LET files == UnpackZip(archive).files
               seen == {p \in DOMAIN files : ~IsDirectory(p)}
           IN  /\ ServerFiles(archive) = [p \in seen |-> files[p]]
               /\ IsFiniteSet(seen) /\ NoFoldClash(files)
               /\ \A p \in seen : IsFile(files[p])
<1> DEFINE n == Len(archive.entries)
           read == ReadEntries(archive)
           files == read.files
           seen == {p \in DOMAIN files : ~IsDirectory(p)}
           name(i) == archive.entries[i].name
           key(i) == DuplicateKey(name(i))
           kept == {i \in 1 .. n : ~IsMarker(archive.entries[i])}
           entriesOf(p) == {e \in Range(archive.entries) : e.name = p}
           names == {p \in Range(archive.index) : ~IsDirectory(p) /\ entriesOf(p) # {}}
<1>1. /\ n \in Nat /\ DOMAIN archive.entries = 1 .. n /\ ReadSome(archive, read, n)
      /\ \A p \in Range(archive.index) : \E i \in 1 .. n : name(i) = p
  BY UnpackedEntries
<1>2. UnpackZip(archive).files = files BY DEF UnpackZip
<1> HIDE DEF n, read
<1>3. /\ \A i \in 1 .. n : name(i) \in Range(archive.index)
      /\ \A i, j \in 1 .. n : key(i) = key(j) => i = j
      /\ DOMAIN files = {name(i) : i \in kept}
      /\ \A i \in kept : files[name(i)] = archive.entries[i].content
      /\ IsFiniteSet(DOMAIN files)
  BY <1>1 DEF ReadSome
<1>4. \A i \in 1 .. n : entriesOf(name(i)) = {archive.entries[i]}
  <2> SUFFICES ASSUME NEW i \in 1 .. n PROVE entriesOf(name(i)) = {archive.entries[i]} OBVIOUS
  <2>1. archive.entries[i] \in entriesOf(name(i)) BY <1>1 DEF Range
  <2>2. ASSUME NEW e \in entriesOf(name(i)) PROVE e = archive.entries[i]
    <3>1. PICK j \in 1 .. n : e = archive.entries[j] BY <1>1 DEF Range
    <3>2. key(j) = key(i) BY <3>1
    <3> QED BY <1>3, <3>1, <3>2
  <2> QED BY <2>1, <2>2
<1>5. \A i \in 1 .. n : ~IsDirectory(name(i)) => i \in kept BY DEF IsMarker
<1>6. names = seen
  <2>1. ASSUME NEW p \in names PROVE p \in seen
    <3>1. PICK i \in 1 .. n : name(i) = p BY <1>1
    <3>2. i \in kept BY <1>5, <3>1
    <3> QED BY <1>3, <3>1, <3>2
  <2>2. ASSUME NEW p \in seen PROVE p \in names
    <3>1. PICK i \in kept : p = name(i) BY <1>3
    <3>2. i \in 1 .. n OBVIOUS
    <3> QED BY <1>3, <1>4, <3>1, <3>2
  <2> QED BY <2>1, <2>2
<1>7. \A p \in seen : /\ (CHOOSE e \in entriesOf(p) : TRUE).content = files[p]
                      /\ IsFile(files[p])
  <2> SUFFICES ASSUME NEW p \in seen
               PROVE  (CHOOSE e \in entriesOf(p) : TRUE).content = files[p] /\ IsFile(files[p])
    OBVIOUS
  <2>1. PICK i \in kept : p = name(i) BY <1>3
  <2>2. entriesOf(p) = {archive.entries[i]} BY <1>4, <2>1
  <2>3. (CHOOSE e \in entriesOf(p) : TRUE) = archive.entries[i] BY <2>2
  <2>4. files[p] = archive.entries[i].content BY <1>3, <2>1
  <2>5. IsFile(archive.entries[i].content) BY <1>1, <2>1 DEF IsArchive
  <2> QED BY <2>3, <2>4, <2>5
<1>8. ServerFiles(archive) = [p \in names |-> (CHOOSE e \in entriesOf(p) : TRUE).content]
  BY DEF ServerFiles
<1>9. ServerFiles(archive) = [p \in seen |-> files[p]]
  <2> HIDE DEF seen, names, entriesOf, files
  <2> QED BY <1>6, <1>7, <1>8
<1>10. IsFiniteSet(seen)
  <2>1. seen \in SUBSET DOMAIN files OBVIOUS
  <2> HIDE DEF seen
  <2> QED BY <1>3, <2>1, FS_Subset
<1>11. NoFoldClash(files)
  <2> SUFFICES ASSUME NEW p \in DOMAIN files, NEW q \in DOMAIN files,
                      DuplicateKey(p) = DuplicateKey(q)
               PROVE  p = q
    BY DEF NoFoldClash
  <2>1. PICK i \in kept : p = name(i) BY <1>3
  <2>2. PICK j \in kept : q = name(j) BY <1>3
  <2>3. i = j BY <1>3, <2>1, <2>2
  <2> QED BY <2>1, <2>2, <2>3
<1> QED BY <1>2, <1>7, <1>9, <1>10, <1>11

(* What publish and the server let through can be read.                    *)
THEOREM PublishedReads ==
    ASSUME NEW archive, IsArchive(archive), Slug(archive) # Unset, Accepts(ServerFiles(archive))
    PROVE  IsPublished(archive, Slug(archive))
<1> DEFINE read == UnpackZip(archive)
           files == read.files
           served == ServerFiles(archive)
           seen == {p \in DOMAIN files : ~IsDirectory(p)}
           manifest == files[ManifestPath].manifest
<1>1. /\ read.failure = Unset /\ ManifestPath \in DOMAIN files
      /\ Slug(archive) = manifest.id
  <2>1. CASE read.failure = Unset /\ ManifestPath \in DOMAIN files
    <3>1. Slug(archive) = IF manifest = Unset \/ manifest.flaws # {} THEN Unset ELSE manifest.id
      BY <2>1 DEF Slug
    <3> HIDE DEF manifest
    <3> QED BY <2>1, <3>1
  <2>2. CASE ~(read.failure = Unset /\ ManifestPath \in DOMAIN files)
    BY <2>2 DEF Slug
  <2> QED BY <2>1, <2>2
<1>2. /\ served = [p \in seen |-> files[p]] /\ IsFiniteSet(seen) /\ NoFoldClash(files)
      /\ \A p \in seen : IsFile(files[p])
  BY <1>1, ServedIsUnpacked
<1>3. Cardinality(Range(archive.index)) = Len(archive.index)
  BY <1>1, UnpackedEntries
<1> HIDE DEF read, served
<1>4. ManifestPath \in seen BY <1>1, ManifestIsNoDirectory
<1> HIDE DEF seen
<1>5. DOMAIN served = seen /\ \A p \in seen : served[p] = files[p] BY <1>2
<1>6. Readable(served, served[ManifestPath].manifest.id)
  <2>1. \A p \in DOMAIN served : IsFile(served[p]) BY <1>2, <1>5
  <2>2. ValidatePackage(served) = {} BY DEF Accepts, served
  <2> QED BY <1>2, <1>5, <2>1, <2>2, AcceptedIsReadable
<1>7. Readable(served, Slug(archive)) BY <1>1, <1>4, <1>5, <1>6
<1> QED BY <1>1, <1>2, <1>3, <1>7 DEF IsPublished, read, served, seen

(* unpackZip gives back the files that packZip was given, so does the      *)
(* server's reader, and publish finds the manifest's id.                   *)
THEOREM PackedReads ==
    ASSUME NEW files, IsFolder(files), ValidatePackage(files) = {}, NoFoldClash(files)
    PROVE  /\ UnpackZip(PackZip(files)) = [failure |-> Unset, files |-> files]
           /\ ServerFiles(PackZip(files)) = files
           /\ Slug(PackZip(files)) = files[ManifestPath].manifest.id
           /\ files[ManifestPath].manifest.id \in Slugs
<1> DEFINE n == Cardinality(DOMAIN files)
           order == Order(files)
           archive == PackZip(files)
           read == ReadEntries(archive)
<1>1. /\ n \in Nat /\ Len(archive.entries) = n /\ Len(archive.index) = n
      /\ archive.entries \in Seq(Range(archive.entries))
      /\ archive.index \in Seq(Range(archive.index))
      /\ DOMAIN archive.entries = 1 .. n
      /\ \A i \in 1 .. n :
            /\ order[i] \in DOMAIN files
            /\ archive.entries[i] = [name |-> order[i], claim |-> files[order[i]].size,
                 sound |-> TRUE, content |-> files[order[i]]]
  BY PackedEntries
<1>2. {order[i] : i \in 1 .. n} = DOMAIN files
  <2>1. \A p \in DOMAIN files : \E i \in 1 .. n : order[i] = p BY OrderOf DEF IsFolder
  <2>2. \A i \in 1 .. n : order[i] \in DOMAIN files BY <1>1
  <2> HIDE DEF order, n
  <2> QED BY <2>1, <2>2
<1>3. ReadBack(files, read, n)
  <2>1. n \in 0 .. n /\ read = Readings(archive)[n] BY <1>1 DEF ReadEntries
  <2> QED BY <2>1, PackedIsReadBack
<1>4. files = [p \in DOMAIN files |-> files[p]] BY DEF IsFolder
<1>5. read.failure = Unset /\ read.dropped = 0 /\ read.files = files
  BY <1>2, <1>3, <1>4 DEF ReadBack
<1>6. UnpackZip(archive) = [failure |-> Unset, files |-> files]
  <2>1. Cardinality(DOMAIN read.files) + read.dropped = Len(archive.index)
    BY <1>1, <1>5
  <2> HIDE DEF read, archive, n
  <2>2. UnpackZip(archive) =
          [failure |-> IF read.failure # Unset THEN read.failure
                       ELSE IF Cardinality(DOMAIN read.files) + read.dropped # Len(archive.index)
                       THEN "MALFORMED" ELSE Unset,
           files |-> read.files]
    BY DEF UnpackZip, read
  <2> QED BY <1>5, <2>1, <2>2
<1>7. IsArchive(archive)
  <2>1. \A i \in 1 .. n : IsFile(archive.entries[i].content)
    <3> SUFFICES ASSUME NEW i \in 1 .. n PROVE IsFile(archive.entries[i].content) OBVIOUS
    <3>1. /\ order[i] \in DOMAIN files
          /\ archive.entries[i] = [name |-> order[i], claim |-> files[order[i]].size,
               sound |-> TRUE, content |-> files[order[i]]]
      BY <1>1
    <3> HIDE DEF order, archive
    <3>2. archive.entries[i].content = files[order[i]] BY <3>1
    <3> QED BY <3>1, <3>2 DEF IsFolder
  <2> QED BY <1>1, <2>1 DEF IsArchive
<1> HIDE DEF archive, read
<1>8. ServerFiles(archive) = files
  <2> DEFINE seen == {p \in DOMAIN files : ~IsDirectory(p)}
  <2>1. ServerFiles(archive) = [p \in seen |-> files[p]]
    <3>1. UnpackZip(archive).failure = Unset /\ UnpackZip(archive).files = files BY <1>6
    <3> QED BY <1>7, <3>1, ServedIsUnpacked
  <2>2. seen = DOMAIN files BY DEF IsFolder
  <2> QED BY <1>4, <2>1, <2>2
<1> DEFINE manifest == files[ManifestPath].manifest
<1>9. ManifestPath \in DOMAIN files /\ manifest # Unset /\ manifest.flaws = {}
  <2>1. ManifestPath \in DOMAIN files /\ manifest # Unset /\ ManifestFindings(manifest) = {}
    BY NoFindings
  <2> QED BY <2>1 DEF ManifestFindings
<1>10. manifest.id \in Slugs BY <1>9 DEF IsFolder, IsFile
<1>11. Slug(archive) = manifest.id
  <2>1. UnpackZip(archive).failure = Unset /\ UnpackZip(archive).files = files BY <1>6
  <2>2. Slug(archive) = IF manifest = Unset \/ manifest.flaws # {} THEN Unset ELSE manifest.id
    BY <1>9, <2>1 DEF Slug
  <2> QED BY <1>9, <2>2
<1> QED BY <1>6, <1>8, <1>10, <1>11 DEF archive

-----------------------------------------------------------------------------
(* What the tool and the server hold: folders, archives, a zip that is the *)
(* one pack wrote as long as it says so, and merged directories that were  *)
(* inspected. What is published is what the rules let through.             *)
Inspected(id, entries) ==
    /\ IsFolder(entries) /\ Accepts(Walked(entries, Unset))
    /\ Walked(entries, Unset)[ManifestPath].manifest.id = id

PackageInv ==
    /\ IsFolder(folder)
    /\ zip # Unset => IsArchive(zip)
    /\ packed # Unset => /\ IsFolder(packed) /\ ValidatePackage(packed) = {} /\ ~Unpackable(packed)
                         /\ Out \notin DOMAIN packed /\ zip = PackZip(packed)
    /\ catalogue = [s \in Slugs |-> catalogue[s]]
    /\ PublishedIsReadable
    /\ \A id \in DOMAIN registry : \A rel \in PackageDirs(registry[id]) :
          Inspected(id, registry[id][rel])

LEMMA WalkedIsFolder ==
    ASSUME NEW entries, IsFolder(entries), NEW excluded
    PROVE  IsFolder(Walked(entries, excluded))
<1> DEFINE kept == {p \in DOMAIN entries : Range(p) \cap Hidden = {} /\ p # excluded}
           walked == Walked(entries, excluded)
<1>1. walked = [p \in kept |-> entries[p]] BY DEF Walked
<1>2. kept \in SUBSET DOMAIN entries OBVIOUS
<1> HIDE DEF kept, walked
<1>3. DOMAIN walked = kept /\ \A p \in kept : walked[p] = entries[p] BY <1>1
<1>4. IsFiniteSet(kept) BY <1>2, FS_Subset DEF IsFolder
<1>5. \A p \in kept : ~IsDirectory(p) /\ IsFile(walked[p]) BY <1>2, <1>3 DEF IsFolder
<1>6. walked = [p \in DOMAIN walked |-> walked[p]] BY <1>1, <1>3
<1> QED BY <1>3, <1>4, <1>5, <1>6 DEF IsFolder, walked

LEMMA PutIsFolder ==
    ASSUME NEW entries, IsFolder(entries), NEW file, IsFile(file)
    PROVE  IsFolder(Put(entries, Out, file))
<1> DEFINE new == Put(entries, Out, file)
<1>1. new = [p \in DOMAIN entries \cup {Out} |-> IF p = Out THEN file ELSE entries[p]]
  BY DEF Put
<1>2. ~IsDirectory(Out)
  <2>1. Len(Out) = 1 /\ Out[1] = "out.zip" BY DEF Out
  <2> QED BY <2>1 DEF IsDirectory
<1> HIDE DEF new
<1>3. DOMAIN new = DOMAIN entries \cup {Out} BY <1>1
<1>4. IsFiniteSet(DOMAIN entries \cup {Out}) BY FS_AddElement DEF IsFolder
<1>5. \A p \in DOMAIN new : ~IsDirectory(p) /\ IsFile(new[p])
  BY <1>1, <1>2, <1>3 DEF IsFolder
<1>6. new = [p \in DOMAIN new |-> new[p]] BY <1>1, <1>3
<1> QED BY <1>3, <1>4, <1>5, <1>6 DEF IsFolder, new

LEMMA PackedIsArchive ==
    ASSUME NEW files, IsFolder(files)
    PROVE  IsArchive(PackZip(files))
<1> DEFINE n == Cardinality(DOMAIN files)
           archive == PackZip(files)
<1>1. /\ archive.entries \in Seq(Range(archive.entries))
      /\ archive.index \in Seq(Range(archive.index))
      /\ DOMAIN archive.entries = 1 .. n
      /\ \A i \in 1 .. n :
            /\ Order(files)[i] \in DOMAIN files
            /\ archive.entries[i] = [name |-> Order(files)[i], claim |-> files[Order(files)[i]].size,
                 sound |-> TRUE, content |-> files[Order(files)[i]]]
  BY PackedEntries
<1> HIDE DEF archive, n
<1>2. \A i \in 1 .. n : IsFile(archive.entries[i].content)
  <2> SUFFICES ASSUME NEW i \in 1 .. n PROVE IsFile(archive.entries[i].content) OBVIOUS
  <2> DEFINE p == Order(files)[i]
  <2>1. /\ p \in DOMAIN files
        /\ archive.entries[i] = [name |-> p, claim |-> files[p].size, sound |-> TRUE,
                                 content |-> files[p]]
    BY <1>1
  <2> HIDE DEF p
  <2>2. archive.entries[i].content = files[p] BY <2>1
  <2> QED BY <2>1, <2>2 DEF IsFolder
<1> QED BY <1>1, <1>2 DEF IsArchive, archive

LEMMA InitPackageInv == InitPackage => PackageInv
<1> SUFFICES ASSUME InitPackage PROVE PackageInv OBVIOUS
<1>1. IsFolder(folder) BY FilesAssumption DEF InitPackage
<1>2. \A s \in Slugs : catalogue[s] = Unset BY DEF InitPackage
<1>3. catalogue = [s \in Slugs |-> catalogue[s]] BY DEF InitPackage
<1>4. PublishedIsReadable BY <1>2 DEF PublishedIsReadable
<1>5. DOMAIN registry = {} BY DEF InitPackage
<1> QED BY <1>1, <1>3, <1>4, <1>5 DEF PackageInv, InitPackage

LEMMA NextPackageInv == PackageInv /\ [PackageNext]_packageVars => PackageInv'
<1> SUFFICES ASSUME PackageInv, [PackageNext]_packageVars PROVE PackageInv' OBVIOUS
<1>1. ASSUME UNCHANGED <<catalogue>> PROVE (catalogue = [s \in Slugs |-> catalogue[s]])' /\ PublishedIsReadable'
  BY <1>1 DEF PackageInv, PublishedIsReadable
<1>2. ASSUME UNCHANGED <<registry>>
      PROVE  \A id \in DOMAIN registry' : \A rel \in PackageDirs(registry'[id]) :
                Inspected(id, registry'[id][rel])
  BY <1>2 DEF PackageInv
<1>3. ASSUME NEW entries \in Folders, Edit(entries) PROVE PackageInv'
  <2>1. UNCHANGED <<catalogue>> /\ UNCHANGED <<registry>> /\ UNCHANGED <<zip, packed>>
    BY <1>3 DEF Edit
  <2>2. IsFolder(folder')
    <3>1. IsFolder(entries) BY FilesAssumption
    <3>2. CASE Out \in DOMAIN folder
      <4>1. folder' = Put(entries, Out, folder[Out]) BY <1>3, <3>2 DEF Edit
      <4>2. IsFile(folder[Out]) BY <3>2 DEF PackageInv, IsFolder
      <4> QED BY <3>1, <4>1, <4>2, PutIsFolder
    <3>3. CASE Out \notin DOMAIN folder
      <4>1. folder' = entries BY <1>3, <3>3 DEF Edit
      <4> QED BY <3>1, <4>1
    <3> QED BY <3>2, <3>3
  <2> QED BY <1>1, <1>2, <2>1, <2>2 DEF PackageInv
<1>4. ASSUME Pack PROVE PackageInv'
  <2> DEFINE files == FilesOf(folder)
  <2>1. /\ UNCHANGED <<catalogue>> /\ UNCHANGED <<registry>>
        /\ zip' = PackZip(files) /\ packed' = files /\ folder' = Put(folder, Out, ZipFile)
        /\ Accepts(files)
    BY <1>4 DEF Pack
  <2>2. IsFolder(folder) BY DEF PackageInv
  <2>3. IsFile(ZipFile) BY DEF IsFile, ZipFile
  <2>4. IsFolder(folder') BY <2>1, <2>2, <2>3, PutIsFolder
  <2>5. IsFolder(files) /\ Out \notin DOMAIN files
    <3>1. files = Walked(folder, Out) BY DEF FilesOf
    <3>2. Out \notin DOMAIN files BY <3>1 DEF Walked
    <3> HIDE DEF files
    <3> QED BY <2>2, <3>1, <3>2, WalkedIsFolder
  <2> HIDE DEF files
  <2>6. IsArchive(zip') BY <2>1, <2>5, PackedIsArchive
  <2>7. /\ IsFolder(packed') /\ ValidatePackage(packed') = {} /\ ~Unpackable(packed')
        /\ Out \notin DOMAIN packed' /\ zip' = PackZip(packed')
    BY <2>1, <2>5 DEF Accepts
  <2>8. PublishedIsReadable' /\ (catalogue = [s \in Slugs |-> catalogue[s]])' BY <1>1, <2>1
  <2> QED BY <1>2, <2>1, <2>4, <2>6, <2>7, <2>8 DEF PackageInv
<1>5. ASSUME NEW archive \in Archives, ZipElsewhere(archive) PROVE PackageInv'
  <2>1. /\ UNCHANGED <<catalogue>> /\ UNCHANGED <<registry>> /\ folder' = folder
        /\ zip' = archive /\ packed' = Unset
    BY <1>5 DEF ZipElsewhere
  <2>2. IsArchive(zip') /\ IsFolder(folder') BY <2>1, FilesAssumption DEF PackageInv
  <2> QED BY <1>1, <1>2, <2>1, <2>2 DEF PackageInv
<1>6. ASSUME PublishZip PROVE PackageInv'
  <2>1. /\ UNCHANGED <<registry>> /\ UNCHANGED <<folder, zip, packed>>
        /\ zip # Unset /\ Slug(zip) # Unset /\ Accepts(ServerFiles(zip))
        /\ catalogue' = [catalogue EXCEPT ![Slug(zip)] = zip]
    BY <1>6 DEF PublishZip
  <2>2. IsPublished(zip, Slug(zip)) BY <2>1, PublishedReads DEF PackageInv
  <2>3. catalogue = [s \in Slugs |-> catalogue[s]] BY DEF PackageInv
  <2>4. DOMAIN catalogue = Slugs BY <2>3
  <2>5. /\ catalogue' = [s \in Slugs |-> catalogue'[s]]
        /\ \A s \in Slugs : catalogue'[s] = IF s = Slug(zip) THEN zip ELSE catalogue[s]
    BY <2>1, <2>4
  <2>6. \A s \in Slugs : catalogue'[s] # Unset => IsPublished(catalogue'[s], s)
    <3> SUFFICES ASSUME NEW s \in Slugs, catalogue'[s] # Unset
                 PROVE  IsPublished(catalogue'[s], s)
      OBVIOUS
    <3>1. CASE s = Slug(zip)
      <4>1. catalogue'[s] = zip BY <2>5, <3>1
      <4> QED BY <2>2, <3>1, <4>1
    <3>2. CASE s # Slug(zip)
      <4>1. catalogue'[s] = catalogue[s] BY <2>5, <3>2
      <4> QED BY <4>1 DEF PackageInv, PublishedIsReadable
    <3> QED BY <3>1, <3>2
  <2>7. PublishedIsReadable' BY <2>6 DEF PublishedIsReadable
  <2> QED BY <1>2, <2>1, <2>5, <2>7 DEF PackageInv
<1>7. ASSUME NEW id \in Slugs, NEW rel \in Versions \cup {"."},
             Merge([s \in {id} |-> [r \in {rel} |-> folder]])
      PROVE  PackageInv'
  <2> DEFINE course == [r \in {rel} |-> folder]
             changed == [s \in {id} |-> course]
  <2>1. /\ UNCHANGED <<catalogue>> /\ UNCHANGED <<folder, zip, packed>>
        /\ \A s \in DOMAIN changed : InspectCourse(s, changed[s])
        /\ registry' = [s \in DOMAIN changed \cup DOMAIN registry |->
                          IF s \in DOMAIN changed THEN changed[s] ELSE registry[s]]
    BY <1>7 DEF Merge
  <2>2. DOMAIN changed = {id} /\ changed[id] = course OBVIOUS
  <2>3. InspectCourse(id, course) BY <2>1, <2>2
  <2>4. \A r \in PackageDirs(course) : course[r] = folder BY DEF PackageDirs
  <2> HIDE DEF course
  <2>5. \A r \in PackageDirs(course) : Inspected(id, course[r])
    <3> SUFFICES ASSUME NEW r \in PackageDirs(course) PROVE Inspected(id, course[r]) OBVIOUS
    <3>1. /\ Accepts(Walked(course[r], Unset))
          /\ Walked(course[r], Unset)[ManifestPath].manifest.id = id
      BY <2>3 DEF InspectCourse
    <3>2. IsFolder(course[r]) BY <2>4 DEF PackageInv
    <3> QED BY <3>1, <3>2 DEF Inspected
  <2> HIDE DEF changed
  <2>6. \A s \in DOMAIN registry' : \A r \in PackageDirs(registry'[s]) :
            Inspected(s, registry'[s][r])
    <3> SUFFICES ASSUME NEW s \in DOMAIN registry', NEW r \in PackageDirs(registry'[s])
                 PROVE  Inspected(s, registry'[s][r])
      OBVIOUS
    <3>1. CASE s = id
      <4>1. registry'[s] = course BY <2>1, <2>2, <3>1
      <4> QED BY <2>5, <3>1, <4>1
    <3>2. CASE s # id
      <4>1. s \in DOMAIN registry /\ registry'[s] = registry[s] BY <2>1, <2>2, <3>2
      <4> QED BY <4>1 DEF PackageInv
    <3> QED BY <3>1, <3>2
  <2> QED BY <1>1, <2>1, <2>6 DEF PackageInv
<1>8. CASE UNCHANGED packageVars
  <2>1. UNCHANGED <<catalogue>> /\ UNCHANGED <<registry>> /\ UNCHANGED <<folder, zip, packed>>
    BY <1>8 DEF packageVars
  <2> QED BY <1>1, <1>2, <2>1 DEF PackageInv
<1> QED BY <1>3, <1>4, <1>5, <1>6, <1>7, <1>8 DEF PackageNext

LEMMA PackageInvImplies == PackageInv => PackagesHold
<1> SUFFICES ASSUME PackageInv PROVE PackedIsPublishable
  BY DEF PackageInv, PackagesHold
<1>1. ASSUME packed # Unset, NoFoldClash(packed)
      PROVE  /\ UnpackZip(zip) = [failure |-> Unset, files |-> packed]
             /\ Slug(zip) # Unset /\ Accepts(ServerFiles(zip))
  <2>1. /\ IsFolder(packed) /\ ValidatePackage(packed) = {} /\ ~Unpackable(packed)
        /\ zip = PackZip(packed)
    BY <1>1 DEF PackageInv
  <2>2. /\ UnpackZip(zip) = [failure |-> Unset, files |-> packed]
        /\ ServerFiles(zip) = packed /\ Slug(zip) \in Slugs
    BY <1>1, <2>1, PackedReads
  <2>3. Accepts(ServerFiles(zip)) BY <2>1, <2>2 DEF Accepts
  <2> QED BY <2>2, <2>3, UnsetAssumption
<1>2. packed # Unset => Out \notin DOMAIN packed BY DEF PackageInv
<1>3. ASSUME NEW id \in DOMAIN registry, NEW rel \in PackageDirs(registry[id]),
             NoFoldClash(Walked(registry[id][rel], Unset))
      PROVE  /\ Accepts(Walked(registry[id][rel], Unset))
             /\ Slug(PackZip(Walked(registry[id][rel], Unset))) = id
  <2> DEFINE files == Walked(registry[id][rel], Unset)
  <2>1. Inspected(id, registry[id][rel]) BY DEF PackageInv
  <2>2. IsFolder(files) BY <2>1, WalkedIsFolder DEF Inspected
  <2>3. Accepts(files) /\ files[ManifestPath].manifest.id = id BY <2>1 DEF Inspected
  <2> HIDE DEF files
  <2>4. Slug(PackZip(files)) = id
    <3>1. ValidatePackage(files) = {} /\ NoFoldClash(files) BY <1>3, <2>3 DEF Accepts, files
    <3> QED BY <2>2, <2>3, <3>1, PackedReads
  <2> QED BY <2>3, <2>4 DEF files
<1> QED BY <1>1, <1>2, <1>3 DEF PackedIsPublishable

(* In every state, what is published can be read and what is packed can be *)
(* published.                                                              *)
THEOREM PackagesAlwaysHold == PackageSpec => []PackagesHold
<1>1. PackageInv => PackagesHold BY PackageInvImplies
<1> QED BY InitPackageInv, NextPackageInv, <1>1, PTL DEF PackageSpec

=============================================================================
