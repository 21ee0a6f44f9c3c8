----------------------------- MODULE AudioProofs -----------------------------
(***************************************************************************)
(* What holds of the sound service for every set of files, formats and     *)
(* bounds, every number of workers and every size of the ring.  Two works  *)
(* that overlap may close the handle of each other; what is said of the    *)
(* handle and of the copies therefore ends with the first overlap.         *)
(***************************************************************************)
EXTENDS Audio, TLAPS, FiniteSetTheorems, WellFoundedInduction

\* No worker but t executes a work.
Only(t) == \A s \in Workers : pc[s] # "idle" => s = t

-----------------------------------------------------------------------------
(***************************************************************************)
(* The inductive invariant, by parts.                                      *)
(***************************************************************************)

Labels ==
  {"idle", "parse", "init", "open", "opening", "config", "close", "validate", "reinit",
   "reinit_close", "reinit_set", "reopen", "reopening", "reconfig", "reclose",
   "size", "prepare", "wait", "write", "start", "release", "release_close",
   "release_set"}

MgrType ==
  /\ DOMAIN mgr = {"pcm", "device_name", "fmt", "frame_size"}
  /\ mgr.pcm \in Handles \cup {NULL}
  /\ task \in [Workers -> {"none", "init", "play", "release"}]
  /\ handle \in [Handles -> {"unused", "open", "closed"}]
  /\ pc \in [Workers -> Labels]
  /\ mapped \in [Workers -> BOOLEAN]
  /\ calls \in [init : Nat, play : Nat, release : Nat]
  /\ overlaps \in Nat

\* Between the close of the handle and its removal from mgr->pcm.
Dead == {"close", "reclose", "reinit_set", "release_set"}

\* For the worker that executes a work: mgr->pcm is NULL or open but right
\* after a close; it is NULL where a handle is about to be opened, and open
\* where ALSA is called without a test.
HandleInv(t) ==
  /\ pc[t] \in {"open", "opening", "reopen", "reopening"} => mgr.pcm = NULL
  /\ pc[t] \in {"config", "reconfig", "wait", "write", "start"} => mgr.pcm \in Open
  /\ pc[t] \in Dead => mgr.pcm \notin Open
  /\ pc[t] \notin Dead => mgr.pcm \in Open \cup {NULL}

MapInv == \A t \in Workers : (pc[t] \in Unmapped) <=> ~mapped[t]

\* Open handles that mgr->pcm does not point to, or will not once the memset of
\* audio_mgr_init is done, which is why that point needs a bound of its own.
Forgotten(t) == IF pc[t] = "init" THEN Open ELSE Open \ {mgr.pcm}

\* No handle is opened before the first init, and each further one forgets
\* one at most.
Opening == {"init", "open", "opening", "reinit", "reinit_close", "reinit_set",
            "reopen", "reopening"}

LeakInv(t) ==
  /\ calls.init = 0 => ~mgr.device_name /\ Open = {}
  /\ pc[t] \in Opening => calls.init > 0
  /\ Cardinality(Forgotten(t)) <= Max({calls.init, 1}) - 1

\* A mapping holds all of its PCM data, unless a size has wrapped.
Wavs ==
  {wav \in [fmt : Formats, data : Nat, data_size : Nat, end : Nat,
            wraps : BOOLEAN] :
     ~wav.wraps => wav.data + wav.data_size <= wav.end}

Locals ==
  [frame_size : Nat, total : Nat, done : Nat, to_do : Nat, left : Nat,
   sret : Nat, started : BOOLEAN, upset : BOOLEAN]

CopyType ==
  /\ mgr.fmt \in Formats /\ mgr.frame_size \in Nat
  /\ file \in [Workers -> Wavs]
  /\ local \in [Workers -> Locals]
  /\ DOMAIN ring = {"state", "fill"} /\ ring.fill \in Nat

\* The frames of a handle that is configured have the size the manager keeps.
AlignInv(t) ==
  mgr.pcm \in Open /\ pc[t] \notin {"config", "reconfig"}
    => mgr.frame_size = BlockAlign(mgr.fmt)

Playing == {"prepare", "wait", "write", "start"}

\* The frames counted lie inside the PCM data, and sret stands behind those
\* that were copied.
CopiesInside(t) ==
  LET l == local[t] IN
  /\ pc[t] \notin Playing => l.done = 0 /\ l.to_do = 0
  /\ pc[t] \in Playing =>
       /\ l.frame_size = mgr.frame_size
       /\ l.total * l.frame_size <= file[t].data_size
       /\ l.done + l.to_do <= l.total
  /\ pc[t] = "write" =>
       /\ l.left <= l.to_do
       /\ l.sret = file[t].data + (l.done + l.to_do - l.left) * l.frame_size

\* Only sizes that wrap have led a read outside.
Clean == \A o \in overread : o.wraps

\* No work has begun while another was executed.
Sequential ==
  /\ ~crashed /\ Clean /\ CopyType
  /\ \E t \in Workers : Only(t)
  /\ \A t \in Workers :
       /\ CopiesInside(t)
       /\ Only(t) => HandleInv(t) /\ LeakInv(t) /\ AlignInv(t)

\* The parser has read outside only where a size wraps.
ParserInv == \A o \in overread : o.by = "copy" \/ o.wraps

AudioInv ==
  /\ MgrType /\ MapInv /\ ParserInv
  /\ ~Overlapped => Sequential

\* A step of a worker.
Acts(t) == MapFile(t) \/ BeginRelease(t) \/ Manager(t) \/ Playback(t)

-----------------------------------------------------------------------------
(***************************************************************************)
(* The parser, for every file. A set of naturals with 0 and the successor *)
(* of each of its members has them all, since < is well founded.           *)
(***************************************************************************)
LEMMA NatLess == \A m, n \in Nat : <<m, n>> \in OpToRel(<, Nat) <=> m < n
BY DEF OpToRel

LEMMA SetInduction ==
  ASSUME NEW S, 0 \in S, \A n \in Nat : n \in S => n + 1 \in S
  PROVE  Nat \subseteq S
<1> DEFINE T == Nat \ S
<1> SUFFICES ASSUME T # {}
             PROVE  FALSE
  OBVIOUS
<1>1. PICK n \in T : \A m \in T : ~(<<m, n>> \in OpToRel(<, Nat))
  <2>1. T \subseteq Nat
    OBVIOUS
  <2> HIDE DEF T
  <2> QED BY <2>1, WFMin, NatLessThanWellFounded, Zenon
<1>2. \A m \in T : ~(m < n)
  <2>1. T \subseteq Nat
    OBVIOUS
  <2> HIDE DEF T
  <2> QED BY <1>1, <2>1, NatLess, Zenon
<1>3. n - 1 \in Nat /\ n - 1 < n /\ (n - 1) + 1 = n
  OBVIOUS
<1>4. n - 1 \in S
  BY <1>2, <1>3
<1> QED BY <1>3, <1>4

Scanned(f, n, g) ==
  g = [k \in 0 .. n |->
         IF k = 0 THEN ScanStart(f) ELSE Visit(f, g[k - 1], f.chunks[k])]

\* The recursive definition of Scans has a solution.
LEMMA ScanDefined ==
  ASSUME NEW f, NEW N \in Nat
  PROVE  \E g : Scanned(f, N, g)
<1> DEFINE S == {n \in Nat : \E g : Scanned(f, n, g)}
<1>1. 0 \in S
  <2> DEFINE g == [k \in 0 .. 0 |-> ScanStart(f)]
  <2>1. Scanned(f, 0, g)
    BY DEF Scanned
  <2> QED BY <2>1
<1>2. ASSUME NEW n \in Nat, n \in S
      PROVE  n + 1 \in S
  <2>1. PICK g : Scanned(f, n, g)
    BY <1>2
  <2> DEFINE next == Visit(f, g[n], f.chunks[n + 1])
             h == [k \in 0 .. n + 1 |-> IF k <= n THEN g[k] ELSE next]
             e(k) == IF k = 0 THEN ScanStart(f)
                     ELSE Visit(f, h[k - 1], f.chunks[k])
  <2>2. ASSUME NEW k \in 0 .. n + 1
        PROVE  h[k] = e(k)
    <3>1. CASE k = n + 1
      <4>1. h[k] = next /\ k # 0 /\ h[k - 1] = g[n]
        BY <3>1
      <4> HIDE DEF h
      <4> QED BY <3>1, <4>1
    <3>2. CASE k \in 0 .. n
      <4>1. /\ h[k] = g[k]
            /\ k # 0 => k - 1 \in 0 .. n + 1 /\ h[k - 1] = g[k - 1]
        BY <3>2
      <4>2. g[k] = IF k = 0 THEN ScanStart(f)
                   ELSE Visit(f, g[k - 1], f.chunks[k])
        BY <2>1, <3>2 DEF Scanned
      <4> HIDE DEF h
      <4> QED BY <4>1, <4>2
    <3> QED BY <3>1, <3>2
  <2>3. h = [k \in 0 .. n + 1 |-> h[k]]
    OBVIOUS
  <2> HIDE DEF h
  <2>4. h = [k \in 0 .. n + 1 |-> e(k)]
    BY <2>2, <2>3
  <2> QED BY <2>4 DEF Scanned
<1> HIDE DEF S
<1>3. Nat \subseteq S
  BY <1>1, <1>2, SetInduction
<1> QED BY <1>3 DEF S

\* What the parser has found is inside of the file, unless a size has wrapped.
Pieces == [at : Nat, size : Nat]

ScanType ==
  [at : Nat, fmt : {<<>>} \cup {<<fmt>> : fmt \in Formats},
   data : {<<>>} \cup {<<d>> : d \in Pieces}, bad : BOOLEAN,
   outside : BOOLEAN, wraps : BOOLEAN]

Inside(f, scan) ==
  /\ ~scan.outside /\ scan.at >= Base
  /\ \A d \in Pieces : scan.data = <<d>> => d.at + d.size <= End(f)

ScansInside(f) == {scan \in ScanType : ~scan.wraps => Inside(f, scan)}

\* A size wraps only where the addresses do not reach a Word past the file.
Roomy(f) == End(f) + Word <= Space

LEMMA FmtReadsInside ==
  ASSUME NEW chunk \in Chunks
  PROVE  FmtRead(chunk) \in Nat /\ FmtRead(chunk) <= chunk.size
BY WavAssumption DEF FmtRead, Chunks

LEMMA ChunkSize ==
  ASSUME NEW chunk \in Chunks
  PROVE  chunk.size \in Nat /\ chunk.size < Word /\ chunk.size % 2 \in {0, 1}
<1>1. chunk.size \in Nat /\ chunk.size < Word
  BY WavAssumption DEF Chunks
<1> QED BY <1>1

LEMMA GoodFmtIsFormat ==
  ASSUME NEW chunk \in Chunks, chunk.id = "fmt", GoodFmt(chunk)
  PROVE  FmtOf(chunk) \in Formats
<1>1. chunk.channels \in Nat /\ chunk.rate \in Nat
  BY DEF Chunks
<1>2. chunk.bits \in {8, 16, 24, 32}
  BY DEF GoodFmt, BitsToSndFmt
<1>3. BitsToSndFmt[chunk.bits] \in Nat
  BY <1>2 DEF BitsToSndFmt
<1> QED BY <1>1, <1>3 DEF FmtOf, Formats

\* The sum of an address and a size, below Space or not.
LEMMA SumOfTwo ==
  ASSUME NEW a \in Nat, NEW n \in Nat
  PROVE  /\ Sum(a, n) \in Nat
         /\ a + n < Space => Sum(a, n) = a + n
BY WavAssumption DEF Sum

LEMMA ReadKeeps ==
  ASSUME NEW f, f.size \in Nat, NEW scan \in ScanType, NEW n \in Nat
  PROVE  /\ Read(f, scan, n) \in ScanType
         /\ Read(f, scan, n).at = scan.at /\ Read(f, scan, n).data = scan.data
         /\ Read(f, scan, n).wraps = scan.wraps
         /\ (scan.at >= Base /\ scan.at + 8 + n <= End(f))
              => Read(f, scan, n).outside = scan.outside
<1> DEFINE outside == scan.outside \/ scan.at < Base \/ scan.at + 8 + n > End(f)
<1>1. Read(f, scan, n) = [scan EXCEPT !.outside = outside]
  BY DEF Read
<1>2. (scan.at >= Base /\ scan.at + 8 + n <= End(f)) => outside = scan.outside
  <2>1. Base \in Nat /\ scan.at \in Nat /\ End(f) \in Nat /\ scan.outside \in BOOLEAN
    BY WavAssumption DEF ScanType, End
  <2> QED BY <2>1
<1>3. outside \in BOOLEAN
  BY DEF ScanType
<1> HIDE DEF outside
<1> QED BY <1>1, <1>2, <1>3 DEF ScanType

\* What a chunk leaves of the scan: what is read of it lies inside of its
\* payload, and what is found is its payload.
LEMMA TakeKeeps ==
  ASSUME NEW f, f.size \in Nat, NEW scan \in ScanType, NEW chunk \in Chunks
  PROVE  LET taken == Take(f, scan, chunk)
         IN /\ taken \in ScanType /\ taken.at = scan.at
            /\ taken.wraps = scan.wraps
            /\ \/ taken.data = scan.data
               \/ taken.data = <<[at |-> scan.at + 8, size |-> chunk.size]>>
            /\ (scan.at >= Base /\ scan.at + 8 + chunk.size <= End(f))
                 => taken.outside = scan.outside
<1> DEFINE taken == Take(f, scan, chunk)
           Room(n) == scan.at >= Base /\ scan.at + 8 + n <= End(f)
<1>0. /\ scan.at \in Nat /\ chunk.size \in Nat /\ Base \in Nat /\ End(f) \in Nat
      /\ scan.outside \in BOOLEAN
  BY WavAssumption, ChunkSize DEF ScanType, End
<1>1. CASE chunk.id = "fmt"
  <2> DEFINE seen == Read(f, scan, FmtRead(chunk))
  <2>1. taken = TakeFmt(seen, chunk)
    BY <1>1 DEF Take
  <2>2. /\ seen \in ScanType /\ seen.at = scan.at /\ seen.wraps = scan.wraps
        /\ seen.data = scan.data
        /\ Room(chunk.size) => seen.outside = scan.outside
    <3>1. FmtRead(chunk) \in Nat /\ (Room(chunk.size) => Room(FmtRead(chunk)))
      BY <1>0, FmtReadsInside
    <3>2. /\ seen \in ScanType /\ seen.at = scan.at /\ seen.wraps = scan.wraps
          /\ seen.data = scan.data
          /\ Room(FmtRead(chunk)) => seen.outside = scan.outside
      BY <3>1, ReadKeeps
    <3> QED BY <3>1, <3>2
  <2> HIDE DEF seen, taken, Room
  <2>3. CASE GoodFmt(chunk)
    <3>1. FmtOf(chunk) \in Formats
      BY <1>1, <2>3, GoodFmtIsFormat
    <3>2. taken = [seen EXCEPT !.fmt = <<FmtOf(chunk)>>]
      BY <2>1, <2>3 DEF TakeFmt
    <3>3. taken \in ScanType
      BY <2>2, <3>1, <3>2 DEF ScanType
    <3> QED BY <2>2, <3>2, <3>3 DEF ScanType, Room, taken
  <2>4. CASE ~GoodFmt(chunk)
    <3>2. taken = [seen EXCEPT !.bad = TRUE]
      BY <2>1, <2>4 DEF TakeFmt
    <3> QED BY <2>2, <3>2 DEF ScanType, Room, taken
  <2> QED BY <2>3, <2>4
<1>2. CASE chunk.id = "data"
  <2> DEFINE seen == Read(f, scan, 0)
             d == [at |-> scan.at + 8, size |-> chunk.size]
  <2>1. taken = [seen EXCEPT !.data = <<[at |-> seen.at + 8, size |-> chunk.size]>>]
    BY <1>2 DEF Take, TakeData
  <2>2. /\ seen \in ScanType /\ seen.at = scan.at /\ seen.wraps = scan.wraps
        /\ Room(0) => seen.outside = scan.outside
    BY 0 \in Nat, ReadKeeps
  <2>3. d \in Pieces
    BY <1>0 DEF Pieces
  <2>4. Room(chunk.size) => Room(0)
    BY <1>0
  <2> HIDE DEF seen, d, Room, taken
  <2>5. taken = [seen EXCEPT !.data = <<d>>]
    BY <2>1, <2>2 DEF d
  <2>6. taken \in ScanType
    BY <2>2, <2>3, <2>5 DEF ScanType
  <2>7. /\ taken.at = scan.at /\ taken.wraps = scan.wraps /\ taken.data = <<d>>
        /\ Room(0) => taken.outside = scan.outside
    BY <2>2, <2>5 DEF ScanType
  <2> QED BY <2>4, <2>6, <2>7 DEF d, Room, taken
<1>3. CASE chunk.id \notin {"fmt", "data"}
  <2>1. taken = Read(f, scan, 0)
    BY <1>3 DEF Take
  <2> HIDE DEF taken
  <2>2. /\ taken \in ScanType /\ taken.at = scan.at /\ taken.wraps = scan.wraps
        /\ taken.data = scan.data
        /\ Room(0) => taken.outside = scan.outside
    <3> HIDE DEF Room
    <3>1. /\ Read(f, scan, 0) \in ScanType /\ Read(f, scan, 0).at = scan.at
          /\ Read(f, scan, 0).wraps = scan.wraps
          /\ Read(f, scan, 0).data = scan.data
          /\ Room(0) => Read(f, scan, 0).outside = scan.outside
      BY 0 \in Nat, ReadKeeps DEF Room
    <3> QED BY <2>1, <3>1
  <2> QED BY <1>0, <2>2 DEF taken
<1> QED BY <1>1, <1>2, <1>3

\* A turn of the parser that goes on.
LEMMA TurnStaysInside ==
  ASSUME NEW f, f.size \in Nat, NEW scan \in ScansInside(f),
         NEW chunk \in Chunks, ~Ended(f, scan), Fits(f, scan.at, chunk),
         End(f) < Space
  PROVE  LET next == Visit(f, scan, chunk)
         IN /\ next \in ScansInside(f)
            /\ ~next.wraps => ~scan.wraps /\ scan.at < next.at
            /\ Roomy(f) /\ ~scan.wraps => ~next.wraps
<1> DEFINE next == Visit(f, scan, chunk)
           taken == Take(f, scan, chunk)
           wraps == taken.wraps \/ scan.at + 8 + chunk.size >= Space
           at == PayloadEnd(scan.at, chunk) + (chunk.size % 2)
<1>0. /\ scan \in ScanType /\ scan.at \in Nat /\ chunk.size \in Nat
      /\ chunk.size < Word /\ chunk.size % 2 \in {0, 1}
      /\ Base \in Nat /\ Space \in Nat /\ Word \in Nat /\ End(f) \in Nat
      /\ scan.outside \in BOOLEAN /\ scan.wraps \in BOOLEAN
  BY WavAssumption, ChunkSize DEF ScansInside, ScanType, End
<1>1. next = [taken EXCEPT !.at = at, !.wraps = wraps]
  <2>1. taken.at = scan.at
    BY <1>0, TakeKeeps
  <2>2. next = Skip(taken, chunk)
    BY DEF Visit
  <2> HIDE DEF taken, next
  <2> QED BY <2>1, <2>2 DEF Skip
<1>2. /\ taken \in ScanType /\ taken.wraps = scan.wraps
      /\ \/ taken.data = scan.data
         \/ taken.data = <<[at |-> scan.at + 8, size |-> chunk.size]>>
      /\ (scan.at >= Base /\ scan.at + 8 + chunk.size <= End(f))
            => taken.outside = scan.outside
  BY <1>0, TakeKeeps
<1> HIDE DEF taken, next
<1>3. /\ PayloadEnd(scan.at, chunk) \in Nat
      /\ scan.at + 8 + chunk.size < Space =>
           PayloadEnd(scan.at, chunk) = scan.at + 8 + chunk.size
  <2>1. scan.at + 8 \in Nat
    BY <1>0
  <2> QED BY <1>0, <2>1, SumOfTwo DEF PayloadEnd
<1>4. at \in Nat /\ wraps \in BOOLEAN
  BY <1>0, <1>2, <1>3
<1>5. /\ scan.at + 8 <= End(f) /\ PayloadEnd(scan.at, chunk) <= End(f)
  BY <1>0 DEF Ended, Fits
<1>6. ~wraps => /\ ~scan.wraps /\ scan.at < at
                /\ scan.at + 8 + chunk.size <= End(f)
                /\ at = scan.at + 8 + chunk.size + (chunk.size % 2)
  BY <1>0, <1>2, <1>3, <1>5
<1>7. Roomy(f) /\ ~scan.wraps => ~wraps
  BY <1>0, <1>2, <1>5 DEF Roomy
<1> HIDE DEF at, wraps
<1>8. /\ next \in ScanType /\ next.at = at /\ next.wraps = wraps
      /\ next.data = taken.data /\ next.outside = taken.outside
  BY <1>1, <1>2, <1>4 DEF ScanType
<1>9. ASSUME ~wraps
      PROVE  Inside(f, next)
  <2>1. Inside(f, scan)
    BY <1>6, <1>9 DEF ScansInside
  <2>2. ~next.outside /\ next.at >= Base
    BY <1>0, <1>2, <1>4, <1>6, <1>8, <1>9, <2>1 DEF Inside
  <2>3. ASSUME NEW d \in Pieces, next.data = <<d>>
        PROVE  d.at + d.size <= End(f)
    <3>1. CASE taken.data = scan.data
      BY <1>8, <2>1, <2>3, <3>1 DEF Inside
    <3>2. CASE taken.data = <<[at |-> scan.at + 8, size |-> chunk.size]>>
      <4> DEFINE p == [at |-> scan.at + 8, size |-> chunk.size]
      <4>1. p.at = scan.at + 8 /\ p.size = chunk.size
        OBVIOUS
      <4>2. <<d>> = <<p>>
        BY <1>8, <2>3, <3>2
      <4> HIDE DEF p
      <4>3. d = p
        BY <4>2
      <4> QED BY <1>0, <1>6, <1>9, <4>1, <4>3
    <3> QED BY <1>2, <3>1, <3>2
  <2> QED BY <2>2, <2>3 DEF Inside
<1> QED BY <1>6, <1>7, <1>8, <1>9 DEF ScansInside, next

LEMMA VisitStaysInside ==
  ASSUME NEW f, f.size \in Nat, NEW scan \in ScansInside(f),
         NEW chunk \in Chunks, End(f) < Space
  PROVE  LET next == Visit(f, scan, chunk)
         IN /\ next \in ScansInside(f)
            /\ Roomy(f) /\ ~scan.wraps => ~next.wraps
            /\ ~Ended(f, next) /\ ~next.wraps =>
                 ~Ended(f, scan) /\ ~scan.wraps /\ scan.at < next.at
<1> DEFINE next == Visit(f, scan, chunk)
<1>1. CASE Ended(f, scan)
  <2>1. next = scan
    BY <1>1 DEF Visit
  <2> QED BY <1>1, <2>1
<1>2. CASE ~Ended(f, scan) /\ ~Fits(f, scan.at, chunk)
  <2> DEFINE seen == Read(f, scan, 0)
  <2>1. next = [seen EXCEPT !.bad = TRUE]
    BY <1>2 DEF Visit
  <2>2. scan \in ScanType /\ scan.at \in Nat /\ End(f) \in Nat /\ Base \in Nat
    BY WavAssumption DEF ScansInside, ScanType, End
  <2>3. scan.at + 8 + 0 <= End(f)
    BY <1>2, <2>2 DEF Ended
  <2>4. /\ seen \in ScanType /\ seen.at = scan.at /\ seen.wraps = scan.wraps
        /\ seen.data = scan.data
        /\ scan.at >= Base => seen.outside = scan.outside
    BY <2>2, <2>3, ReadKeeps
  <2> HIDE DEF seen, next
  <2>5. /\ next \in ScanType /\ next.at = scan.at /\ next.wraps = scan.wraps
        /\ next.data = scan.data /\ next.outside = seen.outside /\ next.bad
    BY <2>1, <2>4 DEF ScanType
  <2>6. ~scan.wraps => Inside(f, next)
    BY <2>4, <2>5 DEF ScansInside, Inside
  <2> QED BY <2>5, <2>6 DEF ScansInside, Ended, next
<1>3. CASE ~Ended(f, scan) /\ Fits(f, scan.at, chunk)
  BY <1>3, TurnStaysInside
<1> QED BY <1>1, <1>2, <1>3

\* Induction over the chunks: the parser stays inside, and goes forward until
\* it ends, as long as no size wraps.
LEMMA ScanStaysInside ==
  ASSUME NEW f, IsWav(f)
  PROVE  /\ Scan(f) \in ScansInside(f)
         /\ Roomy(f) => ~Scan(f).wraps
         /\ ~Scan(f).wraps => Ended(f, Scan(f))
<1> DEFINE N == Len(f.chunks)
           g == CHOOSE h : Scanned(f, N, h)
<1>0. /\ f.size \in Nat /\ f.chunks \in Seq(Chunks) /\ End(f) + 9 < Space
      /\ Ended(f, Scan(f)) \/ Loops(f)
  BY Zenon DEF IsWav
<1>1. N \in Nat /\ \A k \in 1 .. N : f.chunks[k] \in Chunks
  BY <1>0
<1>2. Scans(f) = g /\ Scan(f) = g[N]
  BY DEF Scan, Scans, Scanned
<1>3. Scanned(f, N, g)
  BY <1>1, ScanDefined
<1>e. End(f) < Space
  BY <1>0, WavAssumption DEF End
<1> HIDE DEF g, N
<1>4. \A k \in 0 .. N :
        g[k] = IF k = 0 THEN ScanStart(f)
               ELSE Visit(f, g[k - 1], f.chunks[k])
  BY <1>1, <1>3 DEF Scanned
<1> DEFINE Forward(n) ==
             ~Ended(f, g[n]) /\ ~g[n].wraps =>
               \A m \in 0 .. n - 1 : g[m].at \in Int /\ g[m].at < g[n].at
           Good(n) == /\ g[n] \in ScansInside(f) /\ Forward(n)
                      /\ Roomy(f) => ~g[n].wraps
           S == {n \in Nat : n <= N => Good(n)}
<1>5. 0 \in S
  <2>1. g[0] = ScanStart(f)
    BY <1>1, <1>4
  <2>2. ScanStart(f) \in ScansInside(f) /\ ~ScanStart(f).wraps
    <3>1. ScanStart(f) \in ScanType
      BY <1>0, WavAssumption DEF ScanStart, ScanType
    <3>2. Inside(f, ScanStart(f))
      BY <1>0, WavAssumption DEF ScanStart, Inside, Pieces
    <3>3. ~ScanStart(f).wraps
      BY DEF ScanStart
    <3> QED BY <3>1, <3>2, <3>3 DEF ScansInside
  <2>3. Forward(0)
    OBVIOUS
  <2> QED BY <2>1, <2>2, <2>3
<1>6. ASSUME NEW n \in Nat, n \in S
      PROVE  n + 1 \in S
  <2> SUFFICES ASSUME n + 1 <= N
               PROVE  Good(n + 1)
    OBVIOUS
  <2>1. Good(n) /\ n + 1 \in 1 .. N
    BY <1>1, <1>6
  <2>2. g[n + 1] = Visit(f, g[n], f.chunks[n + 1])
    BY <1>4, <2>1
  <2>3. f.chunks[n + 1] \in Chunks
    BY <1>1, <2>1
  <2>4. /\ g[n + 1] \in ScansInside(f)
        /\ Roomy(f) /\ ~g[n].wraps => ~g[n + 1].wraps
        /\ ~Ended(f, g[n + 1]) /\ ~g[n + 1].wraps =>
             ~Ended(f, g[n]) /\ ~g[n].wraps /\ g[n].at < g[n + 1].at
    BY <1>0, <1>e, <2>1, <2>2, <2>3, VisitStaysInside
  <2>5. Forward(n + 1)
    <3> SUFFICES ASSUME ~Ended(f, g[n + 1]), ~g[n + 1].wraps,
                        NEW m \in 0 .. (n + 1) - 1
                 PROVE  g[m].at \in Int /\ g[m].at < g[n + 1].at
      OBVIOUS
    <3>1. /\ g[n].at < g[n + 1].at
          /\ \A k \in 0 .. n - 1 : g[k].at \in Int /\ g[k].at < g[n].at
      BY <2>1, <2>4
    <3>2. g[n].at \in Nat /\ g[n + 1].at \in Nat
      BY <2>1, <2>4 DEF ScansInside, ScanType
    <3>3. CASE m = n
      BY <3>1, <3>2, <3>3
    <3>4. CASE m \in 0 .. n - 1
      BY <3>1, <3>2, <3>4
    <3> QED BY <3>3, <3>4
  <2> QED BY <2>1, <2>4, <2>5
<1> HIDE DEF S
<1>7. Nat \subseteq S
  BY <1>5, <1>6, SetInduction
<1>8. Good(N)
  BY <1>1, <1>7 DEF S
<1>9. ASSUME ~g[N].wraps, ~Ended(f, g[N])
      PROVE  FALSE
  <2>1. PICK n \in 0 .. N - 1 : g[n].at = g[N].at
    BY <1>0, <1>2, <1>9 DEF Loops, N
  <2>2. g[N].at \in Nat
    BY <1>8 DEF ScansInside, ScanType
  <2> QED BY <1>8, <1>9, <2>1, <2>2
<1> QED BY <1>2, <1>8, <1>9

(***************************************************************************)
(* For every file, whatever sizes its chunks claim and in whatever order   *)
(* they come: unless a size wraps around the address space, the loop of    *)
(* wav_parse_mmap ends, reads nothing outside of the file, and the PCM     *)
(* data of a file it accepts is inside; and no size wraps where a Word of  *)
(* addresses follows the file, as on a 64-bit machine.                     *)
(***************************************************************************)
THEOREM ParserStaysInside ==
  ASSUME NEW f, IsWav(f)
  PROVE  /\ ~Scan(f).wraps => Ended(f, Scan(f)) /\ ~Scan(f).outside
         /\ Parses(f) => WavMap(f) \in Wavs
         /\ End(f) + Word <= Space => ~Scan(f).wraps
<1>1. /\ Scan(f) \in ScansInside(f)
      /\ Roomy(f) => ~Scan(f).wraps
      /\ ~Scan(f).wraps => Ended(f, Scan(f))
  BY ScanStaysInside
<1>2. ~Scan(f).wraps => ~Scan(f).outside
  BY <1>1 DEF ScansInside, Inside
<1>3. ASSUME Parses(f)
      PROVE  WavMap(f) \in Wavs
  <2>1. PICK fmt \in Formats : Scan(f).fmt = <<fmt>>
    BY <1>1, <1>3 DEF ScansInside, ScanType, Parses
  <2>2. PICK d \in Pieces : Scan(f).data = <<d>>
    BY <1>1, <1>3 DEF ScansInside, ScanType, Parses
  <2>3. WavMap(f) = [fmt |-> fmt, data |-> d.at, data_size |-> d.size,
                     end |-> End(f), wraps |-> Scan(f).wraps]
    BY <2>1, <2>2 DEF WavMap
  <2>4. Scan(f).wraps \in BOOLEAN /\ (~Scan(f).wraps => d.at + d.size <= End(f))
    BY <1>1, <2>2 DEF ScansInside, ScanType, Inside
  <2>5. End(f) \in Nat
    <3>1. f.size \in Nat
      BY Zenon DEF IsWav
    <3> QED BY <3>1, WavAssumption DEF End
  <2> QED BY <2>2, <2>3, <2>4, <2>5 DEF Wavs, Pieces
<1> QED BY <1>1, <1>2, <1>3 DEF Roomy

-----------------------------------------------------------------------------
LEMMA MaxOne ==
  ASSUME NEW n \in Nat
  PROVE  Max({n, 1}) = IF n > 1 THEN n ELSE 1
<1> DEFINE m == IF n > 1 THEN n ELSE 1
<1>1. m \in {n, 1} /\ \A y \in {n, 1} : m >= y
  OBVIOUS
<1>2. \A x \in {n, 1} : (\A y \in {n, 1} : x >= y) => x = m
  OBVIOUS
<1> HIDE DEF m
<1>3. Max({n, 1}) = m
  BY <1>1, <1>2 DEF Max
<1> QED BY <1>3 DEF m

LEMMA OpenFinite == IsFiniteSet(Open) /\ Cardinality(Open) \in Nat
<1>1. IsFiniteSet(Handles)
  BY AudioAssumption, FS_Interval DEF Handles
<1>2. Open \subseteq Handles
  BY DEF Open
<1> QED BY <1>1, <1>2, FS_Subset, FS_CardinalityType

\* A part of the open handles has no more elements.
LEMMA PartOfOpen ==
  ASSUME NEW S, S \subseteq Open
  PROVE  IsFiniteSet(S) /\ Cardinality(S) \in Nat /\ Cardinality(S) <= Cardinality(Open)
BY OpenFinite, FS_Subset, FS_CardinalityType

\* 0 is no handle.
LEMMA NullIsNone == NULL \notin Handles /\ NULL \notin Open
BY AudioAssumption DEF NULL, Handles, Open

-----------------------------------------------------------------------------
\* The beginning of a work counts it.
LEMMA BeginCounts ==
  ASSUME MgrType, NEW t \in Workers, NEW kind \in {"init", "play", "release"},
         NEW bound, Begin(t, kind, bound)
  PROVE  /\ task' \in [Workers -> {"none", "init", "play", "release"}]
         /\ task'[t] = kind
         /\ calls' \in [init : Nat, play : Nat, release : Nat]
         /\ calls'.init = calls.init + (IF kind = "init" THEN 1 ELSE 0)
         /\ overlaps' \in Nat
<1>1. calls' = [calls EXCEPT ![kind] = calls[kind] + 1]
  BY DEF Begin
<1>2. calls \in [init : Nat, play : Nat, release : Nat]
  BY DEF MgrType
<1>0. /\ task' \in [Workers -> {"none", "init", "play", "release"}]
      /\ task'[t] = kind /\ overlaps' \in Nat
  BY DEF Begin, MgrType
<1>3. CASE kind = "init"
  BY <1>0, <1>1, <1>2, <1>3
<1>4. CASE kind = "play"
  BY <1>0, <1>1, <1>2, <1>4
<1>5. CASE kind = "release"
  BY <1>0, <1>1, <1>2, <1>5
<1> QED BY <1>3, <1>4, <1>5

\* The end of a work, and of an open that has failed.
LEMMA LeaveEnds ==
  ASSUME MgrType, NEW t \in Workers, NEW ok \in BOOLEAN, Leave(t, ok)
  PROVE  /\ pc' \in [Workers -> Labels] /\ mapped' \in [Workers -> BOOLEAN]
         /\ pc'[t] \in {"idle", "release"}
         /\ Forget(t)
<1>1. pc' \in [Workers -> Labels] /\ pc'[t] \in {"idle", "release"}
  BY DEF Leave, Goto, MgrType, Labels
<1> QED BY <1>1 DEF Leave, MgrType

LEMMA FailedOpenEnds ==
  ASSUME MgrType, NEW t \in Workers, NEW m, DOMAIN m = DOMAIN mgr, OpenFailed(t, m)
  PROVE  /\ pc' \in [Workers -> Labels] /\ mapped' \in [Workers -> BOOLEAN]
         /\ pc'[t] \in {"idle", "release"}
         /\ DOMAIN mgr' = DOMAIN mgr
         /\ mgr'.pcm = m.pcm /\ mgr'.fmt = m.fmt /\ mgr'.frame_size = m.frame_size
         /\ mgr'.device_name => m.device_name
         /\ Forget(t)
<1> DEFINE init == pc[t] \in {"open", "opening", "close"}
<1>1. CASE init
  <2>1. /\ mgr' = [m EXCEPT !.device_name = FALSE]
        /\ mapped' = [mapped EXCEPT ![t] = FALSE] /\ Goto(t, "idle") /\ Forget(t)
    BY <1>1 DEF OpenFailed
  <2>2. /\ pc' \in [Workers -> Labels] /\ mapped' \in [Workers -> BOOLEAN]
        /\ pc'[t] = "idle"
    BY <2>1 DEF Goto, MgrType, Labels
  <2>3. /\ DOMAIN mgr' = DOMAIN mgr /\ mgr'.pcm = m.pcm /\ ~mgr'.device_name
        /\ mgr'.fmt = m.fmt /\ mgr'.frame_size = m.frame_size
    BY <2>1 DEF MgrType
  <2> QED BY <2>1, <2>2, <2>3
<1>2. CASE ~init
  <2>1. mgr' = m /\ Leave(t, FALSE)
    BY <1>2 DEF OpenFailed
  <2> QED BY <2>1, LeaveEnds
<1> QED BY <1>1, <1>2

-----------------------------------------------------------------------------
\* A reinit and a release forget the handle.
LEMMA HandleForgotten ==
  ASSUME MgrType, NEW t \in Workers, ReinitSet(t) \/ ReleaseSet(t)
  PROVE  /\ pc[t] \in {"reinit_set", "release_set"}
         /\ pc'[t] = IF pc[t] = "reinit_set" THEN "reopen" ELSE "idle"
         /\ UNCHANGED <<handle, work>>
         /\ DOMAIN mgr' = DOMAIN mgr
         /\ mgr'.pcm = NULL
         /\ mgr'.device_name => mgr.device_name
         /\ \/ mgr'.fmt = ReinitFormat(file[t].fmt) /\ mgr'.frame_size = mgr.frame_size
            \/ mgr'.fmt = NoFormat /\ mgr'.frame_size = 0
<1>1. CASE ReinitSet(t)
  <2> DEFINE m == [mgr EXCEPT !.pcm = NULL]
  <2>1. mgr' = [m EXCEPT !.fmt = ReinitFormat(file[t].fmt)]
    BY <1>1 DEF ReinitSet
  <2>2. /\ DOMAIN m = DOMAIN mgr /\ m.pcm = NULL /\ m.device_name = mgr.device_name
        /\ m.frame_size = mgr.frame_size
    BY DEF MgrType
  <2>i. DOMAIN mgr = {"pcm", "device_name", "fmt", "frame_size"}
    BY DEF MgrType
  <2> HIDE DEF m
  <2>3. /\ DOMAIN mgr' = DOMAIN mgr /\ mgr'.pcm = NULL
        /\ mgr'.device_name = mgr.device_name
        /\ mgr'.fmt = ReinitFormat(file[t].fmt) /\ mgr'.frame_size = mgr.frame_size
    BY <2>1, <2>2, <2>i
  <2>4. pc[t] = "reinit_set" /\ pc'[t] = "reopen" /\ UNCHANGED <<handle, work>>
    BY <1>1 DEF ReinitSet, Proceed, Goto, MgrType, work
  <2> QED BY <2>3, <2>4
<1>2. CASE ReleaseSet(t)
  <2>1. /\ DOMAIN mgr' = DOMAIN mgr /\ mgr'.pcm = NULL /\ ~mgr'.device_name
        /\ mgr'.fmt = NoFormat /\ mgr'.frame_size = 0
    BY <1>2 DEF ReleaseSet, NoMgr, MgrType
  <2>2. pc[t] = "release_set" /\ pc'[t] = "idle" /\ UNCHANGED <<handle, work>>
    BY <1>2 DEF ReleaseSet, Proceed, Goto, MgrType, work
  <2> QED BY <2>1, <2>2
<1> QED BY <1>1, <1>2

\* Where the two busy steps of a playback go, whatever they copy.
LEMMA PlayMoves ==
  ASSUME NEW t \in Workers, Wait(t) \/ Write(t)
  PROVE  /\ UNCHANGED <<mgr, handle, work>>
         /\ mgr.pcm \in Open => crashed' = crashed
         /\ pc[t] \in {"wait", "write"}
         /\ \/ UNCHANGED <<pc, mapped>>
            \/ Goto(t, "write") /\ UNCHANGED mapped
            \/ Goto(t, "start") /\ UNCHANGED mapped
            \/ Leave(t, FALSE)
<1>0. pc[t] \in {"wait", "write"}
  BY DEF Wait, Write
<1>1. CASE Wait(t)
  <2>1. CASE mgr.pcm \in Open
    <3>1. /\ UNCHANGED work /\ crashed' = crashed
          /\ \/ Recover(t)
             \/ \E n : TakeFrames(t, n)
             \/ PlayFails(t)
      BY <1>1, <2>1 DEF Wait, Call
    <3>2. Recover(t) => UNCHANGED <<mgr, handle, pc, mapped>>
      BY DEF Recover
    <3>3. \A n : TakeFrames(t, n) =>
            Goto(t, "write") /\ UNCHANGED <<mgr, handle, mapped>>
      BY Zenon DEF TakeFrames
    <3>4. PlayFails(t) => Leave(t, FALSE) /\ UNCHANGED <<mgr, handle>>
      BY DEF PlayFails
    <3> QED BY <1>0, <3>1, <3>2, <3>3, <3>4
  <2>2. CASE mgr.pcm \notin Open
    BY <1>0, <1>1, <2>2 DEF Wait, Call
  <2> QED BY <2>1, <2>2
<1>2. CASE Write(t)
  <2>1. CASE mgr.pcm \in Open
    <3>1. /\ UNCHANGED <<work, crashed>>
          /\ \/ Recover(t)
             \/ /\ Goto(t, "start") \/ Goto(t, "write")
                /\ UNCHANGED <<mgr, handle, mapped>>
             \/ PlayFails(t)
      BY <1>2, <2>1 DEF Write, Call, CopyFrames
    <3> QED BY <1>0, <3>1 DEF Recover, PlayFails
  <2>2. CASE mgr.pcm \notin Open
    BY <1>0, <1>2, <2>2 DEF Write, Call, PlayFails
  <2> QED BY <2>1, <2>2
<1> QED BY <1>1, <1>2

\* No step breaks the types.
LEMMA MgrTypeStep ==
  ASSUME MgrType, [Next]_vars
  PROVE  MgrType'
<1> DEFINE Moved == pc' \in [Workers -> Labels] /\ mapped' \in [Workers -> BOOLEAN]
           Held == /\ DOMAIN mgr' = DOMAIN mgr
                   /\ mgr'.pcm \in Handles \cup {NULL}
                   /\ handle' \in [Handles -> {"unused", "open", "closed"}]
<1>0. ASSUME Moved, Held, UNCHANGED work
      PROVE  MgrType'
  BY <1>0 DEF MgrType, work
<1>p. ASSUME NEW t \in Workers, NEW l \in Labels, Proceed(t, l)
      PROVE  Moved
  BY <1>p DEF MgrType, Proceed, Goto
<1>g. ASSUME NEW t \in Workers, NEW l \in Labels, Goto(t, l), UNCHANGED mapped
      PROVE  Moved
  BY <1>g DEF MgrType, Goto
<1>l. ASSUME NEW t \in Workers, NEW ok \in BOOLEAN, Leave(t, ok)
      PROVE  Moved
  BY <1>l, LeaveEnds
<1>s. ASSUME UNCHANGED <<mgr, handle>>
      PROVE  Held
  BY <1>s DEF MgrType
<1>u. UNCHANGED <<pc, mapped>> => Moved
  BY DEF MgrType
<1>1. ASSUME NEW t \in Workers, MapFile(t)
      PROVE  MgrType'
  <2>1. /\ calls' \in [init : Nat, play : Nat, release : Nat]
        /\ task' \in [Workers -> {"none", "init", "play", "release"}]
        /\ overlaps' \in Nat
    BY <1>1, BeginCounts DEF MapFile
  <2>2. Moved
    BY <1>1 DEF MapFile, MgrType, Labels, Goto
  <2> QED BY <1>1, <2>1, <2>2 DEF MapFile, MgrType
<1>2. ASSUME NEW t \in Workers, BeginRelease(t)
      PROVE  MgrType'
  <2>1. /\ calls' \in [init : Nat, play : Nat, release : Nat]
        /\ task' \in [Workers -> {"none", "init", "play", "release"}]
        /\ overlaps' \in Nat
    BY <1>2, BeginCounts DEF BeginRelease
  <2>2. Moved
    BY <1>2, <1>g DEF BeginRelease, Labels
  <2> QED BY <1>2, <2>1, <2>2 DEF BeginRelease, MgrType
<1>3. ASSUME NEW t \in Workers, MgrInit(t)
      PROVE  MgrType'
  <2>1. Moved /\ UNCHANGED work
    BY <1>3, <1>p DEF MgrInit, Labels
  <2> QED BY <1>0, <1>3, <2>1 DEF MgrInit, MgrType
<1>4. ASSUME NEW t \in Workers, PcmCheck(t)
      PROVE  MgrType'
  <2>1. UNCHANGED <<work, handle>>
    BY <1>4 DEF PcmCheck
  <2>2. CASE mgr.device_name
    <3>1. Moved
      BY <1>4, <1>p, <2>2 DEF PcmCheck, Labels
    <3> QED BY <1>0, <1>4, <1>s, <2>1, <2>2, <3>1 DEF PcmCheck
  <2>3. CASE ~mgr.device_name
    <3>1. OpenFailed(t, mgr)
      BY <1>4, <2>3 DEF PcmCheck
    <3> QED BY <1>0, <2>1, <3>1, FailedOpenEnds DEF MgrType
  <2> QED BY <2>2, <2>3
<1>5. ASSUME NEW t \in Workers, PcmOpen(t)
      PROVE  MgrType'
  <2>1. CASE OpenFailed(t, mgr) /\ UNCHANGED handle
    <3>1. Moved /\ Held
      BY <2>1, FailedOpenEnds DEF MgrType
    <3> QED BY <1>0, <1>5, <3>1 DEF PcmOpen
  <2>2. CASE \E h \in Handles :
          /\ handle' = [handle EXCEPT ![h] = "open"]
          /\ mgr' = [mgr EXCEPT !.pcm = h]
          /\ Proceed(t, IF pc[t] = "opening" THEN "config" ELSE "reconfig")
    <3>1. Moved
      BY <1>p, <2>2 DEF Labels
    <3>2. Held
      BY <2>2 DEF MgrType
    <3> QED BY <1>0, <1>5, <3>1, <3>2 DEF PcmOpen
  <2> QED BY <1>5, <2>1, <2>2 DEF PcmOpen
<1>6. ASSUME NEW t \in Workers, PcmConfig(t)
      PROVE  MgrType'
  <2>1. CASE mgr.pcm \notin Open
    BY <1>0, <1>6, <1>s, <1>u, <2>1 DEF PcmConfig, Call
  <2>2. CASE mgr.pcm \in Open
    <3>1. Moved
      BY <1>6, <1>p, <2>2 DEF PcmConfig, Call, Configured, Labels
    <3>2. Held
      BY <1>6, <2>2 DEF PcmConfig, Call, Configured, MgrType
    <3> QED BY <1>0, <1>6, <3>1, <3>2 DEF PcmConfig
  <2> QED BY <2>1, <2>2
<1>7. ASSUME NEW t \in Workers, PcmForget(t)
      PROVE  MgrType'
  <2> DEFINE m == [mgr EXCEPT !.pcm = NULL]
  <2>1. DOMAIN m = DOMAIN mgr /\ m.pcm = NULL
    BY DEF MgrType
  <2>2. OpenFailed(t, m) /\ UNCHANGED <<work, handle>>
    BY <1>7 DEF PcmForget
  <2> HIDE DEF m
  <2> QED BY <1>0, <2>1, <2>2, FailedOpenEnds DEF MgrType
<1>8. ASSUME NEW t \in Workers, PcmDrain(t) \/ PcmClose(t)
      PROVE  MgrType'
  <2>1. UNCHANGED work
    BY <1>8 DEF PcmDrain, PcmClose
  <2>2. Moved
    BY <1>8, <1>p, <1>u DEF PcmDrain, PcmClose, Call, Labels
  <2>3. Held
    BY <1>8 DEF PcmDrain, PcmClose, Call, MgrType
  <2> QED BY <1>0, <2>1, <2>2, <2>3
<1>9. ASSUME NEW t \in Workers, ReinitSet(t) \/ ReleaseSet(t)
      PROVE  MgrType'
  <2>1. UNCHANGED work /\ Moved
    BY <1>9, <1>p DEF ReinitSet, ReleaseSet, Labels
  <2>2. Held
    BY <1>9, HandleForgotten DEF MgrType
  <2> QED BY <1>0, <2>1, <2>2
<1>10. ASSUME NEW t \in Workers, Validate(t) \/ Size(t) \/ Prepare(t)
       PROVE  MgrType'
  <2>1. UNCHANGED <<work, mgr, handle>>
    BY <1>10 DEF Validate, Size, Prepare, Call
  <2>2. CASE Validate(t)
    BY <1>0, <1>l, <1>p, <1>s, <2>1, <2>2 DEF Validate, Labels
  <2>3. CASE Size(t)
    BY <1>0, <1>g, <1>l, <1>s, <2>1, <2>3 DEF Size, Labels
  <2>4. CASE Prepare(t)
    BY <1>0, <1>l, <1>p, <1>s, <1>u, <2>1, <2>4 DEF Prepare, Call, Labels
  <2> QED BY <1>10, <2>2, <2>3, <2>4
<1>11. ASSUME NEW t \in Workers, Wait(t) \/ Write(t)
       PROVE  MgrType'
  <2>1. UNCHANGED <<mgr, handle, work>>
    BY <1>11, PlayMoves
  <2>2. Moved
    BY <1>11, <1>g, <1>l, <1>u, PlayMoves DEF Labels
  <2> QED BY <1>0, <1>s, <2>1, <2>2
<1>12. ASSUME NEW t \in Workers, Start(t) \/ PlayEnd(t)
       PROVE  MgrType'
  <2>1. UNCHANGED <<mgr, handle, work>>
    BY <1>12 DEF Start, PlayEnd, Call, Written
  <2>2. Moved
    BY <1>12, <1>g, <1>l, <1>u DEF Start, PlayEnd, Call, Written, Labels
  <2> QED BY <1>0, <1>s, <2>1, <2>2
<1>13. CASE Consume \/ UNCHANGED vars
  BY <1>0, <1>13, <1>s, <1>u DEF Consume, vars, work
<1> QED BY <1>1, <1>2, <1>3, <1>4, <1>5, <1>6, <1>7, <1>8, <1>9, <1>10, <1>11,
           <1>12, <1>13 DEF Next, Manager, Playback

LEMMA PlayKeepsHandle ==
  ASSUME NEW t \in Workers, MgrType, HandleInv(t), ~crashed, Wait(t) \/ Write(t)
  PROVE  HandleInv(t)' /\ ~crashed'
<1>1. /\ UNCHANGED <<mgr, handle>> /\ pc[t] \in {"wait", "write"}
      /\ mgr.pcm \in Open => crashed' = crashed
  BY PlayMoves
<1>2. pc' = pc \/ \E l \in {"write", "start", "release", "idle"} : Goto(t, l)
  BY PlayMoves DEF Leave
<1>3. mgr.pcm \in Open
  BY <1>1 DEF HandleInv
<1> QED BY <1>1, <1>2, <1>3 DEF MgrType, HandleInv, Dead, Goto, Open

\* The handle, step by step: it is closed only on the way to being forgotten,
\* opened only where there is none, and used where it is open.
LEMMA HandleInvStep ==
  ASSUME NEW t \in Workers, MgrType, HandleInv(t), ~crashed, Acts(t)
  PROVE  HandleInv(t)' /\ ~crashed'
<1> USE NullIsNone DEF MgrType, HandleInv, Open, Dead, Goto, Proceed, Leave, work
<1>1. CASE MapFile(t)
  BY <1>1 DEF MapFile, Begin
<1>2. CASE BeginRelease(t)
  BY <1>2 DEF BeginRelease, Begin
<1>3. CASE MgrInit(t)
  BY <1>3 DEF MgrInit
<1>4. CASE PcmCheck(t)
  BY <1>4 DEF PcmCheck, OpenFailed
<1>5. CASE PcmOpen(t)
  BY <1>5 DEF PcmOpen, OpenFailed
<1>6. CASE PcmConfig(t)
  BY <1>6 DEF PcmConfig, Call, Configured
<1>7. CASE PcmForget(t)
  <2>1. /\ mgr'.pcm = NULL /\ handle' = handle /\ crashed' = crashed
        /\ \E l \in {"idle", "release"} : Goto(t, l)
    BY <1>7 DEF PcmForget, OpenFailed
  <2> QED BY <1>7, <2>1
<1>8. CASE PcmDrain(t)
  BY <1>8 DEF PcmDrain, Call
<1>9. CASE PcmClose(t)
  BY <1>9 DEF PcmClose, Call
<1>10. CASE ReinitSet(t)
  BY <1>10 DEF ReinitSet
<1>11. CASE ReleaseSet(t)
  BY <1>11 DEF ReleaseSet, NoMgr
<1>12. CASE Validate(t) \/ Size(t)
  BY <1>12 DEF Validate, Size
<1>13. CASE Prepare(t)
  BY <1>13 DEF Prepare, Call
<1>14. CASE Wait(t)
  BY <1>14, PlayKeepsHandle
<1>15. CASE Write(t)
  BY <1>15, PlayKeepsHandle
<1>16. CASE Start(t)
  BY <1>16 DEF Start, Call, Written
<1>17. CASE PlayEnd(t)
  BY <1>17 DEF PlayEnd, Call
<1> QED BY <1>1, <1>2, <1>3, <1>4, <1>5, <1>6, <1>7, <1>8, <1>9, <1>10, <1>11,
           <1>12, <1>13, <1>14, <1>15, <1>16, <1>17
        DEF Acts, Manager, Playback

\* A file is mapped from the parse to the end of the playback.
LEMMA MapInvStep ==
  ASSUME MgrType, MapInv, [Next]_vars
  PROVE  MapInv'
<1> USE DEF MgrType, MapInv, Unmapped, Goto, Proceed, Leave, work
<1>1. ASSUME NEW t \in Workers, MapFile(t)
      PROVE  MapInv'
  BY <1>1 DEF MapFile, Begin
<1>2. ASSUME NEW t \in Workers, BeginRelease(t)
      PROVE  MapInv'
  BY <1>2 DEF BeginRelease, Begin
<1>3. ASSUME NEW t \in Workers, MgrInit(t)
      PROVE  MapInv'
  BY <1>3 DEF MgrInit
<1>4. ASSUME NEW t \in Workers, PcmCheck(t)
      PROVE  MapInv'
  BY <1>4 DEF PcmCheck, OpenFailed
<1>5. ASSUME NEW t \in Workers, PcmOpen(t)
      PROVE  MapInv'
  BY <1>5 DEF PcmOpen, OpenFailed
<1>6. ASSUME NEW t \in Workers, PcmConfig(t)
      PROVE  MapInv'
  BY <1>6 DEF PcmConfig, Call, Configured
<1>7. ASSUME NEW t \in Workers, PcmForget(t)
      PROVE  MapInv'
  BY <1>7 DEF PcmForget, OpenFailed
<1>8. ASSUME NEW t \in Workers, PcmDrain(t) \/ PcmClose(t)
      PROVE  MapInv'
  BY <1>8 DEF PcmDrain, PcmClose, Call
<1>9. ASSUME NEW t \in Workers, ReinitSet(t) \/ ReleaseSet(t)
      PROVE  MapInv'
  BY <1>9 DEF ReinitSet, ReleaseSet
<1>10. ASSUME NEW t \in Workers, Validate(t) \/ Size(t) \/ Prepare(t)
       PROVE  MapInv'
  BY <1>10 DEF Validate, Size, Prepare, Call
<1>11. ASSUME NEW t \in Workers, Wait(t) \/ Write(t)
       PROVE  MapInv'
  <2>1. \/ UNCHANGED <<pc, mapped>>
        \/ Goto(t, "write") /\ UNCHANGED mapped
        \/ Goto(t, "start") /\ UNCHANGED mapped
        \/ Leave(t, FALSE)
    BY <1>11, PlayMoves
  <2>2. pc[t] \in {"wait", "write"}
    BY <1>11, PlayMoves
  <2> QED BY <2>1, <2>2
<1>12. ASSUME NEW t \in Workers, Start(t) \/ PlayEnd(t)
       PROVE  MapInv'
  BY <1>12 DEF Start, PlayEnd, Call, Written
<1>13. CASE Consume \/ UNCHANGED vars
  BY <1>13 DEF Consume, vars
<1> QED BY <1>1, <1>2, <1>3, <1>4, <1>5, <1>6, <1>7, <1>8, <1>9, <1>10, <1>11,
           <1>12, <1>13 DEF Next, Manager, Playback

-----------------------------------------------------------------------------
\* A step that forgets no further handle.
LEMMA LeakFrame ==
  ASSUME NEW t \in Workers, MgrType, MgrType', LeakInv(t),
         calls'.init >= calls.init,
         calls'.init = 0 => ~mgr'.device_name /\ Open' = {},
         pc'[t] \in Opening => calls'.init > 0,
         Forgotten(t)' \subseteq Forgotten(t)
  PROVE  LeakInv(t)'
<1>1. Forgotten(t) \subseteq Open
  BY DEF Forgotten
<1>2. /\ Cardinality(Forgotten(t)') <= Cardinality(Forgotten(t))
      /\ Cardinality(Forgotten(t)) \in Nat /\ Cardinality(Forgotten(t)') \in Nat
  <2>1. IsFiniteSet(Forgotten(t))
    BY <1>1, PartOfOpen
  <2> QED BY <2>1, FS_Subset, FS_CardinalityType
<1>3. calls.init \in Nat /\ calls'.init \in Nat
  BY DEF MgrType
<1>4. Cardinality(Forgotten(t)) <= Max({calls.init, 1}) - 1
  BY DEF LeakInv
<1> DEFINE a == Cardinality(Forgotten(t))
           b == Cardinality(Forgotten(t)')
           m == calls.init
           n == calls'.init
<1>5. /\ a \in Nat /\ b \in Nat /\ m \in Nat /\ n \in Nat
      /\ b <= a /\ m <= n /\ a <= (IF m > 1 THEN m ELSE 1) - 1
  BY <1>2, <1>3, <1>4, MaxOne
<1>6. Max({n, 1}) = IF n > 1 THEN n ELSE 1
  BY <1>3, MaxOne
<1> HIDE DEF a, b, m, n
<1>7. b <= Max({n, 1}) - 1
  BY <1>5, <1>6
<1>8. Cardinality(Forgotten(t))' <= Max({calls'.init, 1}) - 1
  BY <1>7 DEF b, n
<1> QED BY <1>8 DEF LeakInv

\* The beginning of an init is the one step that needs the room its count
\* makes: one handle more will be forgotten.
LEMMA LeakBegin ==
  ASSUME NEW t \in Workers, MgrType, MgrType', LeakInv(t), MapFile(t)
  PROVE  LeakInv(t)'
<1>1. pc[t] = "idle" /\ mgr' = mgr /\ Open' = Open
  BY DEF MapFile, Begin, Open
<1>2. /\ calls.init \in Nat /\ calls'.init \in Nat
      /\ calls'.init = calls.init \/ calls'.init = calls.init + 1
  BY BeginCounts DEF MapFile, MgrType
<1>3. CASE pc'[t] # "init"
  <2>1. pc'[t] \in {"idle", "parse", "validate"}
    BY <1>1, <1>3 DEF MapFile, Goto, MgrType
  <2>2. Forgotten(t)' = Forgotten(t)
    BY <1>1, <1>3 DEF Forgotten
  <2>3. pc'[t] \notin Opening
    BY <2>1 DEF Opening
  <2>4. calls'.init = 0 => ~mgr'.device_name /\ Open' = {}
    BY <1>1, <1>2 DEF LeakInv
  <2> QED BY <1>2, <2>2, <2>3, <2>4, LeakFrame
<1>4. CASE pc'[t] = "init"
  <2>1. calls'.init = calls.init + 1
    <3>1. task'[t] = "init"
      BY <1>1, <1>4 DEF MapFile, Goto, MgrType
    <3>2. Begin(t, "init", MaxInits) \/ Begin(t, "play", MaxPlays)
      BY DEF MapFile
    <3> QED BY <3>1, <3>2, BeginCounts
  <2>2. Forgotten(t)' = Open /\ Forgotten(t) = Open \ {mgr.pcm}
    BY <1>1, <1>4 DEF Forgotten
  <2>3. /\ Cardinality(Open) <= Cardinality(Open \ {mgr.pcm}) + 1
        /\ Cardinality(Open) \in Nat /\ Cardinality(Open \ {mgr.pcm}) \in Nat
    BY OpenFinite, PartOfOpen, FS_RemoveElement
  <2>4. calls.init = 0 => Cardinality(Open) = 0
    BY FS_EmptySet DEF LeakInv
  <2> DEFINE a == Cardinality(Open \ {mgr.pcm})
             b == Cardinality(Open)
             m == calls.init
             n == calls'.init
  <2>5. /\ a \in Nat /\ b \in Nat /\ m \in Nat /\ n = m + 1 /\ b <= a + 1
        /\ m = 0 => b = 0
        /\ a <= (IF m > 1 THEN m ELSE 1) - 1
    BY <1>2, <2>1, <2>2, <2>3, <2>4, MaxOne DEF LeakInv
  <2>6. Max({n, 1}) = IF n > 1 THEN n ELSE 1
    BY <1>2, MaxOne
  <2> HIDE DEF a, b, m, n
  <2>7. b <= Max({n, 1}) - 1 /\ n > 0
    BY <2>5, <2>6
  <2>8. Cardinality(Forgotten(t)') <= Max({calls'.init, 1}) - 1 /\ calls'.init > 0
    BY <2>2, <2>7 DEF b, n
  <2> QED BY <2>8 DEF LeakInv
<1> QED BY <1>3, <1>4

LEMMA LeakInvStep ==
  ASSUME NEW t \in Workers, MgrType, MgrType', HandleInv(t), LeakInv(t), ~crashed,
         Acts(t)
  PROVE  LeakInv(t)'
<1> USE NullIsNone DEF Opening, Dead, Goto, Proceed, Leave, work
<1>0. calls.init \in Nat /\ pc \in [Workers -> Labels]
  BY DEF MgrType
<1>1. ASSUME calls' = calls,
             calls.init = 0 => ~mgr'.device_name /\ Open' = {},
             pc'[t] \in Opening => calls.init > 0,
             Forgotten(t)' \subseteq Forgotten(t)
      PROVE  LeakInv(t)'
  BY <1>0, <1>1, LeakFrame
<1>2. ASSUME calls' = calls, mgr' = mgr, handle' = handle,
             pc[t] # "init", pc'[t] \in Opening => pc[t] \in Opening,
             pc'[t] # "init"
      PROVE  LeakInv(t)'
  <2>1. Open' = Open /\ Forgotten(t)' = Forgotten(t)
    BY <1>2 DEF Open, Forgotten
  <2> QED BY <1>1, <1>2, <2>1 DEF LeakInv
<1>3. CASE BeginRelease(t)
  <2>1. calls' \in [init : Nat, play : Nat, release : Nat] /\ calls'.init = calls.init
    BY <1>0, <1>3, BeginCounts DEF BeginRelease
  <2>2. /\ mgr' = mgr /\ handle' = handle /\ pc[t] = "idle"
        /\ pc'[t] = "release"
    BY <1>0, <1>3 DEF BeginRelease, Begin
  <2>3. Open' = Open /\ Forgotten(t)' = Forgotten(t)
    BY <2>2 DEF Open, Forgotten
  <2>4. calls'.init >= calls.init
    BY <1>0, <2>1
  <2>5. calls'.init = 0 => ~mgr'.device_name /\ Open' = {}
    BY <2>1, <2>2, <2>3 DEF LeakInv
  <2>6. pc'[t] \in Opening => calls'.init > 0
    BY <2>2
  <2>7. Forgotten(t)' \subseteq Forgotten(t)
    BY <2>3
  <2> HIDE DEF Opening
  <2> QED BY <2>4, <2>5, <2>6, <2>7, LeakFrame
<1>4. CASE MgrInit(t)
  <2>1. /\ pc[t] = "init" /\ pc'[t] = "open" /\ mgr'.pcm = NULL /\ Open' = Open
        /\ calls' = calls
    BY <1>0, <1>4 DEF MgrInit, Open
  <2>2. calls.init > 0 /\ Forgotten(t)' = Forgotten(t)
    BY <2>1 DEF Forgotten, LeakInv
  <2> QED BY <1>1, <2>1, <2>2
<1>5. CASE PcmCheck(t)
  <2>1. /\ pc[t] \in {"open", "reopen"} /\ handle' = handle /\ calls' = calls
        /\ pc'[t] \in (Opening \ {"init"}) \cup {"idle", "release"}
        /\ mgr'.pcm = mgr.pcm /\ (mgr'.device_name => mgr.device_name)
    BY <1>0, <1>5 DEF PcmCheck, OpenFailed, MgrType
  <2>2. Open' = Open /\ Forgotten(t)' = Forgotten(t) /\ calls.init > 0
    BY <2>1 DEF Open, Forgotten, LeakInv
  <2> QED BY <1>1, <2>1, <2>2
<1>6. CASE PcmOpen(t)
  <2>1. /\ pc[t] \in {"opening", "reopening"} /\ mgr.pcm = NULL
        /\ pc'[t] \in {"config", "reconfig", "idle", "release"} /\ calls' = calls
    BY <1>0, <1>6 DEF PcmOpen, OpenFailed, HandleInv
  <2>2. calls.init > 0 /\ Forgotten(t) = Open
    BY <2>1 DEF LeakInv, Forgotten
  <2>3. Open' \ {mgr'.pcm} \subseteq Open
    BY <1>6, <2>1 DEF PcmOpen, OpenFailed, Open, MgrType
  <2> QED BY <1>1, <2>1, <2>2, <2>3 DEF Forgotten
<1>7. CASE PcmConfig(t)
  <2>1. /\ pc[t] \in {"config", "reconfig"} /\ calls' = calls
        /\ pc'[t] \in {"validate", "size", "close", "reclose"}
        /\ mgr'.pcm = mgr.pcm /\ mgr'.device_name = mgr.device_name
        /\ Open' \subseteq Open
    BY <1>0, <1>7 DEF PcmConfig, Call, Configured, HandleInv, MgrType, Open
  <2>2. Forgotten(t)' \subseteq Forgotten(t)
    BY <2>1 DEF Forgotten
  <2> QED BY <1>1, <2>1, <2>2 DEF LeakInv
<1>8. CASE PcmForget(t)
  <2>1. /\ pc[t] \in {"close", "reclose"} /\ calls' = calls /\ handle' = handle
        /\ pc'[t] \in {"idle", "release"}
        /\ mgr'.pcm = NULL /\ (mgr'.device_name => mgr.device_name)
    <3> DEFINE m == [mgr EXCEPT !.pcm = NULL]
    <3>1. /\ DOMAIN m = DOMAIN mgr /\ m.pcm = NULL
          /\ m.device_name = mgr.device_name
      BY DEF MgrType
    <3>2. OpenFailed(t, m) /\ UNCHANGED <<work, handle>>
      BY <1>8 DEF PcmForget
    <3> HIDE DEF m
    <3> QED BY <1>8, <3>1, <3>2, FailedOpenEnds DEF PcmForget, work
  <2>2. Open' = Open /\ Forgotten(t)' = Forgotten(t)
    BY <2>1 DEF Open, Forgotten, HandleInv
  <2> QED BY <1>1, <2>1, <2>2 DEF LeakInv
<1>9. CASE PcmDrain(t) \/ PcmClose(t)
  <2>1. /\ pc[t] \in {"reinit", "reinit_close", "release", "release_close"}
        /\ calls' = calls /\ mgr' = mgr
        /\ pc'[t] \in {"reinit_close", "reinit_set"} \cup {"release_close", "release_set"}
        /\ (pc'[t] \in Opening => pc[t] \in Opening)
        /\ Open' \subseteq Open
    BY <1>0, <1>9 DEF PcmDrain, PcmClose, Call, HandleInv, MgrType, Open
  <2>2. Forgotten(t)' \subseteq Forgotten(t)
    BY <2>1 DEF Forgotten
  <2> QED BY <1>1, <2>1, <2>2 DEF LeakInv
<1>10. CASE ReinitSet(t) \/ ReleaseSet(t)
  <2>1. /\ pc[t] \in {"reinit_set", "release_set"} /\ calls' = calls
        /\ handle' = handle /\ mgr'.pcm = NULL
        /\ (mgr'.device_name => mgr.device_name)
        /\ pc'[t] = IF pc[t] = "reinit_set" THEN "reopen" ELSE "idle"
    BY <1>10, HandleForgotten DEF work
  <2>2. Open' = Open /\ Forgotten(t)' = Forgotten(t)
    BY <2>1 DEF Open, Forgotten, HandleInv
  <2> QED BY <1>1, <2>1, <2>2 DEF LeakInv
<1>11. CASE Validate(t)
  <2>1. /\ pc[t] = "validate" /\ calls' = calls /\ mgr' = mgr /\ handle' = handle
        /\ pc'[t] \in {"size", "idle", "release"}
             \/ (pc'[t] = "reinit" /\ mgr.device_name)
    BY <1>0, <1>11 DEF Validate
  <2>2. Open' = Open /\ Forgotten(t)' = Forgotten(t)
    BY <2>1 DEF Open, Forgotten
  <2>3. calls.init = 0 => ~mgr'.device_name /\ Open' = {}
    BY <2>1, <2>2 DEF LeakInv
  <2>4. pc'[t] \in Opening => calls.init > 0
    BY <1>0, <2>1 DEF LeakInv
  <2> HIDE DEF Opening
  <2> QED BY <1>1, <2>1, <2>2, <2>3, <2>4
<1>12. CASE Size(t) \/ Prepare(t)
  <2>1. /\ pc[t] \in {"size", "prepare"} /\ calls' = calls /\ mgr' = mgr
        /\ handle' = handle /\ pc'[t] \in {"prepare", "wait", "idle", "release"}
    BY <1>0, <1>12 DEF Size, Prepare, Call, HandleInv
  <2> QED BY <1>2, <2>1
<1>13. CASE Wait(t) \/ Write(t)
  <2>1. UNCHANGED <<mgr, handle, work>> /\ pc[t] \in {"wait", "write"}
    BY <1>13, PlayMoves
  <2>2. pc'[t] \in {"wait", "write", "start", "idle", "release"}
    BY <1>0, <1>13, <2>1, PlayMoves
  <2> QED BY <1>2, <2>1, <2>2
<1>14. CASE Start(t) \/ PlayEnd(t)
  <2>1. /\ pc[t] \in {"start", "wait"} /\ calls' = calls /\ mgr' = mgr
        /\ handle' = handle /\ pc'[t] \in {"wait", "idle", "release"}
    BY <1>0, <1>14 DEF Start, PlayEnd, Written, Call, HandleInv
  <2> QED BY <1>2, <2>1
<1>16. CASE MapFile(t)
  BY <1>16, LeakBegin
<1> QED BY <1>3, <1>4, <1>5, <1>6, <1>7, <1>8, <1>9, <1>10, <1>11, <1>12,
           <1>13, <1>14, <1>16 DEF Acts, Manager, Playback

-----------------------------------------------------------------------------
(***************************************************************************)
(* The copies.  First the arithmetic.                                      *)
(***************************************************************************)
LEMMA MinOfTwo ==
  ASSUME NEW a \in Int, NEW b \in Int
  PROVE  Min({a, b}) = IF a <= b THEN a ELSE b
<1> DEFINE m == IF a <= b THEN a ELSE b
<1>1. m \in {a, b} /\ \A y \in {a, b} : m <= y
  OBVIOUS
<1>2. \A x \in {a, b} : (\A y \in {a, b} : x <= y) => x = m
  OBVIOUS
<1> HIDE DEF m
<1>3. Min({a, b}) = m
  BY <1>1, <1>2 DEF Min
<1> QED BY <1>3 DEF m

LEMMA MinOfThree ==
  ASSUME NEW a \in Int, NEW b \in Int, NEW c \in Int
  PROVE  /\ Min({a, b, c}) \in {a, b, c}
         /\ Min({a, b, c}) <= a /\ Min({a, b, c}) <= b /\ Min({a, b, c}) <= c
<1> DEFINE m == IF a <= b THEN (IF a <= c THEN a ELSE c)
                ELSE (IF b <= c THEN b ELSE c)
<1>1. m \in {a, b, c} /\ \A y \in {a, b, c} : m <= y
  OBVIOUS
<1> HIDE DEF m
<1>2. /\ Min({a, b, c}) \in {a, b, c}
      /\ \A y \in {a, b, c} : Min({a, b, c}) <= y
  BY <1>1 DEF Min
<1> QED BY <1>2

\* Whole frames take no more than all the bytes.
LEMMA WholeFrames ==
  ASSUME NEW a \in Nat, NEW b \in Nat \ {0}
  PROVE  (a \div b) \in Nat /\ (a \div b) * b <= a
OBVIOUS

LEMMA AlignNat ==
  ASSUME NEW fmt \in Formats
  PROVE  BlockAlign(fmt) \in Nat
<1>1. fmt.channels \in Nat /\ Width(fmt.pcm_format) \in {8, 16, 32}
  BY DEF Formats, Width
<1>2. fmt.channels * Width(fmt.pcm_format) \in Nat
  BY <1>1
<1> QED BY <1>2 DEF BlockAlign

\* n frames more, of at most "left" that remain of "total".
LEMMA FramesFit ==
  ASSUME NEW total \in Nat, NEW k \in Nat, NEW n \in Nat, NEW size \in Nat,
         k + n <= total
  PROVE  /\ k * size + n * size = (k + n) * size
         /\ (k + n) * size <= total * size
         /\ k * size \in Nat /\ n * size \in Nat /\ total * size \in Nat
<1>1. k * size + n * size = (k + n) * size
  OBVIOUS
<1>2. (total - (k + n)) * size >= 0
  OBVIOUS
<1>3. total * size = (k + n) * size + (total - (k + n)) * size
  OBVIOUS
<1> QED BY <1>1, <1>2, <1>3

\* What the steps of a playback do to its locals.
LEMMA TakeFramesSets ==
  ASSUME CopyType, NEW t \in Workers, NEW n \in Nat, TakeFrames(t, n)
  PROVE  LET l == local[t]
             k == local'[t]
         IN /\ local' \in [Workers -> Locals]
            /\ k.to_do = n /\ k.left = n
            /\ k.sret = file[t].data + l.done * l.frame_size
            /\ k.done = l.done /\ k.total = l.total
            /\ k.frame_size = l.frame_size
<1> DEFINE l == local[t]
           sret == file[t].data + l.done * l.frame_size
           k1 == [l EXCEPT !.to_do = n]
           k2 == [k1 EXCEPT !.left = n]
           k3 == [k2 EXCEPT !.sret = sret]
<1>1. l \in Locals /\ file[t] \in Wavs
  BY DEF CopyType
<1>2. sret \in Nat
  <2>1. l.done \in Nat /\ l.frame_size \in Nat /\ file[t].data \in Nat
    BY <1>1 DEF Locals, Wavs
  <2>2. l.done * l.frame_size \in Nat
    BY <2>1
  <2> QED BY <2>1, <2>2
<1>3. local' = [local EXCEPT ![t] = k3]
  <2>1. local' = [[[local EXCEPT ![t].to_do = n] EXCEPT ![t].left = n]
                    EXCEPT ![t].sret = sret]
    BY DEF TakeFrames
  <2> HIDE DEF sret
  <2> QED BY <2>1 DEF CopyType
<1> HIDE DEF sret
<1>4. /\ k3 \in Locals /\ k3.to_do = n /\ k3.left = n /\ k3.sret = sret
      /\ k3.done = l.done /\ k3.total = l.total /\ k3.frame_size = l.frame_size
  BY <1>1, <1>2 DEF Locals
<1> HIDE DEF k3
<1>5. local' \in [Workers -> Locals] /\ local'[t] = k3
  BY <1>3, <1>4 DEF CopyType
<1> QED BY <1>4, <1>5 DEF sret

LEMMA WrittenSets ==
  ASSUME CopyType, NEW t \in Workers, NEW upset \in BOOLEAN, Written(t, upset)
  PROVE  LET l == local[t]
             k == local'[t]
         IN /\ local' \in [Workers -> Locals]
            /\ k.done = l.done + l.to_do /\ k.to_do = 0
            /\ k.total = l.total /\ k.frame_size = l.frame_size
<1> DEFINE l == local[t]
           done == l.done + l.to_do
           up == l.upset \/ upset
           k1 == [l EXCEPT !.done = done]
           k2 == [k1 EXCEPT !.to_do = 0]
           k3 == [k2 EXCEPT !.started = TRUE]
           k4 == [k3 EXCEPT !.upset = up]
<1>1. l \in Locals
  BY DEF CopyType
<1>2. done \in Nat /\ up \in BOOLEAN
  BY <1>1 DEF Locals
<1>3. local' = [local EXCEPT ![t] = k4]
  <2>1. local' = [[[[local EXCEPT ![t].done = done] EXCEPT ![t].to_do = 0]
                    EXCEPT ![t].started = TRUE] EXCEPT ![t].upset = up]
    BY <1>1 DEF Written, CopyType, Locals
  <2> HIDE DEF done, up
  <2> QED BY <2>1 DEF CopyType
<1> HIDE DEF done, up
<1>4. /\ k4 \in Locals /\ k4.done = done /\ k4.to_do = 0
      /\ k4.total = l.total /\ k4.frame_size = l.frame_size
  BY <1>1, <1>2 DEF Locals
<1> HIDE DEF k4
<1>5. local' \in [Workers -> Locals] /\ local'[t] = k4
  BY <1>3, <1>4 DEF CopyType
<1> QED BY <1>4, <1>5 DEF done

LEMMA RecoverSets ==
  ASSUME CopyType, NEW t \in Workers, Recover(t)
  PROVE  LET l == local[t]
             k == local'[t]
         IN /\ local' \in [Workers -> Locals]
            /\ k.to_do = l.to_do /\ k.left = l.left /\ k.sret = l.sret
            /\ k.done = l.done /\ k.total = l.total
            /\ k.frame_size = l.frame_size
<1> DEFINE l == local[t]
           k == [l EXCEPT !.upset = TRUE]
<1>1. l \in Locals
  BY DEF CopyType
<1>2. local' = [local EXCEPT ![t] = k]
  BY DEF Recover
<1>3. /\ k \in Locals /\ k.to_do = l.to_do /\ k.left = l.left /\ k.sret = l.sret
      /\ k.done = l.done /\ k.total = l.total /\ k.frame_size = l.frame_size
  BY <1>1 DEF Locals
<1> HIDE DEF k
<1>4. local' \in [Workers -> Locals] /\ local'[t] = k
  BY <1>2, <1>3 DEF CopyType
<1> QED BY <1>3, <1>4

\* A copy of n of the frames that are left.
LEMMA CopySets ==
  ASSUME CopyType, NEW t \in Workers, NEW n \in Nat, n <= local[t].left,
         CopyFrames(t, n)
  PROVE  LET l == local[t]
             k == local'[t]
         IN /\ local' \in [Workers -> Locals]
            /\ k.left = l.left - n
            /\ k.sret = l.sret + n * mgr.frame_size
            /\ k.to_do = l.to_do /\ k.done = l.done /\ k.total = l.total
            /\ k.frame_size = l.frame_size
<1> DEFINE l == local[t]
           sret == l.sret + n * mgr.frame_size
           left == l.left - n
           k1 == [l EXCEPT !.sret = sret]
           k2 == [k1 EXCEPT !.left = left]
<1>1. l \in Locals /\ mgr.frame_size \in Nat
  BY DEF CopyType
<1>2. sret \in Nat /\ left \in Nat
  <2>1. l.sret \in Nat /\ l.left \in Nat /\ n * mgr.frame_size \in Nat
    BY <1>1 DEF Locals
  <2> QED BY <2>1
<1>3. local' = [local EXCEPT ![t] = k2]
  <2>1. local' = [[local EXCEPT ![t].sret = sret] EXCEPT ![t].left = left]
    BY <1>1 DEF CopyFrames, CopyType, Locals
  <2> HIDE DEF sret, left
  <2> QED BY <2>1 DEF CopyType
<1> HIDE DEF sret, left
<1>4. /\ k2 \in Locals /\ k2.left = left /\ k2.sret = sret
      /\ k2.to_do = l.to_do /\ k2.done = l.done /\ k2.total = l.total
      /\ k2.frame_size = l.frame_size
  BY <1>1, <1>2 DEF Locals
<1> HIDE DEF k2
<1>5. local' \in [Workers -> Locals] /\ local'[t] = k2
  BY <1>3, <1>4 DEF CopyType
<1> QED BY <1>4, <1>5 DEF sret, left

LEMMA SizeSets ==
  ASSUME CopyType, NEW t \in Workers, Size(t), mgr.frame_size # 0
  PROVE  LET l == local[t]
             k == local'[t]
         IN /\ local' \in [Workers -> Locals]
            /\ k.frame_size = mgr.frame_size
            /\ k.total = file[t].data_size \div mgr.frame_size
            /\ k.done = l.done /\ k.to_do = l.to_do
<1> DEFINE l == local[t]
           total == file[t].data_size \div mgr.frame_size
           k1 == [l EXCEPT !.frame_size = mgr.frame_size]
           k2 == [k1 EXCEPT !.total = total]
<1>1. l \in Locals /\ mgr.frame_size \in Nat \ {0} /\ file[t].data_size \in Nat
  BY DEF CopyType, Wavs
<1>2. total \in Nat
  BY <1>1, WholeFrames
<1>3. local' = [local EXCEPT ![t] = k2]
  <2>1. local' = [[local EXCEPT ![t].frame_size = mgr.frame_size]
                   EXCEPT ![t].total = total]
    BY DEF Size
  <2> HIDE DEF total
  <2> QED BY <2>1 DEF CopyType
<1> HIDE DEF total
<1>4. /\ k2 \in Locals /\ k2.frame_size = mgr.frame_size /\ k2.total = total
      /\ k2.done = l.done /\ k2.to_do = l.to_do
  BY <1>1, <1>2 DEF Locals
<1> HIDE DEF k2
<1>5. local' \in [Workers -> Locals] /\ local'[t] = k2
  BY <1>3, <1>4 DEF CopyType
<1> QED BY <1>4, <1>5 DEF total

\* The steps of the playback that move frames.
LEMMA WaitMoves ==
  ASSUME MgrType, CopyType, NEW t \in Workers, Wait(t), mgr.pcm \in Open,
         local[t].done + local[t].to_do <= local[t].total
  PROVE  /\ pc[t] = "wait" /\ UNCHANGED <<mgr, handle, file, overread>>
         /\ \/ Recover(t)
            \/ \E n \in Nat : /\ TakeFrames(t, n)
                              /\ local[t].done + n <= local[t].total
            \/ PlayFails(t)
<1> DEFINE rest == local[t].total - local[t].done
           n == Min({rest, Avail, Chunk})
<1>1. rest \in Nat /\ Avail \in Int /\ Chunk \in Nat
  <2>1. /\ local[t] \in Locals /\ ring.fill \in Nat
        /\ Ring \in Nat /\ Chunk \in Nat
    BY AudioAssumption DEF CopyType
  <2>2. Avail \in Int
    BY <2>1 DEF Avail
  <2>3. rest \in Nat
    BY <2>1 DEF Locals
  <2> QED BY <2>1, <2>2, <2>3
<1>2. Avail > 0 => n \in Nat /\ n <= rest
  <2> HIDE DEF rest
  <2>1. rest \in Int /\ Chunk \in Int
    BY <1>1
  <2>2. n \in {rest, Avail, Chunk} /\ n <= rest
    BY <1>1, <2>1, MinOfThree, Zenon
  <2> HIDE DEF n
  <2> QED BY <1>1, <2>2
<1>3. local[t].done \in Nat /\ local[t].total \in Nat
  BY DEF CopyType, Locals
<1>4. \/ Recover(t)
      \/ Avail > 0 /\ TakeFrames(t, n)
      \/ PlayFails(t)
  BY DEF Wait, Call
<1>5. pc[t] = "wait" /\ UNCHANGED <<mgr, handle, file, overread>>
  <2>1. pc[t] = "wait" /\ UNCHANGED file
    BY DEF Wait, work
  <2>2. ASSUME TakeFrames(t, n)
        PROVE  UNCHANGED <<mgr, handle, overread>>
    BY <2>2 DEF TakeFrames
  <2> HIDE DEF n
  <2> QED BY <1>4, <2>1, <2>2 DEF Recover, PlayFails
<1>6. CASE Avail > 0 /\ TakeFrames(t, n)
  <2> HIDE DEF n
  <2>1. local[t].done + n <= local[t].total
    BY <1>2, <1>3, <1>6
  <2> QED BY <1>2, <1>5, <1>6, <2>1
<1> HIDE DEF n
<1> QED BY <1>4, <1>5, <1>6

LEMMA WriteMoves ==
  ASSUME MgrType, CopyType, NEW t \in Workers, Write(t), mgr.pcm \in Open
  PROVE  /\ pc[t] = "write" /\ UNCHANGED <<mgr, handle, file>>
         /\ \/ Recover(t) /\ UNCHANGED overread
            \/ \E n \in Nat \ {0} : n <= local[t].left /\ CopyFrames(t, n)
            \/ PlayFails(t) /\ UNCHANGED overread
<1>1. local[t].left \in Nat /\ Avail \in Int
  <2>1. local[t] \in Locals /\ Ring \in Nat /\ ring.fill \in Nat
    BY AudioAssumption DEF CopyType
  <2> QED BY <2>1 DEF Avail, Locals
<1>2. \/ Recover(t)
      \/ \E n \in 1 .. Min({local[t].left, Avail}) : CopyFrames(t, n)
      \/ PlayFails(t)
  BY NullIsNone DEF Write, Call
<1>3. \A n \in 1 .. Min({local[t].left, Avail}) :
        n \in Nat \ {0} /\ n <= local[t].left
  BY <1>1, MinOfTwo
<1>4. pc[t] = "write" /\ UNCHANGED file
  BY DEF Write, work
<1>5. \A n : CopyFrames(t, n) => UNCHANGED <<mgr, handle>>
  BY DEF CopyFrames
<1> QED BY <1>2, <1>3, <1>4, <1>5 DEF Recover, PlayFails

\* The other steps of a work leave the file alone, and the locals but at the
\* end of a playback.
Quiet(t) ==
  /\ UNCHANGED <<file, overread>>
  /\ \/ pc'[t] \notin Playing /\ Forget(t)
     \/ pc'[t] \notin Playing /\ pc[t] \notin Playing /\ local' = local
     \/ pc[t] = "prepare" /\ pc'[t] = "wait" /\ local' = local /\ mgr' = mgr

Shared ==
  /\ mgr.fmt \in Formats /\ mgr.frame_size \in Nat
  /\ DOMAIN ring = {"state", "fill"} /\ ring.fill \in Nat

LEMMA QuietSteps ==
  ASSUME NEW t \in Workers, MgrType, HandleInv(t), CopyType, Manager(t) \/ Validate(t) \/ Prepare(t) \/ PlayEnd(t)
  PROVE  Quiet(t) /\ Shared'
<1> DEFINE FmtT == mgr'.fmt \in Formats /\ mgr'.frame_size \in Nat
           RingT == DOMAIN ring' = {"state", "fill"} /\ ring'.fill \in Nat
<1>t. pc \in [Workers -> Labels]
  BY DEF MgrType
<1>m. UNCHANGED mgr => FmtT
  BY DEF CopyType
<1>s. \A state : ring' = Stream(state) => RingT
  BY DEF Stream
<1>r. UNCHANGED ring => RingT
  BY DEF CopyType
<1>p. ASSUME NEW l \in Labels \ Playing, Proceed(t, l), UNCHANGED <<file, overread>>,
             pc[t] \notin Playing
      PROVE  Quiet(t)
  BY <1>p, <1>t DEF Quiet, Proceed, Goto
<1>l. ASSUME NEW ok \in BOOLEAN, Leave(t, ok), UNCHANGED <<file, overread>>
      PROVE  Quiet(t)
  BY <1>l, LeaveEnds DEF Quiet, Playing
<1>o. ASSUME NEW m, DOMAIN m = DOMAIN mgr, OpenFailed(t, m), UNCHANGED <<file, overread>>,
             m.fmt = mgr.fmt, m.frame_size = mgr.frame_size
      PROVE  Quiet(t) /\ FmtT
  <2>1. Forget(t) /\ pc'[t] \in {"idle", "release"}
        /\ mgr'.fmt = m.fmt /\ mgr'.frame_size = m.frame_size
    BY <1>o, FailedOpenEnds
  <2> QED BY <1>o, <2>1 DEF Quiet, Playing, CopyType
<1> USE DEF Playing, Labels
<1>1. CASE MgrInit(t)
  <2>1. Quiet(t)
    BY <1>1, <1>p DEF MgrInit, work
  <2>2. FmtT
    <3>1. file[t].fmt \in Formats
      BY DEF CopyType, Wavs
    <3> QED BY <1>1, <3>1 DEF MgrInit
  <2> QED BY <1>1, <1>s, <2>1, <2>2 DEF MgrInit, Shared
<1>2. CASE PcmCheck(t)
  <2>0. UNCHANGED <<file, overread, ring>>
    BY <1>2 DEF PcmCheck, work
  <2>1. CASE mgr.device_name
    <3>1. Quiet(t)
      BY <1>2, <1>p, <2>0, <2>1 DEF PcmCheck
    <3> QED BY <1>2, <1>m, <1>r, <2>0, <2>1, <3>1 DEF PcmCheck, Shared
  <2>2. CASE ~mgr.device_name
    <3>1. OpenFailed(t, mgr)
      BY <1>2, <2>2 DEF PcmCheck
    <3> QED BY <1>o, <1>r, <2>0, <3>1 DEF Shared
  <2> QED BY <2>1, <2>2
<1>3. CASE PcmOpen(t)
  <2>0. UNCHANGED <<file, overread, ring>>
    BY <1>3 DEF PcmOpen, work
  <2>1. CASE OpenFailed(t, mgr)
    BY <1>o, <1>r, <2>0, <2>1 DEF Shared
  <2>2. CASE \E h \in Handles :
          /\ mgr' = [mgr EXCEPT !.pcm = h]
          /\ Proceed(t, IF pc[t] = "opening" THEN "config" ELSE "reconfig")
    <3>1. Quiet(t)
      BY <1>3, <1>p, <2>0, <2>2 DEF PcmOpen
    <3>2. FmtT
      BY <2>2 DEF CopyType, MgrType
    <3> QED BY <1>r, <2>0, <3>1, <3>2 DEF Shared
  <2> QED BY <1>3, <2>1, <2>2 DEF PcmOpen
<1>4. CASE PcmConfig(t)
  <2>0. mgr.pcm \in Open /\ UNCHANGED file /\ pc[t] \notin Playing
    BY <1>4 DEF PcmConfig, HandleInv, work
  <2>1. CASE Configured(t)
    <3>1. Quiet(t)
      BY <1>p, <2>0, <2>1 DEF Configured
    <3>2. FmtT
      <4>1. BlockAlign(mgr.fmt) \in Nat /\ mgr.fmt \in Formats
        BY AlignNat DEF CopyType
      <4>2. mgr' = [mgr EXCEPT !.frame_size = BlockAlign(mgr.fmt)]
        BY <2>1 DEF Configured
      <4> QED BY <4>1, <4>2 DEF MgrType
    <3> QED BY <1>s, <2>1, <3>1, <3>2 DEF Configured, Shared
  <2>2. CASE /\ Proceed(t, IF pc[t] = "config" THEN "close" ELSE "reclose")
             /\ UNCHANGED <<mgr, ring, overread>>
    BY <1>m, <1>p, <1>r, <2>0, <2>2 DEF Shared
  <2> QED BY <1>4, <2>0, <2>1, <2>2 DEF PcmConfig, Call
<1>5. CASE PcmForget(t)
  <2> DEFINE m == [mgr EXCEPT !.pcm = NULL]
  <2>1. DOMAIN m = DOMAIN mgr /\ m.fmt = mgr.fmt /\ m.frame_size = mgr.frame_size
    BY DEF MgrType
  <2>2. OpenFailed(t, m) /\ UNCHANGED <<file, overread, ring>>
    BY <1>5 DEF PcmForget, work
  <2> HIDE DEF m
  <2> QED BY <1>o, <1>r, <2>1, <2>2 DEF Shared
<1>6. CASE PcmDrain(t) \/ PcmClose(t)
  <2>0. mgr.pcm = NULL \/ mgr.pcm \in Open
    BY <1>6 DEF PcmDrain, PcmClose, HandleInv, Dead
  <2>1. UNCHANGED <<file, overread, mgr>> /\ pc[t] \notin Playing
    BY <1>6, <2>0, NullIsNone DEF PcmDrain, PcmClose, Call, work
  <2>2. \E l \in Labels \ Playing : Proceed(t, l)
    BY <1>6, <2>0, NullIsNone DEF PcmDrain, PcmClose, Call
  <2>3. RingT
    BY <1>6, <2>0, <1>r, <1>s, NullIsNone DEF PcmDrain, PcmClose, Call
  <2> QED BY <1>m, <1>p, <2>1, <2>2, <2>3 DEF Shared
<1>7. CASE ReinitSet(t) \/ ReleaseSet(t)
  <2>1. UNCHANGED <<file, overread, ring>> /\ pc[t] \notin Playing
        /\ \E l \in Labels \ Playing : Proceed(t, l)
    BY <1>7 DEF ReinitSet, ReleaseSet, work
  <2>2. FmtT
    <3>1. file[t].fmt \in Formats
      BY DEF CopyType, Wavs
    <3>2. ReinitFormat(file[t].fmt) \in Formats /\ NoFormat \in Formats
      BY <3>1 DEF ReinitFormat, NoFormat, Formats
    <3>3. mgr.frame_size \in Nat
      BY DEF CopyType
    <3>4. \/ mgr'.fmt = ReinitFormat(file[t].fmt) /\ mgr'.frame_size = mgr.frame_size
          \/ mgr'.fmt = NoFormat /\ mgr'.frame_size = 0
      BY <1>7, HandleForgotten
    <3> QED BY <3>2, <3>3, <3>4
  <2> QED BY <1>p, <1>r, <2>1, <2>2 DEF Shared
<1>8. CASE Validate(t)
  <2>1. UNCHANGED <<file, overread, ring, mgr>> /\ pc[t] = "validate"
        /\ (Proceed(t, "size") \/ Proceed(t, "reinit") \/ Leave(t, FALSE))
    BY <1>8 DEF Validate, work
  <2> QED BY <1>l, <1>m, <1>p, <1>r, <2>1 DEF Shared
<1>9. CASE Prepare(t)
  <2>0. mgr.pcm = NULL \/ mgr.pcm \in Open
    BY <1>9 DEF Prepare, HandleInv, Dead
  <2>1. /\ UNCHANGED <<file, overread, mgr>> /\ pc[t] = "prepare"
        /\ Proceed(t, "wait") \/ Leave(t, FALSE)
        /\ UNCHANGED ring \/ ring' = Stream("prepared")
    BY <1>9, <2>0, NullIsNone DEF Prepare, Call, work
  <2>2. Proceed(t, "wait") => Quiet(t)
    BY <1>t, <2>1 DEF Quiet, Proceed, Goto
  <2> QED BY <1>l, <1>m, <1>r, <1>s, <2>1, <2>2 DEF Shared
<1>10. CASE PlayEnd(t)
  <2>0. mgr.pcm \in Open
    BY <1>10 DEF PlayEnd, HandleInv
  <2>1. /\ UNCHANGED <<file, overread, mgr>> /\ Leave(t, TRUE)
        /\ ring' = Stream("setup")
    BY <1>10, <2>0 DEF PlayEnd, Call, work
  <2> QED BY <1>l, <1>m, <1>s, <2>1 DEF Shared
<1> QED BY <1>1, <1>2, <1>3, <1>4, <1>5, <1>6, <1>7, <1>8, <1>9, <1>10 DEF Manager

\* The steps that are not quiet, which leave the format alone.
LEMMA BusyKeepsFormat ==
  ASSUME CopyType, NEW t \in Workers, UNCHANGED <<mgr, file>>,
         local' \in [Workers -> Locals],
         DOMAIN ring' = {"state", "fill"}, ring'.fill \in Nat
  PROVE  CopyType'
BY DEF CopyType

LEMMA ForgetSets ==
  ASSUME CopyType, NEW t \in Workers, Forget(t)
  PROVE  local' \in [Workers -> Locals] /\ local'[t] = NoLocal
<1>1. NoLocal \in Locals
  BY DEF NoLocal, Locals
<1> QED BY <1>1 DEF Forget, CopyType

LEMMA CopyTypeStep ==
  ASSUME NEW t \in Workers, MgrType, HandleInv(t), CopyType, CopiesInside(t),
         Acts(t)
  PROVE  CopyType'
<1> DEFINE RingT == DOMAIN ring' = {"state", "fill"} /\ ring'.fill \in Nat
<1>s. \A state : ring' = Stream(state) => RingT
  BY DEF Stream
<1>r. UNCHANGED ring => RingT
  BY DEF CopyType
<1>0. UNCHANGED <<mgr, file, local, ring>> => CopyType'
  BY DEF CopyType
<1>1. CASE MapFile(t)
  <2>1. CASE UNCHANGED file
    BY <1>0, <1>1, <2>1 DEF MapFile
  <2>2. CASE \E f \in Files : Parses(f) /\ file' = [file EXCEPT ![t] = WavMap(f)]
    <3>1. PICK f \in Files : Parses(f) /\ file' = [file EXCEPT ![t] = WavMap(f)]
      BY <2>2
    <3>2. IsWav(f)
      BY AudioAssumption, Zenon
    <3>3. WavMap(f) \in Wavs
      BY <3>1, <3>2, ParserStaysInside, Zenon
    <3>4. file' \in [Workers -> Wavs]
      BY <3>1, <3>3 DEF CopyType
    <3> QED BY <1>1, <3>4 DEF MapFile, CopyType
  <2> QED BY <1>1, <2>1, <2>2 DEF MapFile
<1>2. CASE BeginRelease(t)
  BY <1>0, <1>2 DEF BeginRelease
<1>3. CASE Manager(t) \/ Validate(t) \/ Prepare(t) \/ PlayEnd(t)
  <2>1. Quiet(t) /\ Shared'
    BY <1>3, QuietSteps
  <2>2. local' \in [Workers -> Locals]
    BY <2>1, ForgetSets DEF Quiet, CopyType
  <2> QED BY <2>1, <2>2 DEF Quiet, Shared, CopyType
<1>4. CASE Size(t)
  <2>1. UNCHANGED <<mgr, file, ring>>
    BY <1>4 DEF Size, work
  <2>2. CASE mgr.frame_size = 0
    <3>1. Forget(t)
      BY <1>4, <2>2 DEF Size, Leave
    <3> QED BY <1>r, <2>1, <3>1, ForgetSets, BusyKeepsFormat
  <2>3. CASE mgr.frame_size # 0
    BY <1>4, <1>r, <2>1, <2>3, SizeSets, BusyKeepsFormat
  <2> QED BY <2>2, <2>3
<1>5. CASE Wait(t)
  <2>0. pc[t] = "wait"
    BY <1>5 DEF Wait
  <2>1. mgr.pcm \in Open /\ local[t].done + local[t].to_do <= local[t].total
    BY <2>0 DEF HandleInv, CopiesInside, Playing
  <2>2. /\ UNCHANGED <<mgr, handle, file, overread>>
        /\ \/ Recover(t)
           \/ \E n \in Nat : TakeFrames(t, n)
           \/ PlayFails(t)
    BY <1>5, <2>1, WaitMoves
  <2>3. CASE Recover(t)
    BY <1>s, <2>2, <2>3, RecoverSets, BusyKeepsFormat DEF Recover
  <2>4. CASE \E n \in Nat : TakeFrames(t, n)
    <3>1. PICK n \in Nat : TakeFrames(t, n)
      BY <2>4
    <3>2. UNCHANGED ring
      BY <3>1 DEF TakeFrames
    <3> QED BY <1>r, <2>2, <3>1, <3>2, TakeFramesSets, BusyKeepsFormat
  <2>5. CASE PlayFails(t)
    BY <1>r, <2>2, <2>5, ForgetSets, BusyKeepsFormat DEF PlayFails, Leave
  <2> QED BY <2>2, <2>3, <2>4, <2>5
<1>6. CASE Write(t)
  <2>0. pc[t] = "write"
    BY <1>6 DEF Write
  <2>1. mgr.pcm \in Open
    BY <2>0 DEF HandleInv
  <2>2. /\ UNCHANGED <<mgr, handle, file>>
        /\ \/ Recover(t)
           \/ \E n \in Nat : n <= local[t].left /\ CopyFrames(t, n)
           \/ PlayFails(t)
    BY <1>6, <2>1, WriteMoves
  <2>3. CASE Recover(t)
    BY <1>s, <2>2, <2>3, RecoverSets, BusyKeepsFormat DEF Recover
  <2>4. CASE \E n \in Nat : n <= local[t].left /\ CopyFrames(t, n)
    <3>1. PICK n \in Nat : n <= local[t].left /\ CopyFrames(t, n)
      BY <2>4
    <3>2. ring' = [ring EXCEPT !.fill = ring.fill + n]
      BY <3>1 DEF CopyFrames
    <3>3. RingT
      BY <3>2 DEF CopyType
    <3> QED BY <2>2, <3>1, <3>3, CopySets, BusyKeepsFormat
  <2>5. CASE PlayFails(t)
    BY <1>r, <2>2, <2>5, ForgetSets, BusyKeepsFormat DEF PlayFails, Leave
  <2> QED BY <2>2, <2>3, <2>4, <2>5
<1>7. CASE Start(t)
  <2>0. pc[t] = "start" /\ UNCHANGED file
    BY <1>7 DEF Start, work
  <2>1. mgr.pcm \in Open
    BY <2>0 DEF HandleInv
  <2>2. /\ \E upset \in BOOLEAN : Written(t, upset)
        /\ UNCHANGED ring \/ ring' = [ring EXCEPT !.state = "running"]
    BY <1>7, <2>1 DEF Start, Call
  <2>3. UNCHANGED mgr
    BY <2>2 DEF Written
  <2>4. RingT
    BY <2>2 DEF CopyType
  <2> QED BY <2>0, <2>2, <2>3, <2>4, WrittenSets, BusyKeepsFormat
<1> QED BY <1>1, <1>2, <1>3, <1>4, <1>5, <1>6, <1>7 DEF Acts, Playback

\* The size of a frame follows the format: a handle is configured before it is
\* used, and a format changes only where there is none.
LEMMA AlignInvStep ==
  ASSUME NEW t \in Workers, MgrType, HandleInv(t), AlignInv(t), Acts(t)
  PROVE  AlignInv(t)'
<1> DEFINE Configuring == {"config", "reconfig"}
<1>t. pc \in [Workers -> Labels]
  BY DEF MgrType
<1>k. ASSUME UNCHANGED <<mgr, handle>>, pc[t] \notin Configuring
      PROVE  AlignInv(t)'
  <2>1. Open' = Open
    BY <1>k DEF Open
  <2> QED BY <1>k, <2>1 DEF AlignInv
<1>n. CASE mgr'.pcm \notin Open' \/ pc'[t] \in Configuring
  BY <1>n DEF AlignInv
<1>0. mgr'.pcm = NULL => mgr'.pcm \notin Open'
  BY AudioAssumption DEF Open, Handles, NULL
<1>1. CASE MapFile(t) \/ BeginRelease(t)
  <2>1. UNCHANGED <<mgr, handle>> /\ pc[t] = "idle"
    BY <1>1 DEF MapFile, BeginRelease, Begin
  <2> QED BY <1>k, <2>1
<1>2. CASE MgrInit(t)
  <2>1. mgr'.pcm = NULL
    BY <1>2 DEF MgrInit
  <2> QED BY <1>0, <1>n, <2>1
<1>3. CASE PcmCheck(t)
  <2>1. mgr.pcm = NULL
    BY <1>3 DEF PcmCheck, HandleInv
  <2>2. CASE mgr.device_name
    <3>1. UNCHANGED mgr
      BY <1>3, <2>2 DEF PcmCheck
    <3> QED BY <1>0, <1>n, <2>1, <3>1
  <2>3. CASE ~mgr.device_name
    <3>1. OpenFailed(t, mgr)
      BY <1>3, <2>3 DEF PcmCheck
    <3> QED BY <1>0, <1>n, <2>1, <3>1, FailedOpenEnds
  <2> QED BY <2>2, <2>3
<1>4. CASE PcmOpen(t)
  <2>1. mgr.pcm = NULL
    BY <1>4 DEF PcmOpen, HandleInv
  <2>2. CASE OpenFailed(t, mgr)
    BY <1>0, <1>n, <2>1, <2>2, FailedOpenEnds
  <2>3. CASE Proceed(t, IF pc[t] = "opening" THEN "config" ELSE "reconfig")
    <3>1. pc'[t] \in Configuring
      BY <1>t, <2>3 DEF Proceed, Goto
    <3> QED BY <1>n, <3>1
  <2> QED BY <1>4, <2>2, <2>3 DEF PcmOpen
<1>5. CASE PcmConfig(t)
  <2>1. mgr.pcm \in Open
    BY <1>5 DEF PcmConfig, HandleInv
  <2>2. CASE Configured(t)
    <3>1. mgr'.fmt = mgr.fmt /\ mgr'.frame_size = BlockAlign(mgr.fmt)
      BY <2>2 DEF Configured, MgrType
    <3>2. BlockAlign(mgr'.fmt) = BlockAlign(mgr.fmt)
      BY <3>1 DEF BlockAlign, Width
    <3>3. mgr'.frame_size = BlockAlign(mgr'.fmt)
      BY <3>1, <3>2
    <3> QED BY <3>3 DEF AlignInv, BlockAlign, Width
  <2>3. CASE handle' = [handle EXCEPT ![mgr.pcm] = "closed"] /\ UNCHANGED mgr
    <3>1. mgr'.pcm \notin Open'
      BY <2>1, <2>3 DEF Open, MgrType
    <3> QED BY <1>5, <1>n, <3>1
  <2> QED BY <1>5, <2>1, <2>2, <2>3 DEF PcmConfig, Call
<1>6. CASE PcmForget(t)
  <2> DEFINE m == [mgr EXCEPT !.pcm = NULL]
  <2>1. DOMAIN m = DOMAIN mgr /\ m.pcm = NULL
    BY DEF MgrType
  <2>2. OpenFailed(t, m)
    BY <1>6 DEF PcmForget
  <2> HIDE DEF m
  <2>3. mgr'.pcm = NULL
    BY <2>1, <2>2, FailedOpenEnds
  <2> QED BY <1>0, <1>6, <1>n, <2>3
<1>7. CASE PcmDrain(t)
  <2>1. UNCHANGED <<mgr, handle>> /\ pc[t] \notin Configuring
    BY <1>7 DEF PcmDrain, Call
  <2> QED BY <1>7, <1>k, <2>1
<1>8. CASE PcmClose(t)
  <2>1. /\ UNCHANGED mgr /\ pc[t] \notin Configuring
        /\ \/ UNCHANGED handle
           \/ mgr.pcm \in Open /\ handle' = [handle EXCEPT ![mgr.pcm] = "closed"]
    BY <1>8 DEF PcmClose, Call
  <2>2. CASE UNCHANGED handle
    BY <1>8, <1>k, <2>1, <2>2
  <2>3. CASE mgr.pcm \in Open /\ handle' = [handle EXCEPT ![mgr.pcm] = "closed"]
    <3>1. mgr'.pcm \notin Open'
      BY <2>1, <2>3 DEF Open, MgrType
    <3> QED BY <1>8, <1>n, <3>1
  <2> QED BY <2>1, <2>2, <2>3
<1>9. CASE ReinitSet(t) \/ ReleaseSet(t)
  BY <1>0, <1>9, <1>n, HandleForgotten
<1>10. CASE Validate(t) \/ Size(t) \/ Prepare(t)
  <2>1. UNCHANGED <<mgr, handle>> /\ pc[t] \notin Configuring
    BY <1>10 DEF Validate, Size, Prepare, Call
  <2> QED BY <1>10, <1>k, <2>1
<1>11. CASE Wait(t) \/ Write(t)
  BY <1>11, <1>k, PlayMoves
<1>12. CASE Start(t) \/ PlayEnd(t)
  <2>1. UNCHANGED <<mgr, handle>> /\ pc[t] \notin Configuring
    BY <1>12 DEF Start, PlayEnd, Call, Written
  <2> QED BY <1>12, <1>k, <2>1
<1> QED BY <1>1, <1>2, <1>3, <1>4, <1>5, <1>6, <1>7, <1>8, <1>9, <1>10, <1>11,
           <1>12 DEF Acts, Manager, Playback

\* The end of what is copied: n of the frames left, and none beyond "total".
LEMMA CopyEndsInside ==
  ASSUME NEW wav \in Wavs, NEW l \in Locals, NEW n \in Nat, n <= l.left,
         l.left <= l.to_do, l.done + l.to_do <= l.total,
         l.total * l.frame_size <= wav.data_size,
         l.sret = wav.data + (l.done + l.to_do - l.left) * l.frame_size
  PROVE  /\ ~wav.wraps => l.sret + n * l.frame_size <= PcmEnd(wav)
         /\ l.sret + n * l.frame_size
              = wav.data + (l.done + l.to_do - (l.left - n)) * l.frame_size
<1> DEFINE k == l.done + l.to_do - l.left
           size == l.frame_size
<1>1. /\ wav.data \in Nat /\ wav.data_size \in Nat /\ wav.end \in Nat
      /\ ~wav.wraps => wav.data + wav.data_size <= wav.end
  BY DEF Wavs
<1>2. /\ l.done \in Nat /\ l.to_do \in Nat /\ l.left \in Nat /\ l.total \in Nat
      /\ size \in Nat
  BY DEF Locals
<1>3. /\ k \in Nat /\ k + n <= l.total
      /\ l.done + l.to_do - (l.left - n) = k + n
  BY <1>2
<1>4. l.sret = wav.data + k * size /\ l.total * size <= wav.data_size
  OBVIOUS
<1>5. ~wav.wraps => PcmEnd(wav) = wav.data + wav.data_size
  <2>1. wav.data + wav.data_size \in Int /\ wav.end \in Int
    BY <1>1
  <2> QED BY <1>1, <2>1, MinOfTwo DEF PcmEnd
<1> HIDE DEF k, size
<1>6. /\ k * size + n * size = (k + n) * size /\ (k + n) * size <= l.total * size
      /\ k * size \in Nat /\ n * size \in Nat /\ l.total * size \in Nat
  BY <1>2, <1>3, FramesFit
<1>7. l.sret + n * size = wav.data + (k + n) * size
  BY <1>1, <1>4, <1>6
<1>8. l.sret + n * size <= wav.data + wav.data_size
  BY <1>1, <1>4, <1>6, <1>7
<1> QED BY <1>3, <1>5, <1>7, <1>8 DEF size

\* The parser reads outside only where a size wraps.
LEMMA ParsesClean ==
  ASSUME NEW t \in Workers, MapFile(t)
  PROVE  (Clean => Clean') /\ (ParserInv => ParserInv')
<1>1. CASE UNCHANGED overread
  BY <1>1 DEF Clean, ParserInv
<1>2. CASE \E f \in Files : Overread("parser", Scan(f).wraps, Scan(f).outside)
  <2>1. PICK f \in Files : Overread("parser", Scan(f).wraps, Scan(f).outside)
    BY <1>2
  <2>2. IsWav(f)
    BY AudioAssumption, Zenon
  <2>3. ~Scan(f).wraps => ~Scan(f).outside
    BY <2>2, ParserStaysInside, Zenon
  <2>4. CASE Scan(f).outside
    <3>1. overread' = overread \cup {[by |-> "parser", wraps |-> Scan(f).wraps]}
      BY <2>1, <2>4 DEF Overread
    <3>2. [by |-> "parser", wraps |-> Scan(f).wraps].wraps
      BY <2>3, <2>4
    <3> QED BY <3>1, <3>2 DEF Clean, ParserInv
  <2>5. CASE ~Scan(f).outside
    BY <2>1, <2>5 DEF Overread, Clean, ParserInv
  <2> QED BY <2>4, <2>5
<1> QED BY <1>1, <1>2 DEF MapFile

LEMMA CopyInvStep ==
  ASSUME NEW t \in Workers, MgrType, HandleInv(t), CopyType, CopyType',
         AlignInv(t), CopiesInside(t), Clean, Acts(t)
  PROVE  CopiesInside(t)' /\ Clean'
<1>t. pc \in [Workers -> Labels]
  BY DEF MgrType
<1>k. UNCHANGED overread => Clean'
  BY DEF Clean
<1> USE <1>k
<1>f. ASSUME Forget(t), pc'[t] \notin Playing
      PROVE  CopiesInside(t)'
  <2>1. local'[t].done = 0 /\ local'[t].to_do = 0
    BY <1>f, ForgetSets DEF NoLocal
  <2>2. pc'[t] # "write"
    BY <1>f DEF Playing
  <2> QED BY <1>f, <2>1, <2>2 DEF CopiesInside
<1>q. CASE Quiet(t)
  <2>1. UNCHANGED <<file, overread>>
    BY <1>q DEF Quiet
  <2>2. CASE pc'[t] \notin Playing /\ Forget(t)
    BY <1>f, <2>1, <2>2
  <2>3. CASE pc'[t] \notin Playing /\ pc[t] \notin Playing /\ local' = local
    <3>1. pc'[t] # "write"
      BY <2>3 DEF Playing
    <3> QED BY <2>1, <2>3, <3>1 DEF CopiesInside
  <2>4. CASE pc[t] = "prepare" /\ pc'[t] = "wait" /\ local' = local /\ mgr' = mgr
    <3>1. pc[t] \in Playing /\ pc'[t] \in Playing /\ pc'[t] # "write"
      BY <2>4 DEF Playing
    <3> QED BY <2>1, <2>4, <3>1 DEF CopiesInside
  <2> QED BY <1>q, <2>2, <2>3, <2>4 DEF Quiet
<1>1. CASE MapFile(t)
  <2>1. pc[t] = "idle" /\ local' = local
    BY <1>1 DEF MapFile, Begin
  <2>2. pc'[t] \in {"idle", "parse", "init", "validate"}
    BY <1>1, <1>t, <2>1 DEF MapFile, Goto
  <2>3. pc[t] \notin Playing /\ pc'[t] \notin Playing /\ pc'[t] # "write"
    BY <2>1, <2>2 DEF Playing
  <2>4. CopiesInside(t)'
    BY <2>1, <2>3 DEF CopiesInside
  <2>5. Clean'
    BY <1>1, ParsesClean
  <2> QED BY <2>4, <2>5
<1>2. CASE BeginRelease(t)
  <2>1. /\ pc[t] = "idle" /\ pc'[t] = "release" /\ UNCHANGED <<local, file, overread>>
    BY <1>2, <1>t DEF BeginRelease, Begin, Goto
  <2> QED BY <1>q, <2>1 DEF Quiet, Playing
<1>3. CASE Manager(t) \/ Validate(t) \/ Prepare(t) \/ PlayEnd(t)
  BY <1>3, <1>q, QuietSteps
<1>4. CASE Size(t)
  <2>1. UNCHANGED <<mgr, file, overread>> /\ pc[t] = "size"
    BY <1>4 DEF Size, work
  <2>2. CASE mgr.frame_size = 0
    <3>1. Leave(t, FALSE)
      BY <1>4, <2>2 DEF Size
    <3> QED BY <1>f, <2>1, <3>1, LeaveEnds DEF Playing
  <2>3. CASE mgr.frame_size # 0
    <3>1. /\ local'[t].frame_size = mgr.frame_size
          /\ local'[t].total = file[t].data_size \div mgr.frame_size
          /\ local'[t].done = local[t].done /\ local'[t].to_do = local[t].to_do
      BY <1>4, <2>3, SizeSets
    <3>2. local[t].done = 0 /\ local[t].to_do = 0
      BY <2>1 DEF CopiesInside, Playing
    <3>3. mgr.frame_size \in Nat \ {0} /\ file[t].data_size \in Nat
      BY <2>3 DEF CopyType, Wavs
    <3>4. /\ local'[t].total \in Nat
          /\ local'[t].total * mgr.frame_size <= file[t].data_size
      BY <3>1, <3>3, WholeFrames
    <3>5. pc'[t] = "prepare"
      BY <1>4, <1>t, <2>3 DEF Size, Goto
    <3> QED BY <2>1, <3>1, <3>2, <3>4, <3>5 DEF CopiesInside, Playing
  <2> QED BY <2>2, <2>3
<1>5. CASE Wait(t)
  <2>0. pc[t] = "wait"
    BY <1>5 DEF Wait
  <2>1. /\ mgr.pcm \in Open /\ local[t].done + local[t].to_do <= local[t].total
        /\ local[t].frame_size = mgr.frame_size
        /\ local[t].total * local[t].frame_size <= file[t].data_size
    BY <2>0 DEF HandleInv, CopiesInside, Playing
  <2>2. /\ UNCHANGED <<mgr, handle, file, overread>>
        /\ \/ Recover(t)
           \/ \E n \in Nat : TakeFrames(t, n) /\ local[t].done + n <= local[t].total
           \/ PlayFails(t)
    BY <1>5, <2>1, WaitMoves
  <2>3. CASE Recover(t)
    <3>1. pc' = pc
      BY <2>3 DEF Recover
    <3> QED BY <2>0, <2>2, <2>3, <3>1, RecoverSets DEF CopiesInside
  <2>4. CASE \E n \in Nat : TakeFrames(t, n) /\ local[t].done + n <= local[t].total
    <3>1. PICK n \in Nat : TakeFrames(t, n) /\ local[t].done + n <= local[t].total
      BY <2>4
    <3>2. pc'[t] = "write"
      BY <1>t, <3>1 DEF TakeFrames, Goto
    <3> DEFINE l == local[t]
               k == local'[t]
    <3>3. /\ k.to_do = n /\ k.left = n /\ k.done = l.done /\ k.total = l.total
          /\ k.frame_size = l.frame_size
          /\ k.sret = file[t].data + l.done * l.frame_size
      BY <3>1, TakeFramesSets
    <3>4. l.done \in Nat /\ k.done + k.to_do - k.left = l.done
      <4>1. l.done \in Nat
        BY DEF CopyType, Locals
      <4> HIDE DEF k, l
      <4> QED BY <3>3, <4>1
    <3>5. /\ k.frame_size = mgr'.frame_size /\ k.done + k.to_do <= k.total
          /\ k.total * k.frame_size <= file'[t].data_size
          /\ k.left <= k.to_do
          /\ k.sret = file'[t].data + (k.done + k.to_do - k.left) * k.frame_size
      BY <2>1, <2>2, <3>1, <3>3, <3>4
    <3> QED BY <3>2, <3>5, <2>2 DEF CopiesInside, Playing
  <2>5. CASE PlayFails(t)
    <3>1. Forget(t) /\ pc'[t] \in {"idle", "release"}
      BY <2>5, LeaveEnds DEF PlayFails
    <3>2. pc'[t] \notin Playing
      BY <3>1 DEF Playing
    <3>3. Clean'
      BY <2>2, <2>5 DEF PlayFails
    <3> QED BY <1>f, <3>1, <3>2, <3>3
  <2> QED BY <2>2, <2>3, <2>4, <2>5
<1>6. CASE Write(t)
  <2>0. pc[t] = "write"
    BY <1>6 DEF Write
  <2> DEFINE l == local[t]
             k == local'[t]
             wav == file[t]
  <2>1. /\ mgr.pcm \in Open /\ l.done + l.to_do <= l.total
        /\ l.frame_size = mgr.frame_size
        /\ l.total * l.frame_size <= wav.data_size
        /\ l.left <= l.to_do
        /\ l.sret = wav.data + (l.done + l.to_do - l.left) * l.frame_size
    BY <2>0 DEF HandleInv, CopiesInside, Playing
  <2>2. /\ UNCHANGED <<mgr, handle, file>>
        /\ \/ Recover(t) /\ UNCHANGED overread
           \/ \E n \in Nat : n <= l.left /\ CopyFrames(t, n)
           \/ PlayFails(t) /\ UNCHANGED overread
    BY <1>6, <2>1, WriteMoves
  <2>3. CASE Recover(t) /\ UNCHANGED overread
    <3>1. pc' = pc
      BY <2>3 DEF Recover
    <3> QED BY <2>0, <2>2, <2>3, <3>1, RecoverSets DEF CopiesInside
  <2>4. CASE \E n \in Nat : n <= l.left /\ CopyFrames(t, n)
    <3>1. PICK n \in Nat : n <= l.left /\ CopyFrames(t, n)
      BY <2>4
    <3>2. pc'[t] \in {"write", "start"}
      BY <1>t, <3>1 DEF CopyFrames, Goto
    <3>3. /\ k.left = l.left - n /\ k.sret = l.sret + n * mgr.frame_size
          /\ k.to_do = l.to_do /\ k.done = l.done /\ k.total = l.total
          /\ k.frame_size = l.frame_size
      BY <3>1, CopySets
    <3>4. l \in Locals /\ wav \in Wavs
      BY DEF CopyType
    <3>5. /\ ~wav.wraps => l.sret + n * l.frame_size <= PcmEnd(wav)
          /\ l.sret + n * l.frame_size
               = wav.data + (l.done + l.to_do - (l.left - n)) * l.frame_size
      <4> HIDE DEF l, wav
      <4> QED BY <2>1, <3>1, <3>4, CopyEndsInside
    <3>6. Clean'
      <4>1. mgr.frame_size = BlockAlign(mgr.fmt)
        BY <2>0, <2>1 DEF AlignInv
      <4>2. CASE wav.wraps
        BY <3>1, <4>2 DEF CopyFrames, Overread, Clean
      <4>3. CASE ~wav.wraps
        <5>1. l.sret + n * l.frame_size \in Int /\ PcmEnd(wav) \in Int
          <6>1. l.sret \in Nat /\ l.frame_size \in Nat
            BY <3>4 DEF Locals
          <6>2. n * l.frame_size \in Nat
            BY <6>1
          <6>3. wav.data + wav.data_size \in Int /\ wav.end \in Int
            BY <3>4 DEF Wavs
          <6>4. PcmEnd(wav) \in Int
            BY <6>3, MinOfTwo DEF PcmEnd
          <6> QED BY <6>1, <6>2, <6>4
        <5> DEFINE past == l.sret + n * BlockAlign(mgr.fmt) > PcmEnd(wav)
        <5>2. Overread("copy", wav.wraps, past)
          BY <3>1 DEF CopyFrames
        <5> HIDE DEF l, wav
        <5>3. ~past
          BY <2>1, <3>5, <4>1, <4>3, <5>1
        <5> HIDE DEF past
        <5> QED BY <5>2, <5>3 DEF Overread
      <4> QED BY <4>2, <4>3
    <3>7. /\ k.frame_size = mgr'.frame_size /\ k.done + k.to_do <= k.total
          /\ k.total * k.frame_size <= file'[t].data_size
          /\ k.left <= k.to_do
          /\ k.sret = file'[t].data + (k.done + k.to_do - k.left) * k.frame_size
      <4>1. l.left \in Nat /\ l.to_do \in Nat
        BY <3>4 DEF Locals
      <4>2. k.left <= k.to_do
        BY <2>1, <3>1, <3>3, <4>1
      <4> HIDE DEF l, k
      <4> QED BY <2>1, <2>2, <3>3, <3>5, <4>2 DEF l
    <3>8. CopiesInside(t)'
      BY <2>2, <3>2, <3>7 DEF CopiesInside, Playing
    <3> QED BY <3>6, <3>8
  <2>5. CASE PlayFails(t) /\ UNCHANGED overread
    <3>1. Forget(t) /\ pc'[t] \in {"idle", "release"}
      BY <2>5, LeaveEnds DEF PlayFails
    <3>2. pc'[t] \notin Playing
      BY <3>1 DEF Playing
    <3>3. Clean'
      BY <2>2, <2>5 DEF PlayFails
    <3> QED BY <1>f, <3>1, <3>2, <3>3
  <2> QED BY <2>2, <2>3, <2>4, <2>5
<1>7. CASE Start(t)
  <2>0. pc[t] = "start" /\ UNCHANGED file
    BY <1>7 DEF Start, work
  <2>1. /\ mgr.pcm \in Open /\ local[t].done + local[t].to_do <= local[t].total
        /\ local[t].frame_size = mgr.frame_size
        /\ local[t].total * local[t].frame_size <= file[t].data_size
    BY <2>0 DEF HandleInv, CopiesInside, Playing
  <2>2. PICK upset \in BOOLEAN : Written(t, upset)
    BY <1>7, <2>1 DEF Start, Call
  <2>3. UNCHANGED <<mgr, overread>> /\ pc'[t] = "wait"
    BY <1>t, <2>2 DEF Written, Goto
  <2>4. /\ local'[t].done = local[t].done + local[t].to_do /\ local'[t].to_do = 0
        /\ local'[t].total = local[t].total
        /\ local'[t].frame_size = local[t].frame_size
    BY <2>2, WrittenSets
  <2>5. local'[t].done + local'[t].to_do <= local'[t].total
    <3>1. local[t].done \in Nat /\ local[t].to_do \in Nat /\ local[t].total \in Nat
      BY DEF CopyType, Locals
    <3> QED BY <2>1, <2>4, <3>1
  <2> QED BY <2>0, <2>1, <2>3, <2>4, <2>5 DEF CopiesInside, Playing
<1> QED BY <1>1, <1>2, <1>3, <1>4, <1>5, <1>6, <1>7 DEF Acts, Playback

-----------------------------------------------------------------------------
\* The steps that are not those of a worker.
LEMMA DeviceSteps ==
  ASSUME AudioInv, Consume \/ UNCHANGED vars
  PROVE  AudioInv'
<1>1. /\ UNCHANGED <<mgr, handle, pc, task, file, mapped, local, crashed, calls,
                     overread, overlaps>>
      /\ CopyType => CopyType'
  <2>1. CASE Consume
    <3>1. CopyType => DOMAIN ring' = {"state", "fill"} /\ ring'.fill \in Nat
      BY <2>1 DEF Consume, CopyType, Stream
    <3> QED BY <2>1, <3>1 DEF Consume, CopyType, work
  <2>2. CASE UNCHANGED vars
    BY <2>2 DEF vars, CopyType
  <2> QED BY <2>1, <2>2
<1>2. MgrType' /\ MapInv' /\ ParserInv' /\ (Overlapped' = Overlapped)
  BY <1>1 DEF AudioInv, MgrType, MapInv, ParserInv, Overlapped
<1>3. \A t \in Workers :
        /\ Only(t)' = Only(t) /\ CopiesInside(t)' = CopiesInside(t)
        /\ HandleInv(t)' = HandleInv(t) /\ LeakInv(t)' = LeakInv(t)
        /\ AlignInv(t)' = AlignInv(t)
  BY <1>1 DEF Only, CopiesInside, HandleInv, LeakInv, AlignInv, Forgotten, Open
<1>4. Clean' = Clean
  BY <1>1 DEF Clean
<1> QED BY <1>1, <1>2, <1>3, <1>4 DEF AudioInv, Sequential

\* A worker moves itself only.
LEMMA OthersStay ==
  ASSUME MgrType, CopyType, NEW t \in Workers, Acts(t), NEW s \in Workers, s # t
  PROVE  pc'[s] = pc[s] /\ local'[s] = local[s]
<1> DEFINE Goes == pc' = pc \/ \E l : Goto(t, l)
           Sets == local' = local \/ \E l : local' = [local EXCEPT ![t] = l]
<1>0. Goes /\ Sets => pc'[s] = pc[s] /\ local'[s] = local[s]
  BY DEF MgrType, CopyType, Goto
<1>p. \A l : Proceed(t, l) => Goes /\ Sets
  BY DEF Proceed
<1>l. \A ok : Leave(t, ok) => Goes /\ Sets
  BY DEF Leave, Forget
<1>o. \A m : OpenFailed(t, m) => Goes /\ Sets
  BY <1>l DEF OpenFailed, Forget
<1>u. UNCHANGED <<pc, local>> => Goes /\ Sets
  OBVIOUS
<1> HIDE DEF Goes, Sets
<1>1. CASE MapFile(t) \/ BeginRelease(t)
  BY <1>1 DEF MapFile, BeginRelease, Goes, Sets, MgrType, Goto
<1>2. CASE Manager(t)
  BY <1>0, <1>2, <1>p, <1>o, <1>u
     DEF Manager, MgrInit, PcmCheck, PcmOpen, PcmConfig, PcmForget, PcmDrain,
         PcmClose, ReinitSet, ReleaseSet, Call, Configured
<1>3. CASE Validate(t) \/ Prepare(t) \/ PlayEnd(t)
  BY <1>0, <1>3, <1>p, <1>l, <1>u DEF Validate, Prepare, PlayEnd, Call
<1>4. CASE Size(t) \/ Wait(t) \/ Write(t) \/ Start(t)
  <2>1. PlayFails(t) => Goes /\ Sets
    BY <1>l DEF PlayFails
  <2>2. CASE Size(t)
    BY <1>0, <1>l, <2>2 DEF Size, Goes, Sets, CopyType
  <2>3. CASE Wait(t)
    BY <1>0, <1>u, <2>1, <2>3
       DEF Wait, Call, Recover, TakeFrames, Goes, Sets, CopyType
  <2>4. CASE Write(t)
    BY <1>0, <1>u, <2>1, <2>4
       DEF Write, Call, Recover, CopyFrames, Goes, Sets, CopyType
  <2>5. CASE Start(t)
    BY <1>0, <1>u, <2>5 DEF Start, Call, Written, Goes, Sets, CopyType
  <2> QED BY <1>4, <2>2, <2>3, <2>4, <2>5
<1> QED BY <1>1, <1>2, <1>3, <1>4 DEF Acts, Playback

\* As long as no works overlap, a worker acts while the others are idle.
LEMMA ActsAlone ==
  ASSUME AudioInv, ~Overlapped', NEW t \in Workers, Acts(t)
  PROVE  ~Overlapped /\ Sequential /\ Only(t)
<1>1. overlaps \in Nat
  BY DEF AudioInv, MgrType
<1>2. CASE MapFile(t) \/ BeginRelease(t)
  <2>1. overlaps' = IF overlaps > 0 \/ \E s \in Workers \ {t} : pc[s] # "idle"
                    THEN overlaps + 1 ELSE 0
    BY <1>2 DEF MapFile, BeginRelease, Begin
  <2>2. overlaps = 0 /\ \A s \in Workers \ {t} : pc[s] = "idle"
    BY <1>1, <2>1 DEF Overlapped
  <2> QED BY <2>2 DEF Overlapped, AudioInv, Only
<1>3. CASE Manager(t) \/ Playback(t)
  <2>1. overlaps' = overlaps
    BY <1>3 DEF Manager, Playback, work, MgrInit, PcmCheck, PcmOpen, PcmConfig,
                PcmForget, PcmDrain, PcmClose, ReinitSet, ReleaseSet, Validate,
                Size, Prepare, Wait, Write, Start, PlayEnd
  <2>2. pc[t] # "idle"
    BY <1>3 DEF Manager, Playback, MgrInit, PcmCheck, PcmOpen, PcmConfig,
                PcmForget, PcmDrain, PcmClose, ReinitSet, ReleaseSet, Validate,
                Size, Prepare, Wait, Write, Start, PlayEnd
  <2>3. ~Overlapped /\ Sequential
    BY <2>1 DEF Overlapped, AudioInv
  <2> QED BY <2>2, <2>3 DEF Sequential, Only
<1> QED BY <1>2, <1>3 DEF Acts

\* Between two works it makes no difference which worker takes the next one.
LEMMA SequentialStep ==
  ASSUME AudioInv, MgrType', ~crashed, ~Overlapped', NEW t \in Workers, Acts(t)
  PROVE  Sequential'
<1>1. MgrType /\ Sequential /\ Only(t)
  BY ActsAlone DEF AudioInv
<1>2. /\ CopyType /\ Clean /\ CopiesInside(t)
      /\ HandleInv(t) /\ LeakInv(t) /\ AlignInv(t)
  BY <1>1 DEF Sequential
<1>3. HandleInv(t)' /\ ~crashed'
  BY <1>1, <1>2, HandleInvStep
<1>4. LeakInv(t)'
  BY <1>1, <1>2, LeakInvStep
<1>5. AlignInv(t)'
  BY <1>1, <1>2, AlignInvStep
<1>6. CopyType'
  BY <1>1, <1>2, CopyTypeStep
<1>7. CopiesInside(t)' /\ Clean'
  BY <1>1, <1>2, <1>6, CopyInvStep
<1>8. \A s \in Workers \ {t} :
        pc[s] = "idle" /\ pc'[s] = "idle" /\ local'[s] = local[s]
  BY <1>1, <1>2, OthersStay DEF Only
<1>9. Only(t)'
  BY <1>8 DEF Only
<1>10. ASSUME NEW s \in Workers
       PROVE  /\ CopiesInside(s)'
              /\ Only(s)' => HandleInv(s)' /\ LeakInv(s)' /\ AlignInv(s)'
  <2>1. CASE s = t
    BY <1>3, <1>4, <1>5, <1>7, <2>1
  <2>2. CASE s # t
    <3>1. pc[s] = "idle" /\ pc'[s] = "idle" /\ local'[s] = local[s]
      BY <1>8, <2>2
    <3>2. CopiesInside(s)'
      <4>1. CopiesInside(s)
        BY <1>1 DEF Sequential
      <4> QED BY <3>1, <4>1 DEF CopiesInside, Playing
    <3>3. ASSUME Only(s)'
          PROVE  HandleInv(s)' /\ LeakInv(s)' /\ AlignInv(s)'
      <4>1. pc'[t] = "idle"
        BY <2>2, <3>3 DEF Only
      <4>2. HandleInv(s)' = HandleInv(t)'
        BY <3>1, <4>1 DEF HandleInv
      <4>3. LeakInv(s)' = LeakInv(t)'
        BY <3>1, <4>1 DEF LeakInv, Forgotten
      <4>4. AlignInv(s)' = AlignInv(t)'
        BY <3>1, <4>1 DEF AlignInv
      <4> QED BY <1>3, <1>4, <1>5, <4>2, <4>3, <4>4
    <3> QED BY <3>2, <3>3
  <2> QED BY <2>1, <2>2
<1> QED BY <1>3, <1>6, <1>7, <1>9, <1>10 DEF Sequential

\* A worker that reads past its PCM data does not parse.
LEMMA ParserInvStep ==
  ASSUME ParserInv, NEW t \in Workers, Acts(t)
  PROVE  ParserInv'
<1>0. UNCHANGED overread => ParserInv'
  BY DEF ParserInv
<1>1. CASE MapFile(t)
  BY <1>1, ParsesClean
<1>2. CASE BeginRelease(t)
  BY <1>0, <1>2 DEF BeginRelease
<1>3. CASE Manager(t)
  BY <1>0, <1>3
     DEF Manager, MgrInit, PcmCheck, PcmOpen, PcmConfig, PcmForget, PcmDrain,
         PcmClose, ReinitSet, ReleaseSet, Call, Configured
<1>4. CASE Playback(t) /\ ~Write(t)
  BY <1>0, <1>4
     DEF Playback, Validate, Size, Prepare, Wait, Start, PlayEnd, Call, Recover,
         TakeFrames, PlayFails, Written
<1>5. CASE Write(t)
  <2>1. ASSUME NEW n, CopyFrames(t, n)
        PROVE  ParserInv'
    <3>1. \E is : Overread("copy", file[t].wraps, is)
      BY <2>1, Zenon DEF CopyFrames
    <3> QED BY <3>1 DEF Overread, ParserInv
  <2> QED BY <1>0, <1>5, <2>1 DEF Write, Call, Recover, PlayFails
<1> QED BY <1>1, <1>2, <1>3, <1>4, <1>5 DEF Acts

LEMMA AudioInvStep ==
  ASSUME AudioInv, [Next]_vars
  PROVE  AudioInv'
<1>1. CASE Consume \/ UNCHANGED vars
  BY <1>1, DeviceSteps
<1>2. ASSUME ~crashed, NEW t \in Workers, Acts(t)
      PROVE  AudioInv'
  <2>1. MgrType' /\ MapInv'
    BY MgrTypeStep, MapInvStep DEF AudioInv
  <2>2. ParserInv'
    BY <1>2, ParserInvStep DEF AudioInv
  <2>3. ~Overlapped' => Sequential'
    BY <1>2, <2>1, SequentialStep
  <2> QED BY <2>1, <2>2, <2>3 DEF AudioInv
<1> QED BY <1>1, <1>2 DEF Next, Acts

LEMMA InitParts ==
  ASSUME Init, NEW t \in Workers
  PROVE  HandleInv(t) /\ LeakInv(t) /\ AlignInv(t) /\ CopiesInside(t)
<1> USE DEF Init, NoMgr
<1>1. Open = {}
  BY DEF Open
<1>2. HandleInv(t)
  BY DEF HandleInv, Dead
<1>3. LeakInv(t)
  <2>1. Forgotten(t) = {}
    BY <1>1 DEF Forgotten
  <2>2. pc[t] \notin Opening
    BY DEF Opening
  <2>3. calls.init = 0 /\ ~mgr.device_name
    OBVIOUS
  <2> QED BY <1>1, <2>1, <2>2, <2>3, FS_EmptySet, MaxOne DEF LeakInv
<1>4. AlignInv(t)
  BY NullIsNone DEF AlignInv
<1>5. CopiesInside(t)
  BY DEF NoLocal, CopiesInside, Playing
<1> QED BY <1>2, <1>3, <1>4, <1>5

LEMMA InitAudio == Init => AudioInv
<1> SUFFICES ASSUME Init
             PROVE  AudioInv
  OBVIOUS
<1>1. MgrType
  BY DEF Init, NoMgr, Labels, MgrType
<1>2. MapInv /\ ParserInv
  BY DEF Init, MapInv, Unmapped, ParserInv
<1>3. CopyType
  <2>1. NoFormat \in Formats /\ NoLocal \in Locals
    BY DEF NoFormat, NoLocal, Formats, Locals
  <2>2. NoWav \in Wavs
    BY <2>1 DEF NoWav, Wavs
  <2> QED BY <2>1, <2>2 DEF Init, NoMgr, Stream, CopyType
<1>4. ~crashed /\ Clean
  BY DEF Init, Clean
<1>5. \E t \in Workers : Only(t)
  <2>1. PICK t : t \in Workers
    BY AudioAssumption
  <2> QED BY <2>1 DEF Init, Only
<1> QED BY <1>1, <1>2, <1>3, <1>4, <1>5, InitParts DEF AudioInv, Sequential

LEMMA AudioHolds == Spec => []AudioInv
<1>1. AudioInv /\ [Next]_vars => AudioInv'
  BY AudioInvStep
<1> QED BY <1>1, InitAudio, PTL DEF Spec

(***************************************************************************)
(* HandleValid for every set of files, every number of workers and every   *)
(* bound: as long as no works overlap, whichever workers execute them,     *)
(* ALSA is not called on NULL nor on a closed handle.                      *)
(***************************************************************************)
THEOREM HandleStaysValid == Spec => []HandleValid
<1>1. AudioInv => HandleValid
  BY DEF AudioInv, Sequential, HandleValid
<1> QED BY <1>1, AudioHolds, PTL

(***************************************************************************)
(* NothingLeaks for every set of files, every number of workers and every  *)
(* bound: a file is mapped as long as its work lasts, on every path and    *)
(* with any works overlapping, and while none do there are, beside the     *)
(* handle of mgr->pcm, at most the ones a further init has forgotten.      *)
(***************************************************************************)
THEOREM LeaksNothing == Spec => []NothingLeaks
<1>1. ASSUME AudioInv
      PROVE  NothingLeaks
  <2> SUFFICES ASSUME ~Overlapped
               PROVE  Cardinality(Open \ {mgr.pcm}) <= Max({calls.init, 1}) - 1
    BY <1>1 DEF NothingLeaks, AudioInv, MapInv
  <2>1. PICK t \in Workers : LeakInv(t)
    BY <1>1 DEF AudioInv, Sequential
  <2>2. /\ Cardinality(Forgotten(t)) <= Max({calls.init, 1}) - 1
        /\ Forgotten(t) \subseteq Open /\ Open \ {mgr.pcm} \subseteq Forgotten(t)
    BY <2>1 DEF LeakInv, Forgotten
  <2>3. /\ Cardinality(Open \ {mgr.pcm}) <= Cardinality(Forgotten(t))
        /\ Cardinality(Open \ {mgr.pcm}) \in Nat /\ Cardinality(Forgotten(t)) \in Nat
    <3>1. IsFiniteSet(Forgotten(t)) /\ Cardinality(Forgotten(t)) \in Nat
      BY <2>2, PartOfOpen
    <3> QED BY <2>2, <3>1, FS_Subset, FS_CardinalityType
  <2>4. Max({calls.init, 1}) \in Nat
    BY <1>1, MaxOne DEF AudioInv, MgrType
  <2> QED BY <2>2, <2>3, <2>4
<1> QED BY <1>1, AudioHolds, PTL

(***************************************************************************)
(* ReadsInside for every set of files, of any sizes and with any chunks,   *)
(* every format, every number of workers and every size of the ring:       *)
(* unless a size wraps, the parser stays inside of the file, and while no  *)
(* works overlap the copies stay inside of its PCM data.                   *)
(***************************************************************************)
THEOREM CopiesStayInside == Spec => []ReadsInside
<1>1. AudioInv => ReadsInside
  BY DEF AudioInv, ParserInv, Sequential, Clean, ReadsInside
<1> QED BY <1>1, AudioHolds, PTL
=============================================================================
