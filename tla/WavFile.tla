------------------------------- MODULE WavFile -------------------------------
(***************************************************************************)
(* The parser of WAV files in src/src/audio/audio_effect.c.                *)
(*                                                                         *)
(* A file is its size and the chunks the parser meets if it follows the    *)
(* sizes they claim, from offset 12 on: the last may claim more bytes than *)
(* the file has.  Of the bytes only those the parser reads are kept.       *)
(*                                                                         *)
(* The parser computes with pointers into the mapping.  Where addresses    *)
(* are as short as the sizes, as on the 32-bit target, the end of a chunk  *)
(* may wrap around and pass the test of the end of the file.               *)
(***************************************************************************)
EXTENDS Naturals, SequencesExt

CONSTANTS
  Base,  \* where a file is mapped
  Space, \* the number of addresses
  Word   \* the number of values of a uint32_t

ASSUME WavAssumption ==
  Base \in Nat /\ Space \in Nat /\ Word \in Nat /\ Word <= Space

\* struct audio_format, without what is derived from it.
Formats == [pcm_format : Nat, channels : Nat, sample_rate : Nat]

PCM == 1
EXTENSIBLE == 65534

\* audio_bits_to_sndfmt: U8, S16_LE, S24_LE, S32_LE.
BitsToSndFmt ==
  [bits \in {8, 16, 24, 32} |->
     CASE bits = 8 -> 1 [] bits = 16 -> 2 [] bits = 24 -> 6 [] bits = 32 -> 10]

\* Of the payloads only that of a format is read.
Chunks ==
  [id : {"fmt"}, size : 0 .. Word - 1, tag : Nat, channels : Nat, rate : Nat,
   bits : Nat, cb : Nat] \cup [id : STRING \ {"fmt"}, size : 0 .. Word - 1]

\* What parse_fmt_chunk accepts; an extension is looked at only if there is
\* more than the 16 bytes of the basic header.
GoodFmt(chunk) ==
  /\ chunk.size >= 16 /\ chunk.size # 17
  /\ (chunk.size > 16 /\ chunk.tag = EXTENSIBLE) =>
       (chunk.cb >= 22 /\ chunk.size >= 40)
  /\ chunk.tag \in {PCM, EXTENSIBLE}
  /\ chunk.bits \in DOMAIN BitsToSndFmt

\* The bytes of its payload that parse_fmt_chunk reads.
FmtRead(chunk) ==
  IF chunk.size < 16 THEN 0 ELSE IF chunk.size < 18 THEN 16 ELSE 18

FmtOf(chunk) ==
  [pcm_format |-> BitsToSndFmt[chunk.bits], channels |-> chunk.channels,
   sample_rate |-> chunk.rate]

-----------------------------------------------------------------------------

\* The end of a mapped file, and of a chunk's payload: a sum of pointers.
End(file) == Base + file.size

Sum(a, n) == IF a + n < Space THEN a + n ELSE a + n - Space

PayloadEnd(at, chunk) == Sum(at + 8, chunk.size)

\* Mutant: a payload may pass the end of the file.
FitsHeader(file, at, chunk) == at + 8 <= End(file)

\* payload + chunk_size <= end
Fits(file, at, chunk) == PayloadEnd(at, chunk) <= End(file)

\* A scan is the pointer p, what was found, and what is said of it: has it
\* read outside of the file, and has the end of a chunk wrapped around?

\* The header at p is read, and n bytes of its payload.
Read(file, scan, n) ==
  [scan EXCEPT !.outside = @ \/ scan.at < Base \/ scan.at + 8 + n > End(file)]

\* The last fmt and the last data chunk win; others are skipped.
TakeFmt(scan, chunk) ==
  IF GoodFmt(chunk) THEN [scan EXCEPT !.fmt = <<FmtOf(chunk)>>]
  ELSE [scan EXCEPT !.bad = TRUE]

TakeData(scan, chunk) ==
  [scan EXCEPT !.data = <<[at |-> scan.at + 8, size |-> chunk.size]>>]

Take(file, scan, chunk) ==
  CASE chunk.id = "fmt" -> TakeFmt(Read(file, scan, FmtRead(chunk)), chunk)
    [] chunk.id = "data" -> TakeData(Read(file, scan, 0), chunk)
    [] OTHER -> Read(file, scan, 0)

\* p = next: the pad byte of an odd payload is not counted by its chunk.
Skip(scan, chunk) ==
  [scan EXCEPT !.at = PayloadEnd(scan.at, chunk) + (chunk.size % 2),
               !.wraps = @ \/ scan.at + 8 + chunk.size >= Space]

Ended(file, scan) == scan.bad \/ scan.at + 8 > End(file)

\* One turn of the loop of wav_parse_mmap.
Visit(file, scan, chunk) ==
  IF Ended(file, scan) THEN scan
  ELSE IF ~Fits(file, scan.at, chunk) THEN [Read(file, scan, 0) EXCEPT !.bad = TRUE]
  ELSE Skip(Take(file, scan, chunk), chunk)

\* Nothing is read of a file too short for the magic numbers.
ScanStart(file) ==
  [at |-> Base + 12, fmt |-> <<>>, data |-> <<>>, bad |-> file.size < 12,
   outside |-> FALSE, wraps |-> FALSE]

\* The turns of wav_parse_mmap, with the magic numbers in place.
Scans(file) ==
  LET scan[n \in 0 .. Len(file.chunks)] ==
        IF n = 0 THEN ScanStart(file) ELSE Visit(file, scan[n - 1], file.chunks[n])
  IN scan

Scan(file) == Scans(file)[Len(file.chunks)]

\* The parser is back at a chunk it has met, and goes round for ever.
Loops(file) ==
  /\ ~Ended(file, Scan(file))
  /\ \E n \in 0 .. Len(file.chunks) - 1 : Scans(file)[n].at = Scan(file).at

\* The chunks are all that the parser meets, and a mapping does not reach up to
\* the last addresses.
IsWav(file) ==
  /\ file.size \in Nat /\ file.chunks \in Seq(Chunks)
  /\ End(file) + 9 < Space
  /\ Ended(file, Scan(file)) \/ Loops(file)

Parses(file) ==
  LET scan == Scan(file)
  IN Ended(file, scan) /\ ~scan.bad /\ scan.fmt # <<>> /\ scan.data # <<>>

\* struct wav_map: the format, where the PCM data is, and what is mapped; with
\* what is said of the scan.
WavMap(file) ==
  LET scan == Scan(file)
  IN [fmt |-> scan.fmt[1], data |-> scan.data[1].at,
      data_size |-> scan.data[1].size, end |-> End(file), wraps |-> scan.wraps]
=============================================================================
