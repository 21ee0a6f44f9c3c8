------------------------------- MODULE MCAudio -------------------------------
(* Audio on seven small files: a 16-bit stereo one at 48 kHz, with an odd  *)
(* chunk before a frame and a half and some bytes after it; an 8-bit mono  *)
(* one without its last pad byte; three that are refused, for the size or  *)
(* the format of a chunk; and two whose data chunk wraps, to an address    *)
(* below the file and to itself.                                           *)
EXTENDS Audio

CONSTANTS w1, w2

Basic == [id |-> "fmt", size |-> 16, tag |-> PCM, channels |-> 2,
          rate |-> 48000, bits |-> 16, cb |-> 0]

Data(n) == [id |-> "data", size |-> n]

List(n) == [id |-> "LIST", size |-> n]

MCFiles ==
  {[chunks |-> <<[Basic EXCEPT !.size = 40, !.tag = EXTENSIBLE, !.cb = 22],
                 List(3), Data(6)>>, size |-> 91],
   [chunks |-> <<[Basic EXCEPT !.size = 18, !.channels = 1, !.rate = 44100,
                               !.bits = 8], Data(1)>>, size |-> 47],
   [chunks |-> <<Basic, Data(16)>>, size |-> 52],
   [chunks |-> <<[Basic EXCEPT !.size = 18]>>, size |-> 36],
   [chunks |-> <<[Basic EXCEPT !.size = 17], Data(4)>>, size |-> 50],
   [chunks |-> <<Basic, List(40), Data(14), List(94)>>, size |-> 92],
   [chunks |-> <<Basic, List(40), Data(114)>>, size |-> 92]}

MCAccepted == {[pcm_format |-> 2, channels |-> 2, sample_rate |-> 48000],
               [pcm_format |-> 1, channels |-> 1, sample_rate |-> 44100]}
=============================================================================
