----------------------------- MODULE TextSplitter -----------------------------
(* text_splitter: the pieces of a text are merged into chunks.  A piece is its
   length, a chunk the range of its pieces. *)
EXTENDS Integers, Sequences

CONSTANTS
  ChunkSize,   \* chunk_size
  MaxPieces    \* bound: pieces of a text

ASSUME ChunkAssumption == ChunkSize \in Nat \ {0} /\ MaxPieces \in Nat

VARIABLES
  overlap,      \* chunk_overlap
  ends,         \* ends[k]: the length of the first k pieces, laid end to end
  first,        \* the first piece of the current chunk
  current_len,  \* what the code takes for the length of the current chunk
  chunks        \* the chunks before the current one

textVars == <<overlap, ends, first, current_len, chunks>>

(* split_text refuses an overlap that is not smaller than a chunk. *)
TextInit ==
  /\ overlap \in 0..(ChunkSize - 1)
  /\ ends = <<>> /\ first = 1 /\ current_len = 0 /\ chunks = <<>>

Pieces == Len(ends)
End(k) == IF k = 0 THEN 0 ELSE ends[k]
(* The length of the pieces from one to another. *)
Length(from, to) == End(to) - End(from - 1)

\* Mutant: the overlap is sought among all pieces, not from the end.
SeedFromFront == IF overlap = 0 THEN Pieces + 1 ELSE first
(* _seed_with_overlap: where the longest tail within the overlap begins; it has at
   least a piece. *)
SeedWithOverlap ==
  LET tails == {j \in first..Pieces : j = Pieces \/ Length(j, Pieces) <= overlap}
  IN  IF overlap = 0 THEN Pieces + 1 ELSE CHOOSE j \in tails : \A k \in tails : j <= k

(* _merge: a piece that does not fit ends the chunk, the next one starts with the
   overlap. *)
MergePiece(length) ==
  LET full == first <= Pieces /\ current_len + length > ChunkSize
      seed == IF full THEN SeedWithOverlap ELSE first
      kept == IF full THEN Length(seed, Pieces) ELSE current_len
  IN  /\ Pieces < MaxPieces
      /\ chunks' = IF full THEN Append(chunks, <<first, Pieces>>) ELSE chunks
      /\ first' = seed
      /\ current_len' = kept + length
      /\ ends' = Append(ends, End(Pieces) + length)
      /\ UNCHANGED overlap

(* _bound_pieces: a piece is what a separator cuts off or, where the separators are
   used up, a window of _hard_slice, which shares chunk_overlap characters with
   the next one.  Neither is empty or longer than a chunk. *)
TextNext == \E length \in 1..ChunkSize : MergePiece(length)

(* The chunks of the text, should it end here. *)
AllChunks == IF first <= Pieces THEN Append(chunks, <<first, Pieces>>) ELSE chunks

-----------------------------------------------------------------------------
(* Every piece leaves room for the overlap, and fits into it. *)
PiecesAreSmall ==
  \A k \in 1..Pieces :
    Length(k, k) <= ChunkSize - overlap /\ (overlap > 0 => Length(k, k) <= overlap)

(* The chunks of a text lose none of its pieces and go forward: each starts no
   earlier than the one before, leaves no gap after it and ends beyond it.  No chunk
   is longer than chunk_size, and none repeats more of the one before than
   chunk_overlap, for small pieces; without overlap, for any.  (Of larger pieces
   nothing is said: splitter.py:12-13 and :142 bound every chunk by chunk_size, and
   the code makes longer ones of them.) *)
ChunksCoverTheText ==
  LET all == AllChunks
  IN  /\ ends # <<>> => all # <<>> /\ all[1][1] = 1 /\ all[Len(all)][2] = Pieces
      /\ \A c \in DOMAIN all : all[c][1] <= all[c][2]
      /\ \A c \in 2..Len(all) :
           /\ all[c - 1][1] <= all[c][1]
           /\ all[c][1] <= all[c - 1][2] + 1
           /\ all[c - 1][2] < all[c][2]
      /\ PiecesAreSmall =>
           /\ \A c \in DOMAIN all : Length(all[c][1], all[c][2]) <= ChunkSize
           /\ \A c \in 2..Len(all) : Length(all[c][1], all[c - 1][2]) <= overlap
=============================================================================
