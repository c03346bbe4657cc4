----------------------------- MODULE ModelFile ------------------------------
(***************************************************************************)
(* The model on disk: EncoderFeatureIndex::save builds the double array    *)
(* and writes field by field, never asking the stream whether a byte       *)
(* arrived, convert makes the file again from the text model, and          *)
(* DecoderFeatureIndex opens it (feature_index.cpp:216-276, 308-535).  The *)
(* disk may be full, or the program gone, after any byte.                  *)
(***************************************************************************)
EXTENDS DoubleArray

CONSTANTS
  Keys,       \* what a template may expand to
  Blank,      \* the character that is a space in a key
  KeySets,    \* sets of keys a training file may give
  MaxInt,     \* the greatest int
  Tags,       \* what y_ may be: sequences of tags, a tag being its length
  Unigrams,   \* what unigram_templs_ may be: sequences of templates, a
  Bigrams,    \*   template being its length, the U or B included
  Garbage     \* numbers that memory past the end of the file may hold

ASSUME KeysAssumption ==
  /\ \A k \in Keys : k \in Seq(1 .. MaxChar) /\ Len(k) > 0
  /\ \A keys \in KeySets : keys \subseteq Keys /\ keys # {} /\ IsFiniteSet(keys)
ASSUME NamesAssumption ==
  /\ \A tags \in Tags : tags \in Seq(Nat)
  /\ \A templs \in Unigrams \cup Bigrams : templs \in Seq(Nat \ {0})
ASSUME NumbersAssumption == MaxInt \in Nat /\ Garbage \subseteq Nat

VARIABLES
  status,     \* how far the program has come
  y, unigram_templs, bigram_templs, dic,   \* the encoder's index
  text,       \* the text model: none, its beginning, all of it, or converted,
              \*   or a file that save() could not open
  file,       \* the binary model, or NoFile
  opened      \* the decoder's index

encoder == <<y, unigram_templs, bigram_templs, dic>>
vars == <<buildVars, status, encoder, text, file, opened>>

NoFile == [cut |-> 0]
NoIndex == [unigram |-> <<>>, bigram |-> <<>>, found |-> <<>>]

-----------------------------------------------------------------------------
(* The dictionary.  getID numbers the keys from 0 by the weights each      *)
(* needs; an int id goes round from MaxInt.                                *)

Before(k, l) ==
  \E i \in 1 .. Len(l) :
    /\ \A j \in 1 .. i - 1 : j <= Len(k) /\ k[j] = l[j]
    /\ i > Len(k) \/ k[i] < l[i]

AsInt(n) == IF n <= MaxInt THEN n ELSE n - 2 * (MaxInt + 1)

Numbered(keys) ==
  [k \in keys |-> AsInt(Len(y) * Cardinality({l \in keys : Before(l, k)}))]

maxid == Len(y) * Cardinality(DOMAIN dic)

-----------------------------------------------------------------------------
(* save(): the sizes of the fields.  Every tag and template is followed by *)
(* a NUL, and the padding after them aligns what comes next.               *)

NUL == "NUL"

Offsets(names) ==
  LET at[n \in 0 .. Len(names)] ==
        IF n = 0 THEN 0 ELSE at[n - 1] + names[n] + 1
  IN at

YSize == Offsets(y)[Len(y)]

Padding(n) == (4 - (n % 4)) % 4

TemplStr ==
  LET names == unigram_templs \o bigram_templs
      at == Offsets(names)
      length == at[Len(names)]
      Char(p) ==
        IF \E n \in 1 .. Len(names) : p = at[n - 1] + 1
        THEN IF p <= at[Len(unigram_templs)] THEN "U" ELSE "B"
        ELSE IF p > length \/ \E n \in 1 .. Len(names) : p = at[n] THEN NUL ELSE "x"
  IN [p \in 1 .. length + Padding(YSize + length) |-> Char(p)]

UnitSize == 8
Header == 36        \* the numbers of fixed size, the two string sizes included

Whole(f) == Header + f.ysize + Len(f.templ) + f.dsize + 4 * f.maxid

(* Where the numbers end that say how long other fields are. *)
Ends(f) == [maxid |-> 20, dsize |-> 28, ysize |-> 32, tsize |-> Header + f.ysize]

(* A place to stop: after a field, or somewhere in the field that follows. *)
Cuts(f) ==
  LET ends == {0, 4, 20, 28, 32, 32 + f.ysize, Header + f.ysize,
               Header + f.ysize + Len(f.templ),
               Header + f.ysize + Len(f.templ) + f.dsize, Whole(f)}
  IN (ends \cup {e + 1 : e \in ends}) \cap 0 .. Whole(f)

Save ==
  /\ status = "learned"
  /\ BuildBegins(dic)
  /\ status' = "building"
  /\ UNCHANGED <<encoder, text, file, opened>>

Build ==
  /\ status = "building"
  /\ BuildStep
  /\ UNCHANGED <<status, encoder, text, file, opened>>

(* Without a double array no file is opened; with one, the file may not    *)
(* open, and nothing is written.                                           *)
SaveFails ==
  /\ status = "building" /\ (error # 0 \/ Built)
  /\ status' = "failed"
  /\ UNCHANGED <<buildVars, encoder, text, file, opened>>

(* Whatever is lost of what is written, the result is true.  It is false   *)
(* if the text file does not open, but then the binary model is written,   *)
(* and as good as any.                                                     *)
Write ==
  /\ status = "building" /\ Built
  /\ LET f == [ysize |-> YSize, templ |-> TemplStr, units |-> units, size |-> size,
               dsize |-> UnitSize * size, maxid |-> maxid, cut |-> 0]
     IN \E cut \in Cuts(f) : file' = [f EXCEPT !.cut = cut]
  /\ status' = "saved"
  /\ text' \in IF text = "converted" THEN {text}
               ELSE {"none", "unopened", "beginning", "all"}
  /\ UNCHANGED <<buildVars, encoder, opened>>

(* A line of the text model is cut into columns at blanks, and only the    *)
(* second column is looked at; of two lines with one key the first counts. *)
Column(k) ==
  LET blanks == {i \in 1 .. Len(k) : k[i] = Blank}
  IN IF blanks = {} THEN k ELSE SubSeq(k, 1, Min(blanks) - 1)

Converted ==
  LET First(key) == CHOOSE k \in DOMAIN dic :
        /\ Column(k) = key
        /\ \A l \in DOMAIN dic : Column(l) = key => ~Before(l, k)
  IN [key \in {Column(k) : k \in DOMAIN dic} |-> dic[First(key)]]

(* convert(): a text that does not open, that ends before its last weight  *)
(* or that names no column but the label is refused; all of it is saved as *)
(* save does.                                                              *)
Convert ==
  /\ status = "saved" /\ text \in {"beginning", "all"}
  /\ \/ text = "all" /\ BuildBegins(Converted) /\ status' = "building"
     \/ status' = "failed" /\ UNCHANGED buildVars
  /\ text' = "converted"
  /\ UNCHANGED <<encoder, file, opened>>

-----------------------------------------------------------------------------
(* open(): a number that the file does not hold any more is whatever the   *)
(* memory after it holds.                                                  *)

Read(f, field, number) == IF Ends(f)[field] <= f.cut THEN {number} ELSE Garbage

(* A turn of the loop over the template string: it goes from one NUL to    *)
(* the next, and from the padding into the first bytes of the double       *)
(* array; no turn goes back, so there are at most as many as bytes.        *)
Turn(str, at) ==
  LET memory == str \o <<"x", NUL>>
      type == memory[at.pos]
      start == IF type = NUL THEN at.pos + 1 ELSE at.pos
      nul == Min({q \in start .. Len(memory) : memory[q] = NUL})
      length == nul - at.pos
  IN IF at.pos > Len(str) THEN at
     ELSE [pos |-> nul + 1,
           unigram |-> IF type = "U" THEN Append(at.unigram, length) ELSE at.unigram,
           bigram |-> IF type = "B" THEN Append(at.bigram, length) ELSE at.bigram]

TemplsOf(str) ==
  LET after[n \in 0 .. Len(str)] ==
        IF n = 0 THEN [pos |-> 1, unigram |-> <<>>, bigram |-> <<>>]
        ELSE Turn(str, after[n - 1])
  IN after[Len(str)]

(* Mutant of Accepts: a longer file is what is looked for. *)
AcceptsShorter(f, end) == end >= f.cut

(* The last check: the fields must end where the file does. *)
Accepts(f, end) == end = f.cut

(* Reading past the file may also end the program. *)
OpenFile ==
  /\ status = "saved"
  /\ \E ysize \in Read(file, "ysize", file.ysize),
        tsize \in Read(file, "tsize", Len(file.templ)),
        dsize \in Read(file, "dsize", file.dsize),
        weights \in Read(file, "maxid", file.maxid) :
       IF Accepts(file, Header + ysize + tsize + dsize + 4 * weights)
       THEN /\ status' = "opened"
            /\ opened' = [unigram |-> TemplsOf(file.templ).unigram,
                          bigram |-> TemplsOf(file.templ).bigram,
                          found |-> [k \in Keys |-> Search(file.units, file.size, k)]]
       ELSE status' = "rejected" /\ UNCHANGED opened
  /\ UNCHANGED <<buildVars, encoder, text, file>>

Dies ==
  /\ status = "saved" /\ file.cut < Whole(file)
  /\ status' = "died"
  /\ UNCHANGED <<buildVars, encoder, text, file, opened>>

-----------------------------------------------------------------------------
Init ==
  /\ status = "learned"
  /\ y \in Tags
  /\ unigram_templs \in Unigrams /\ bigram_templs \in Bigrams
  /\ \E keys \in KeySets : dic = Numbered(keys)
  /\ value = <<>> /\ units = <<>> /\ used = {}
  /\ size = 0 /\ next_check_pos = 0 /\ error = 0 /\ stack = <<>>
  /\ text = "none"
  /\ file = NoFile
  /\ opened = NoIndex

Next == Save \/ Build \/ SaveFails \/ Write \/ Convert \/ OpenFile \/ Dies

Spec == Init /\ [][Next]_vars

-----------------------------------------------------------------------------
(* Properties. *)

(* The decoder finds each key the encoder had under its id, nothing else,  *)
(* and the templates of the template file, each in its list (save at       *)
(* feature_index.cpp:404, openFromArray at 221, darts.h): ids that did not *)
(* fit an int have stopped the save, padding is no template, and a text    *)
(* model gives the same, if no key has a blank in it.                      *)
FindsWhatWasSaved ==
  status = "opened" =>
    /\ opened.unigram = unigram_templs /\ opened.bigram = bigram_templs
    /\ \A k \in DOMAIN dic : dic[k] >= 0
    /\ (text # "converted" \/ \A k \in DOMAIN dic : Column(k) = k) =>
         \A k \in Keys : opened.found[k] = IF k \in DOMAIN dic THEN dic[k] ELSE -1

(* A file that lost its end is not opened, whatever is read in place of    *)
(* the lengths it no longer has: the comparison of the pointers after the  *)
(* last field (feature_index.cpp:273) makes up for every check that save   *)
(* leaves out.                                                             *)
OpensOnlyWhole == status = "opened" => file.cut = Whole(file)
=============================================================================
