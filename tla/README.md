# CRF++ in TLA+

A verification project for CRF++ 0.58 (the sources beside this directory): TLA+
modules translated from the C++ code, TLC configurations that check them on
small instances, and proofs, checked by TLAPS, for every value of the constants.
Source positions are `file:line` in `src/`.

## 1. The system

CRF++ learns a linear-chain conditional random field from a tagged corpus
(`crf_learn`) and tags new text with it (`crf_test`, and a C and C++ API).

| Component | State it keeps | Operations | What makes it correct |
|---|---|---|---|
| `FreeList` (`freelist.h`) | chunks, a cursor | `alloc`, `free` | a block lies in its chunk and overlaps no other until the next `free` |
| `Encoder` (`encoder.cpp`, `thread.h`) | the sentences `x`, the weights `alpha`, per thread an accumulator | `learn`, `runCRF`, `CRFEncoderThread::run`, `runMIRA` | any number of threads computes the gradient one thread computes; every exit releases everything once; it ends |
| `EncoderFeatureIndex`, `FeatureCache` (`feature_index.cpp`, `feature.cpp`, `feature_cache.cpp`) | the dictionary key -> (id, count), `maxid_`, the rows of ids | `getID`, `buildFeatures`, `add`, both `shrink`s, `rebuildFeatures` | no two features share a weight; every sentence finds its own features again; `-f` drops exactly the rare ones |
| Lattice and decoding (`tagger.cpp`, `node.cpp`, `path.cpp`) | nodes and paths with costs, `result_`, the agenda | `viterbi`, `initNbest`, `next`, `forwardbackward`, `gradient`, `collins` | `parse` finds a best tagging, `next` enumerates them by cost; the expectations are those of the distribution |
| `TaggerImpl`, `ModelImpl` life cycle | mode, owned and borrowed indexes and allocators, the current sentence, penalties | `open`, `set_model`, `add`, `clear`, `parse`, `close` | any order of calls leaves a usable object; a sentence is not affected by the one before |
| L-BFGS (`lbfgs.cpp`) | a ring of five correction pairs, the point where it left off | `optimize`, called back with every new gradient | the ring holds the latest pairs across re-entries |
| Double array (`darts.h`) | `base`/`check` cells | `build`, `exactMatchSearch` | it is the map it was built from |
| Model file (`feature_index.cpp`, `mmap.h`) | a byte layout | `save`, `open`, `convert` | what was saved is what is opened |
| Readers (`tagger.cpp`, `feature_index.cpp`, `common.h`) | a stream position | `read`, `add2`, `openTagSet`, `openTemplate`, `tokenize2` | every sentence of the file is read, once, and an error is reported |
| Option parser, wrappers, bindings, utilities | - | - | - |

How they interact. `learn` reads each sentence into a tagger of its own, which
enters its features in the index and its rows in the cache; then the index
shrinks and the weights are allocated, one per id. In every iteration the worker
threads rebuild lattices from the rows, in arenas that belong to the allocator
all taggers share, and read the weights all of them share; the main thread joins
them, adds their results up and hands them to the optimizer, which writes the
weights. A tagger that decodes has an allocator of its own, and may share the
model's index with other taggers.

What is hard here. The threads share arenas, index, cache and weights without a
lock: a numbering made while reading keeps them apart. Memory is handed out
from arenas that are reset as a whole. Ids are renumbered while thousands of
rows refer to them by number. The n-best agenda outlives the sentence whose
nodes it points at. Errors are returned from the middle of loops, with objects to
release. `PROJECT.json` lists the hazards line by line, with the properties that
would catch each one going wrong.

## 2. The modules

    FreeList  <--INSTANCE--  FeatureStore            Training  <--refines--  ParallelTraining
       |                         |                                                |
    FreeListMC, ...Proofs    FeatureStoreMC, ...Proofs       ParallelTrainingMC, ...Proofs

    BestPaths  <--refines--  NBest  <--EXTENDS--  ForwardBackward
                                                     |
                                            NBestMC, NBestProofs

    DoubleArray  <--EXTENDS--  ModelFile            Corpus             Tagger             Lbfgs         Mira
                                  |                   |                  |                  |             |
                      ModelFileMC, ...Proofs    CorpusMC,          TaggerMC,            LbfgsMC         MiraMC
                                                ...Proofs          ...Proofs              OptimizerProofs

Some operators exist only to be compared with the code's: each is a
plausible slip in one definition, stands just before it and says so in its
comment (`RawArena` before `ArenaOf`, for instance). No specification uses them;
substituting one must break the property it is listed with in `PROJECT.json`.

### FreeList

`nchunks` is `freeList.size()`, `(li, pi)` the cursor, `live` the blocks handed
out since the last `free()`. `Alloc` and `Free` are the two functions. The
properties: blocks lie inside existing chunks (`BlocksInBounds`), do not
overlap (`LiveDisjoint`), each call returns a new one (`FreshBlock`), and memory
is only added when every chunk is in use (`GrowsOnlyWhenFull`).

`alloc` does not compare a request with the chunk, and neither does the model: the
requests `Lens` are any positive numbers (`LensAssumption`). Nodes and paths are single
cells, a row of the feature cache is the number of templates plus one, in chunks of
131072. A string is its length plus one, in chunks of 8192, and nothing bounds it:
`add(const char*)` and `add(size, column)` are public and pass on what they get
(`tagger.cpp:319-320`, `351-352`), and `read` may pass a line of 8191 characters, which
asks for a whole chunk. So `BlocksInBounds` has two exceptions, and says exactly which
blocks are out of bounds: a block that is longer than a chunk; and, when the first request
that finds the list without a chunk is for a chunk or more (`Oversized`), it and all
blocks until the next `free()`, since `alloc` then steps over the chunk before it would have
appended it (`freelist.h:38-46`). All other blocks are in bounds, also those between
oversized ones. `GrowsOnlyWhenFull` has one for the first chunk, which an oversized
request skips.

### Training and ParallelTraining

`Training` is the textbook: load the sentences; then, in turn, evaluate the
gradient of all sentences at the current weights and improve the weights, until
the objective has settled three times in a row or `maxitr` is reached.

`ParallelTraining` is the code. `pc` and `k` are the main thread and its loops
over the threads; `n` is `x.size()`, `line` the counter that numbers the arenas;
`wpc` and `i` are each worker and the sentence it is at. A lattice is reduced to
(sentence, version of the weights it was built from), an accumulator `expected`
to how often each lattice was added to it. `TaggerImpl::gradient` is two steps,
`BuildLattice` (the arena is cleared and filled) and `Accumulate` (the arena is
read), so that another worker can come in between. Every exit of `learn` is an
action: a sentence that cannot be read, an optimizer that fails or terminates, a
model that cannot be saved. The two exits before the first tagger exists (the template or
the corpus cannot be opened) release nothing and are left out. The arithmetic
of the objective and of the optimizer is nondeterministic: the objective has
settled or not, `optimize` returns any of its three results - but "terminate" only on a
call after the first, when it comes back from a line search (`lbfgs.cpp:563-565`), and
"go on" only if there is a sentence: without any there are no features, and the first
line search fails at once (`lbfgs.cpp:262`).

The properties: no two workers are between `BuildLattice` and `Accumulate` on one
arena (`NoArenaRace`); what a worker adds up is what it built (`LatticeIntact`);
the weights change only when every worker is off (`WeightsFrozen`); each tagger of `x`
is deleted exactly once on every exit but a failed save, and the tagger of a sentence
that cannot be read, which is not in `x` yet (`encoder.cpp:367-373`), never (`DeletedOnce`;
`stray` counts the taggers lost that way); `ParallelTraining`
implements `Training` (`TrainsSequentially`); `learn` returns (`Returns`).

Fairness: weak fairness of the main thread and of each worker, which is what the
operating system's scheduler gives to threads that can run. Nothing else is
assumed; creating a thread is assumed to succeed (`thread.h:55` does not look).

### FeatureStore

`id`, `count` and `maxid` are `dic_` and `maxid_`; `rows` is the `FeatureCache`,
`cells` the memory behind it, managed by an instance of `FreeList`; `sents` holds
per sentence its `feature_id_` and, as a record of the input, the keys its
templates have expanded to. `GetID` and `AddRow` are the steps of
`buildFeatures`, `Erase`, `Keep` and `ShrinkRow` those of the two `shrink`s, and
`NodeRow`, `PathRow` what `rebuildFeatures` reads. `Through` is the loop of
`FeatureCache::shrink` over one row, which looks each number up and drops those that are
gone. What a template expands to is an arbitrary key of that template, or a failure;
`TemplatesAssumption` says only that the templates are sequences of sets of keys.

The properties: the ids tile the weights (`IdsTile`); what a sentence reads back
is what it put in, under today's numbers (`RowsFaithful`); counting and `-f`
(`FrequencyDecides`). Ids are unbounded numbers here; in the code they are 32
bits wide and unchecked, which is listed as a hazard.

### BestPaths and NBest

`BestPaths` is the definition of n-best: `parse` returns a tagging of least
cost, each `next` one of least cost among those it has not returned, and at last
false. `NBest` is the code: `Column` is one pass of viterbi's outer loop,
`Backtrack` its end, `InitNbest` the start of the agenda; a call of `next` is
`Call`, any number of `Expand` and one `Found` or `Exhausted`. A `QueueElement`
is its chain of labels with `gx` and `fx`; the heap may have any element of least
`fx` on top. `NewSentence` is `clear`, `read` and `buildLattice`, which leave the
agenda as it is. Sentences have at least one token (`parse` returns at once for
an empty one). Scores are integers that add up exactly.

The properties: `EnumeratesBest` (the refinement), `EstimatesExact` (fx is the
cost of the cheapest completion, which is why the search is right and fast),
`CostsAscend`, and `Answers` (`parse` and `next` return), under weak fairness of
the code's own steps; no fairness is assumed of the caller.

### ForwardBackward

The sums of `forwardbackward`, `calcAlpha`, `calcBeta`, `calcExpectation` and
`gradient` over the lattices of `NBest`. `logsumexp` and `exp` turn scores into
sums and products of positive numbers; the module computes those. `Exp` is a
constant, any operator that gives a positive integer for each score of a lattice
(`ExpAssumption`), so nothing is rounded; the run takes powers of two. `GradientIsExpectation` compares each cell of
the gradient with the sum over all taggings, one by one, for every answer. A token
has one of two unigram features by its place, and there is one bigram feature;
more features would only repeat the sums.

### Lbfgs

`lbfgs_optimize` returns to its caller whenever it needs a gradient and jumps back
into the line search when it is called again; `pc` names its labels. `w` is the
array `w_` address by address. A number is described by what it is and by the
points it was computed from; whether the line search accepts, goes on or fails,
and whether the gradient has vanished, is free. `FirstCall` and `NextCall` are the
caller's; `Iterate`, `Recursion`, `BeginSearch`, `Trial`, `Accept` and the exits are
the parts of the function between its labels.

The properties: the recursion reads the latest `min(iter - 1, msize)` pairs, whole
and in both orders (`LatestPairs`); the two halves of a pair are about one move
(`SecantPairs`); what the search may come back to is about one point (`OneBase`);
a search ends (`SearchBounded`).

### Mira

`runMIRA`, sentence by sentence. What `collins` and `eval` find is free: a sentence is
right, wrong with its margin met, improved, or at its bound. Weights are counted
in units per sentence. The shrinking counters have the width of an `unsigned char`;
`SkippedIffOptimal` needs `shrinking_size` to be a value of that type, and the
theorem says so.

The properties: a training that converges has looked at every sentence in its last
pass, and left each one right, with its margin met, or at its bound C
(`ConvergedSawAll`; a step that is cut at C still moves the weights by what was left, but
counts as no violation), no sentence moves the weights by more than C
(`WeightIsBound`), and shrinking skips what has been right often enough and nothing
else (`SkippedIffOptimal`).

### Corpus

Files of lines and the states of the stream that reads them: `openTagSet`, the loop
of `learn` over the same file, the loop of `crfpp_test`, and `read`, `add` and `add2`,
which both use. `getline` fails at the end and at a line that does not fit its
buffer; `read` sets badbit so that the caller's loop ends; `crfpp_test` does not look
whether a token could be added, and goes on in the middle of the sentence.
`openTagSet` has room for `MaxColumns` columns, 1024 in the code: of a wider line it
takes the last that fits for the label (`Columns`, the loop of `tokenize2`), whereas `add`
keeps all columns a line can have. `crf_test` reads any number of files, up to the
bound `MaxFiles`.

What a sentence is, is defined without a stream: `Pieces` are the maximal runs of
lines of the files between breaks (a blank line, and for `crf_test` also a line of too
few columns), up to the first line that is too long, without those that a bad line
ends; `InOrder` says that a sequence of sentences is the pieces, each one once, in the
order of the files. The properties: learn trains on exactly the pieces and has found
their labels and widths, up to `MaxColumns` (`TrainsOnRuns`), `crf_test` writes exactly the pieces
(`WritesPieces`), the second pass over the training file accepts what the first
did (`AnswersKnown`), and both programs end (`Finishes`) under weak fairness of the
program's own steps: it is sequential, and reading a file does not block for good.

### Tagger

Taggers and models in the hands of a client who may make any call in any order.
`tg` holds the data members of each tagger that matter for the next call: mode, the
two pointers, `nbest_`, `vlevel_`, `ysize_`, the number of tokens, in whose memory they lie,
for whose tags their columns are sized and how many of them hold nodes, the rows and
the width of `penalty_`, what `agenda_` holds, and whether `cost_` has a value, which the
constructor does not give it. `live` is what is allocated. A call that would read or write
what it may not sets `fault` and ends the behaviour. `misused` becomes true when the client
breaks one of these rules, all of which it can keep without looking inside:

- `add`, `clear`, `parse`, `toString` only on a tagger whose last open
  succeeded; `set_model` does not open one that was closed;
- `open` and `set_model` only on a tagger without tokens, `set_model` only with an
  open model;
- no `open` of a tagger that shares the index of a model (it is never deleted);
- a model is not reopened or deleted while an open tagger shares its index;
- penalties only for tokens and tags that are there; and once the first penalty was set,
  never more tokens than there were then, and no other model with more tags than the
  tagger had then (`penalty_` is never made again, `tagger.cpp:389-391`);
- `prob(i, j)`, `alpha(i, j)` and the other functions that read nodes, and `toString` with
  `-v` of 1 or more, only after a `parse` of at least one token and before the next `add`;
- `next`, and `toString` when n-best output is on, only after a `parse` of at least one
  token with n-best on; no `parse` of an empty text with n-best on.

An open may fail in two ways: options that `Param` refuses change nothing (`RefusedOpen`),
a model that cannot be read leaves the tagger closed (`Open`). `parse` fails when a template
cannot be expanded, and `parse(text)` also at a line of too few columns, and then keeps
the lines before it. `parse(in, n, out, m)` is `toString`: it prints the sentence that is there and
never reads its input (`tagger.cpp:722-736`; it is in the list of hazards). Models have at
least one tag; a file without any is left out.

None of them can be left out: without any one of them TLC finds a fault or a leak.
The properties: owners are unique and pointers valid (`OwnedOnce`), every fault is a
misuse (`FaultsAreMisuse`), no memory is lost (`NothingLeaks`).

### DoubleArray and ModelFile

`DoubleArray` is `build` and `exactMatchSearch` of `darts.h`. `insert` calls itself for each
child it has placed, so the calls at work are frames of `stack`: a frame is the set of
keys below its node, their depth, where the children begin, and the codes its loop has
still to come to. A step of the model is what `insert` does between two calls: `Insert`
finds a place and writes the checks (the heuristic that moves `next_check_pos` included),
`Leaf` stores a value or sets error -2 when it would not be negative, `Call` goes down,
`Return` writes the base of the child the call was for; `BuildEnds` adds the margin.
After an error the code only unwinds, and what it leaves is thrown away: the model
stops. The siblings `fetch` collects are a set of codes, and the array has the units
that were written, the others being free.

`ModelFile` is `save`, `convert` and `openFromArray`: `Save` and `Build` make the array,
`Write` writes the fields and may lose any end of the file, because no write is looked
at, and the text file may not open (`feature_index.cpp:482`), when the binary one is there
already; `SaveFails` is a build with an error or a binary file that does not open (440,
445); `Convert` may fail for any text; `OpenFile` reads lengths that the file may not hold
any more, and then they are any of `Garbage`; `Dies` is a read past the mapping. Getting the templates back is the code's
loop over the string with its padding, one `Turn` from a NUL to the next.

The properties: what opens finds every key under its id, nothing else, and the
templates (`FindsWhatWasSaved`; the finite map the dictionary was is the abstract
specification); a file that lost its end is not opened (`OpensOnlyWhole`). Keys with
blanks in them do not survive `convert`, which the property says.

## 3. The runs

| Run | Instance | Why it is enough |
|---|---|---|
| `freelist` | chunks of 4 cells, blocks of 1 to 5, 5 live blocks | blocks end before, at and past a chunk's end, fill a chunk, or do not fit one; five blocks need up to five chunks, and `free` reuses them |
| `parallel_training` | 3 threads, up to 5 sentences, 1 blank one, 3 iterations | some threads meet one sentence, some two, in short files some none; the blank one may shift the numbering; three iterations are the least in which the objective settles three times |
| `feature_store` | 5 keys in 3 templates, 2 labels, `-f 2`, 3 sentences of up to 2 tokens, chunks of 6 cells | keys are kept, dropped and never seen; rows of 1 to 3 cells cross chunks; renumbering moves ids in both widths |
| `nbest` | 42 lattices, 2 labels, up to 3 tokens | the locally best label is often wrong, ties occur, a short sentence follows a long one with a half-used agenda; `GradientIsExpectation` is looked at once per lattice |
| `lbfgs` | 2 weights, 3 pairs, 3 trials per search, 9 trials | the ring fills, wraps around, and is used by a second problem; searches take one trial and more; L1 and L2 |
| `mira` | 3 sentences, C = 2, put aside after 2, 6 passes | a sentence is put aside, taken up again after a quiet pass, and found wrong then |
| `corpus` | up to 4 lines of 6 kinds, for `crf_test` in up to three files; `MaxColumns` 2 | sentences of two tokens, blank lines in a row, a bad line at each place, a file that ends in a sentence, an empty file between two others, a line of three columns whose second is the label |
| `tagger` | 2 taggers, 1 model, 3 indexes, 3 allocators, 2 tokens, 1 or 2 tags, `-n` 0 or 2, `-v` 0 or 1 | two taggers share a model, or one has its own and then shares, and both may be opened again while the other is in use; the penalties, nodes and candidates of one meet a shorter sentence, a longer one, and a model of fewer and of more tags; output with each option meets a sentence that was not parsed |
| `model_file` | 12 keys of up to 2 of 3 characters, in sets of 1 to 3; ids up to 3; tags and templates of every padding | places collide, a key is a prefix of another, ids leave their range, the file ends in each field |
| `save_failure` | 2 threads, 2 sentences | expected to fail: see below |
| `optimizer_done` | 2 threads, 2 sentences | expected to fail: see below |
| `clear_context` | 1 tagger, 1 model | expected to fail: see below |

`CHECK_DEADLOCK FALSE` stands where the program really ends: `learn` returns, the
corpus is read and shrunk once, an optimizer is not called any more, a model has
been opened or refused, a tagger has faulted. Bounds of the state space are
constants (`MaxBlocks`, `MaxSents`, `MaxBlanks`, `MaxLen`, `MaxChunks`, `MaxTrials`,
`MaxLines`, `MaxFiles`, `MaxTokens`, `MaxTags`) used in guards and in the sets of inputs.

The run `tagger` has a constraint, `Careful`. A client is not followed past the first rule
it breaks, because `FaultsAreMisuse`, `NothingLeaks` and the last part of `OwnedOnce` say
nothing of it from then on. While two taggers exist, the options are the defaults, models
have one tag and nobody sets a penalty; and only one tagger at a time has read a sentence.
The sentences, options and penalties of two taggers touch nothing in common. A lone
tagger is tried with every option, and, with the default ones, with penalties and models
of two tags. A model has the default options, since `set_nbest` and
`set_vlevel` give a tagger any others. The theorems need none of these bounds: they are
about any number of taggers with any options, and that no two taggers own one object is
proved for every client, careful or not. The two taggers are a symmetry set.

Findings:

- `save_failure`. After training `learn` deletes all taggers
  (`encoder.cpp:435-438`) but leaves the pointers in `x`; if `save` fails,
  `WHAT_ERROR` deletes them again, although the comment above it
  (`encoder.cpp:345`) says that it makes sure x is emptied.
- `optimizer_done`. On a call after the first `LBFGS::optimize` returns 0 for "terminate"
  (`lbfgs.h:107`) when the gradient vanishes, "OK terminated" (`lbfgs.cpp:564`); `runCRF`
  treats it as an error (`encoder.cpp:288-291`), and `learn` fails without a model. (The
  first call returns before that test, with 1, or with an error when there is nothing to
  optimize.)
- `clear_context`. The interface says of `clear` "clear all context" (`crfpp.h:303`);
  it leaves `penalty_` (`tagger.cpp:480-490`), and the next sentence is parsed with the
  penalties of this one, or past the end of their table if it is longer.

## 4. The proofs

Every theorem holds for all values of the constants that satisfy the named
assumptions, which TLC evaluates in every run.

`FreeListProofs`. `InBounds`, `NoOverlap`, `AlwaysFresh`, `TypeCorrect`, `GrowsWhenFull`, for
requests of every length. The invariant adds to the properties where the cursor is: every live block lies in
an earlier chunk or ends at or before the cursor, so the next block is past all of
them. For `GrowsOnlyWhenFull` a second one, `Used`, is needed: the chunks the cursor
has passed hold live blocks, but for a first one that an oversized request skipped, and so
does its own unless it is at its start.

`ParallelTrainingProofs`. `TypeCorrect`, `RaceFree`, `OwnLattice`, `DeletesOnce`,
`FrozenWeights` and `Refinement`. `NoArenaRace` is not inductive: it does not say
why the arenas differ. The invariant says that sentence s has the arena s %
thread_num (because `line` = n), that worker t is always at a sentence congruent
to t, and which phase of the workers each phase of the main thread allows; two
workers then have different arenas by a lemma on remainders. For the refinement
it also counts: worker t has added exactly the sentences congruent to t before
`i[t]`, at the current weights, so after the reduction every sentence is counted
once.

`FeatureStoreProofs`. `TypeCorrect`, `NoSharedWeight`, `FrequencyRules` and
`RowsStayFaithful`: all properties of `FeatureStore`, for all templates, label sets and
corpora. While `shrink` runs, old and new numbers are mixed in one dictionary and nothing
tiles; the invariant for `IdsTile` is about the keys the loop has passed, which tile
0..new_maxid-1, and they are all the keys when it ends. `Counted` says how often each
key has been entered by the sentences and the row so far; that gives
`FrequencyDecides`. For `RowsFaithful` the proof needs where the rows are:
`Memory` is the invariant of the arena, which keeps every row that has been handed out
apart from the others, so that writing one leaves the others readable, and `RowsInv`
says for each sentence and row that the cells hold the numbers of the keys its templates
expanded to (`Recorded`, `Held`), under the old numbers before `ShrinkRow` has passed it and
under the new ones after (`Renaming`). What the loop over a row computes (`Through`) is
proved by induction over its length.

`NBestProofs`. `TypeCorrect`, `Ascending`, `Estimates` and `Enumerates`: all safety
properties of `NBest`, for every number of labels and every lattice. For `CostsAscend`
the invariant says that a column of viterbi is at least what each left neighbour offers,
so fx never falls from an element to its extensions. For the others it needs the
other half, `Exact`: `prev` leads to the neighbour a node owes its score to (`Traced`), gx
is the cost of the element's labels (`Weighed`), and no tagging ends like two elements of
the agenda (`Exclusive`). With the cost of a tagging as a sum over its places (`Prefix`)
that gives `EstimatesExact`. `Enumerates` is the refinement: each step of the code is
a step of `BestPaths` or none. The mapping's `left` are the taggings that extend an
element of the agenda; popping an element of least fx at the first token is returning a
cheapest of them.

`GradientIsExact`, in the same module, is `GradientIsExpectation` for every number of labels
and tokens, every lattice, every answer and every `Exp`. It is about the lattice alone, so
all it needs of the invariant is that `lat` is one; the work is in the sums. First
what `SumFunction` adds up is shown to be independent of the order (`SumFold`,
`SumParts`), so that sums may be split, scaled, swapped and renamed. `AlphaForward`,
`BetaBackward` and `WeightProducts` show that the recursive definitions have the values
their equations say, by building such tables. `Forwards` and `Backwards` are inductions over
the tokens: alpha of a node is the weight of the taggings up to it, and what calcBeta
has behind a node that of the taggings from there on. With both, the expectation of a node
or a path is the weight of the taggings through it, and Z that of all
(`Expectations`). At last the cell of a feature is a table of places by taggings:
added up by rows it is what `gradient` adds, by columns what the definition says (`CellSum`).

`OptimizerProofs`. All properties of `Lbfgs`, for every number of weights, pairs and
trials. First the regions of `w_` are shown not to overlap. `LatestPairs` is only about
the moment of the recursion; the invariant says in every state which cells hold
which pair, by its age, and which point the search will come back to (`TypesInv`,
`BaseHeld`, `PairsHeld`).

And those of `Mira`: `MiraTypeCorrect`, `Converged`, `Bounded`, `SkipsAreOptimal`.
`ConvergedSawAll` is about the end; `LastPass` says what has to be true on the way there: in
a pass after a quiet one the sentences still to come are not put aside, and those before
were looked at in this pass. (`Mira` has names of its own, `MiraSpec` and so on, so that
one module can extend both.)

`ModelFileProofs`. `FindsKeys`: `FindsWhatWasSaved` for every alphabet, set of keys, tags and
templates. The array says nowhere which node of the trie a place stands for, so the
invariant does: there is a function `node` on `used_`, the trie with its nodes named by
where their children begin, such that (`Tree`)

- the child or value with code c of the node that begins at b has the unit b + c, whose
  check is b; every unit that is taken is one of these, and lies below `size_` (`Cells`);
- its base is where the child begins, or the value, or a frame of the stack has it
  among the codes still to come to (`Links`);
- the frames are a path down the trie (`Calls`), the root begins at 1, and at the end
  every base is more than the margin away from `size_` (`Rooted`).

`InsertPlaces` shows that the search for free units ends at a place where nothing is.
With an empty stack nothing is pending, and a search has walked down the trie after each
character, or there is no key that begins so (`Walked`); a value that would not be
found as it was has been refused by error -2. `BuildsTrie` states the invariant of the
build by itself. For the templates, the offsets of the NULs rise by at least two, so no
template is read as the end of another, and what follows the last is padding (`Laid`,
`ReadsOne`). After a conversion each column has a first key in the order of the map
(`FirstKey`), and the array is built of what a conversion gives.

`OpensWhole`: `OpensOnlyWhole` for every file and all of `Garbage` in the naturals
(`SumIsWhole`): if a length was lost, the file ends before the field behind it, and the
fields up to there alone, in the sum that is compared with the end, are longer.

`CorpusProofs`. `SecondPassAccepts`: `AnswersKnown` for all files. The invariant names
the line at which the first pass stopped; up to there each token has the columns
and a label of the set, and the second pass cannot get past it; lines wider than `MaxColumns`
included, since both passes take the label at the same column. `WritesSentences` and
`TrainsOnSentences`: `WritesPieces` and `TrainsOnRuns` for all files. Both are about the
end; `PiecesInv` says it at every place in the stream: `x_` is the run of lines since the
last break (`Reading`), and what has been given out are the pieces that end before it,
in their order (`Collected`). A sentence is one more piece exactly when what ends it is a
blank line or the end of what the file gives (`SentenceIsPiece`, `LastPiece`).
`LabelsInv` is the same for the labels of the first pass.

`TaggerProofs`. `TypeCorrect`, `Ownership`, `LeakFreedom` and `Soundness`, for any number of
taggers, models, objects and tokens. Ownership becomes inductive with two facts:
two models never share an index, and a variable without a tagger holds no
allocator. `Soundness` adds, for a client that has kept the rules: the tokens of an
open tagger lie in its allocator and fit its index, the penalty table is as long as
the sentence and as wide as the tags, a tagger whose nodes the client may read has one for
every token, and one the client may call `next` on has an agenda of this parse.

Every invariant, action property and refinement the passing runs check is proved. Only
model-checked is liveness (`Returns`, `Answers`, `Finishes`): the prover has no rules for
fairness and ENABLED.

Where recursion is a function or a fold of the library, what it computes is proved: the
library's induction theorems cannot be applied, but the least number for which a claim
fails can be taken and refuted.

## 5. What is left

In order of what it would add:

1. `collins` as sums, as `ForwardBackward` does for `gradient`.
2. Several taggers on one index at different times: `set_cost_factor`
   (`tagger.h:171`) changes what the others compute. No text says for whom it is meant.

Not modelled, and why:

- The expansion of templates (`applyRule`, `getIndex`): a function of strings; the
  feature store takes any key a template may give.
- The option parser, scoped pointers, timers, the Windows branches (`winmain.h`,
  `stream_wrapper.h`), the API wrappers: no state that the results depend on. While
  reading: `crfpp_prev_transition_cost` and `crfpp_prev_transition_vector` call the
  functions for the next token (`libcrfpp.cpp:230`, `240`).
- An empty dictionary (`feature_index.cpp:439` takes the address of an element of an
  empty vector), and a model file without tags.
- Functions nothing calls: `FreeList::dup`, `commonPrefixSearch`, `traverse` and Darts'
  own files, the old `LBFGS::optimize`.
- Floating-point rounding and the numerical convergence of the line search (`mcsrch`,
  `mcstep`): out of TLC's reach. Scores are exact numbers.
- The language bindings, about 18000 of the 26000 lines that look like source, are
  generated by SWIG, and the build directories hold CMake's own test programs. The
  hand-written code is about 6300 lines.
