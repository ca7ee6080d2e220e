------------------------------ MODULE ModelFile ------------------------------
(* A model on disk and the model made of it: directories of safetensors      *)
(* files (io/st.h), the loader that gives every tensor the form its settings *)
(* ask for (rt_model_load.h, nn/mat.c), and SAVE_PACKED, which writes what a *)
(* loaded model holds as a container that is used in place when it is opened *)
(* again.                                                                    *)
(*                                                                           *)
(* A tensor's data is the list of what was done to it: <<"q">> is the weight *)
(* of the snapshot, <<"q", "Q4R4">> the same after one rounding to Q4R4.     *)
(* One layer stands for all: q, k and v, that the engines fuse, and one      *)
(* matrix more.  Sizes and offsets are in units of eight bytes.              *)
EXTENDS Integers, Sequences, FiniteSets
LOCAL INSTANCE SequencesExt

CONSTANTS
  Checkpoints,   \* what the source directory holds
  Settings,      \* how a model is opened
  Blocks,        \* for each packed matrix, its blocks of four rows by 32
  Targets,       \* the directories SAVE_PACKED writes to
  MaxSaves       \* bound: how often it is run; not again after it failed

VARIABLES
  ckpt,    \* the checkpoint in "source"
  dirs,    \* [directory -> its files]
  saved,   \* [directory -> the model its container was written from]
  phase,   \* idle, open, run (after the first forward), refused, save, done
  from,    \* the directory that is open
  set,     \* the settings it was opened with
  mem,     \* the model in memory
  target,  \* the directory that is being written
  saves    \* how often SAVE_PACKED was run

vars == <<ckpt, dirs, saved, phase, from, set, mem, target, saves>>

Dirs == {"source"} \cup Targets
R4 == {"Q4R4", "Q8R4"}
Fused == <<"q", "k", "v">>
Mats == {"q", "k", "v", "down"}
Align == 8                             \* 64 bytes

ModelFileAssumption ==
  /\ "source" \notin Targets
  /\ \A s \in Mats \cup {"head"} : Blocks[s] \in Nat \ {0}
  /\ \A u \in Settings : u.bits \in {-1, 0, 2, 4, 8} /\ u.how \in {"resident", "stream", "micro"}
  /\ \A c \in Checkpoints : c.v1 => c.d32 /\ c.i32 /\ ~c.gguf

\* I % 32 of a matrix, and O % 4.
Wide(c, s) == IF s = "down" THEN c.i32 ELSE c.d32
FourRows(c, s) == s \in Mats \ {"down"} => c.o4

CodeLen(s, form) == (IF form = "Q8R4" THEN 16 ELSE 8) * Blocks[s]
ScaleLen(s) == Blocks[s]

-----------------------------------------------------------------------------
(* Files.  A tensor names what it is of, has a part (the codes or the rows   *)
(* themselves, .s16 or .qs scales), may have the prefix of a multimodal      *)
(* snapshot, and says whether its element count is the matrix's.             *)

Tensor(of, part, vl, dtype, val, len, whole) ==
  [of |-> of, part |-> part, vl |-> vl, dtype |-> dtype, val |-> val, len |-> len,
   whole |-> whole, glue |-> FALSE, off |-> 0, file |-> 0]

CodesOf(c, s, vl, form, val) ==
  Tensor(s, "", vl, "U8", val, CodeLen(s, form), form = "Q8R4" /\ FourRows(c, s))
ScalesOf(s, vl, val) == Tensor(s, "s16", vl, "F16", val, ScaleLen(s), FALSE)

\* Data in file order, every tensor on a boundary of 64 bytes unless it goes
\* on the one before it.
Laid(ts) ==
  FoldLeft(LAMBDA done, t :
             LET last == IF done = <<>> THEN 0 ELSE done[Len(done)].off + done[Len(done)].len
                 off == IF t.glue THEN last ELSE ((last + Align - 1) \div Align) * Align
             IN Append(done, [t EXCEPT !.off = off]),
           <<>>, ts)
SizeOf(ts) == IF ts = <<>> THEN 0 ELSE ts[Len(ts)].off + ts[Len(ts)].len
File(ts) == [tensors |-> Laid(ts), header |-> TRUE, size |-> SizeOf(Laid(ts))]

\* A snapshot in two shards, or a container of tools/ref/pack_r4.py: each
\* matrix's scales after its codes with no room between, the table as it was,
\* the tied head added.
Snapshot(c) ==
  LET plain(s) == Tensor(s, "", c.vl /\ s # "head", IF c.gguf /\ s \in Mats THEN c.dtype ELSE "BF16",
                         <<s>>, 5, TRUE)
      packed(s, of) == <<CodesOf(c, s, c.vl /\ s # "head", c.form, <<of, c.form>>),
                         ScalesOf(s, c.vl /\ s # "head", <<of, c.form>>)>>
      tight(ts) == [i \in DOMAIN ts |-> [ts[i] EXCEPT !.glue = TRUE]]
  IN [config |-> TRUE,
      files |->
        IF c.v1
        THEN << File(tight(<<plain("embed")>> \o packed("down", "down") \o packed("k", "k")
                     \o packed("q", "q") \o packed("v", "v") \o <<plain("norm")>>
                     \o packed("head", IF c.head THEN "head" ELSE "embed")
                     \o <<plain("vision")>>)) >>
        ELSE << File(<<plain("embed"), plain("down"), plain("k")>>),
                File(<<plain("q"), plain("v"), plain("norm")>>
                     \o (IF c.head THEN <<plain("head")>> ELSE <<>>) \o <<plain("vision")>>) >>]
NoFiles == [config |-> FALSE, files |-> <<>>]

\* Broken on purpose, for the mutants of LoadsTrue and InPlace: the end of the
\* data is not looked at; the packed matrices stay in the order of the file.
IndexTrusts(f) == ~f.header
OneEach(m, names) == [i \in DOMAIN names |-> <<names[i]>>]

\* st_index_file: the header is in the file, and so is what it names.
IndexRefuses(f) == ~f.header \/ \E i \in DOMAIN f.tensors : f.tensors[i].off + f.tensors[i].len > f.size

\* st_init: the tensors of every file of the directory.
Index(d) ==
  FlattenSeq([n \in DOMAIN d.files |->
                [i \in DOMAIN d.files[n].tensors |-> [d.files[n].tensors[i] EXCEPT !.file = n]]])

\* st_find: the name itself, or the one with the prefix; the first of two.
NoTensor == Tensor("", "", FALSE, "none", <<>>, -1, FALSE)
Has(S, of, part) == \E i \in DOMAIN S : S[i].of = of /\ S[i].part = part
Find(S, of, part) ==
  LET fits == {i \in DOMAIN S : S[i].of = of /\ S[i].part = part}
      plain == {i \in fits : ~S[i].vl}
      first == IF plain # {} THEN plain ELSE fits
  IN IF fits = {} THEN NoTensor ELSE S[CHOOSE i \in first : \A j \in first : i <= j]

\* st_map: the place of a tensor in its file's mapping; a copy otherwise.
Heap(s) == [in |-> "heap", of |-> s, at |-> 0]
Placed(u, t, s) == IF u.mmap THEN [in |-> "file", of |-> "", at |-> t.off] ELSE Heap(s)

-----------------------------------------------------------------------------
(* Matrices.                                                                 *)

Mat(fmt, val) == [fmt |-> fmt, val |-> val, codes |-> Heap(""), scales |-> Heap(""), borrowed |-> 0]
NoMat == Mat("refused", <<>>)

\* st_expect and a read as floats: the element count is checked, codes are
\* not floats.
Expected(S, of) == Find(S, of, "").whole
Floats(S, of) == Expected(S, of) /\ Find(S, of, "").dtype # "U8"

\* load_mat_r4: the size of the codes decides the form of a packed matrix,
\* Q8_TENSORS that of one that is packed now.
LoadR4(S, u, s, of) ==
  LET t == Find(S, of, "")
      d == Find(S, of, "s16")
      form == IF s \in u.q8 THEN "Q8R4" ELSE "Q4R4"
      packedForms == {g \in R4 : t.len = CodeLen(s, g) /\ d.len = ScaleLen(s)}
  IN CASE Has(S, of, "s16") /\ packedForms = {} -> NoMat
       [] Has(S, of, "s16") /\ packedForms # {} ->
            [Mat(CHOOSE g \in packedForms : TRUE, t.val) EXCEPT
               !.codes = Placed(u, t, s), !.scales = Placed(u, d, s),
               !.borrowed = IF u.mmap THEN 2 ELSE 0]
       [] ~Has(S, of, "s16") /\ ~Floats(S, of) -> NoMat
       [] OTHER -> [Mat(form, Append(t.val, form)) EXCEPT !.codes = Heap(s), !.scales = Heap(s)]

\* load_mat_bits: a packed container is read as it was packed under QBITS 4
\* and 8; Q4_0 keeps its codes in groups of 32, Q4_K in the native form.
LoadBits(c, S, u, s) ==
  LET t == Find(S, s, "")
      coded(fmt) == IF Floats(S, s) THEN Mat(fmt, Append(t.val, fmt)) ELSE NoMat
      kept(fmt) == IF Floats(S, s) THEN Mat(fmt, t.val) ELSE NoMat
  IN CASE u.bits \in {4, 8} /\ Wide(c, s) /\ (Has(S, s, "s16") \/ (u.bits = 4 /\ u.r4)) ->
            LoadR4(S, u, s, s)
       [] u.bits = 8 /\ ~(Wide(c, s) /\ Has(S, s, "s16")) -> coded("I8")
       [] u.bits = 4 /\ ~(Wide(c, s) /\ (Has(S, s, "s16") \/ u.r4)) ->
            IF u.group = 32 /\ Wide(c, s) /\ t.dtype = "Q4_0" THEN kept("I4G")
            ELSE coded(IF u.group > 0 THEN "I4G" ELSE "I4")
       [] u.bits = 2 -> coded("I2")
       [] u.bits = -1 -> kept(IF t.dtype = "Q4_K" THEN "Q4K" ELSE "F32")
       [] u.bits = 0 -> kept("F32")

\* mat_stream_init, and a layer beyond the budget: the element count only.
Streamed(S, of) ==
  IF Expected(S, of) THEN Mat(IF Floats(S, of) THEN "file" ELSE "codes", Find(S, of, "").val) ELSE NoMat

-----------------------------------------------------------------------------
(* model_init_ex.                                                            *)

EmbedIsQ8(S) == Has(S, "embed", "qs") /\ Find(S, "embed", "").dtype = "U8"
Tied(c, S) == c.tie \/ ~Has(S, "head", "")
HeadR4(c, S, u) ==
  Tied(c, S) /\ c.d32 /\ (Has(S, "head", "s16") \/ (u.bits = 4 /\ u.r4))

Table(S, u) ==
  LET t == Find(S, "embed", "")
  IN CASE u.disk \/ u.how = "micro" -> Streamed(S, "embed")
       [] ~u.disk /\ u.how # "micro" /\ EmbedIsQ8(S) ->
            [Mat("I8", t.val) EXCEPT !.codes = Placed(u, t, "embed"),
                                     !.scales = Placed(u, Find(S, "embed", "qs"), "embed")]
       [] ~u.disk /\ u.how # "micro" /\ ~EmbedIsQ8(S) /\ (u.bits > 0 \/ u.table8) ->
            IF Floats(S, "embed") THEN Mat("I8", Append(t.val, "I8")) ELSE NoMat
       [] OTHER -> IF Floats(S, "embed") THEN Mat("F32", t.val) ELSE NoMat

\* The tied head: packed from the original rows, or from the container; int4
\* made of the int8 table when the rows are short; or the table itself.
HeadOf(c, S, u) ==
  CASE u.how = "micro" -> Streamed(S, IF Tied(c, S) THEN "embed" ELSE "head")
    [] u.how # "micro" /\ ~Tied(c, S) -> LoadBits(c, S, u, "head")
    [] u.how # "micro" /\ HeadR4(c, S, u) ->
         LoadR4(S, u, "head", IF Has(S, "head", "s16") THEN "head" ELSE "embed")
    [] OTHER ->
         LET t == Table(S, u)
         IN IF u.bits = 4 /\ t.fmt = "I8" /\ c.short THEN Mat("I4", Append(t.val, "I4")) ELSE t

\* moty_mat_fuse_rows: three packed matrices of one form are one, a view when
\* they are back to back, codes and scales; a copy that they are views of
\* otherwise.
After(p, len, r) == p.in = r.in /\ p.of = r.of /\ p.at + len = r.at
CanFuse(c, ms) ==
  /\ \E g \in R4 : \A i \in 1..3 : ms[Fused[i]].fmt = g
  /\ \A i \in 1..3 : FourRows(c, Fused[i])
BackToBack(ms) ==
  \A i \in 1..2 :
    LET a == ms[Fused[i]]
        b == ms[Fused[i + 1]]
    IN /\ After(a.codes, CodeLen(Fused[i], a.fmt), b.codes)
       /\ After(a.scales, ScaleLen(Fused[i]), b.scales)
OneBuffer(ms) ==
  LET before(i, len(_)) == FoldLeft(LAMBDA n, s : n + len(s), 0, SubSeq(Fused, 1, i - 1))
      view(i) == [ms[Fused[i]] EXCEPT
                    !.codes = [Heap("qkv") EXCEPT !.at = before(i, LAMBDA s : CodeLen(s, ms["q"].fmt))],
                    !.scales = [Heap("qkv") EXCEPT !.at = before(i, ScaleLen)],
                    !.borrowed = 1]
  IN [s \in Mats |-> IF s = "down" THEN ms[s] ELSE view(CHOOSE i \in 1..3 : Fused[i] = s)]

\* The model of a directory: load_small, the table, the head, the matrices,
\* then the engine's fusion of the resident ones.
Model(c, S, u) ==
  LET raw == [s \in Mats |-> IF u.how = "resident" THEN LoadBits(c, S, u, s) ELSE Streamed(S, s)]
      fuses == u.how = "resident" /\ CanFuse(c, raw)
  IN [mats |-> IF fuses /\ ~BackToBack(raw) THEN OneBuffer(raw) ELSE raw,
      fused |-> CASE fuses /\ BackToBack(raw) -> "view"
                  [] fuses /\ ~BackToBack(raw) -> "copy"
                  [] OTHER -> "none",
      head |-> HeadOf(c, S, u),
      table |-> Table(S, u)]

OpenRefuses(c, d, u) ==
  \/ ~d.config
  \/ \E n \in DOMAIN d.files : IndexRefuses(d.files[n])
  \/ LET S == Index(d)
         m == Model(c, S, u)
     IN \/ EmbedIsQ8(S) /\ (u.how = "micro" \/ u.disk)
        \/ u.disk /\ u.how # "micro" /\ Tied(c, S) /\ ~HeadR4(c, S, u)
        \/ ~Floats(S, "norm")
        \/ NoMat \in {m.mats[s] : s \in Mats} \cup {m.head, m.table}

NoModel == [mats |-> [s \in Mats |-> NoMat], fused |-> "none", head |-> NoMat, table |-> NoMat]

-----------------------------------------------------------------------------
(* model_save_packed.                                                        *)

SaveRefuses(c, u) == c.gguf \/ u.bits # 4 \/ ~u.r4 \/ u.how # "resident"

\* pk_name_is: the tensors whose packed form is in memory.
SlotOf(m, s) == IF s = "head" THEN m.head ELSE m.mats[s]
InMemory(m, t) == t.part = "" /\ t.of \in Mats \cup {"head"} /\ SlotOf(m, t.of).fmt \in R4

\* The tensors the loader read.
Used(c, S, u, t) ==
  CASE t.of = "vision" -> FALSE
    [] t.of = "head" -> ~Tied(c, S) \/ (HeadR4(c, S, u) /\ Has(S, "head", "s16"))
    [] OTHER -> TRUE

\* What is neither packed nor scales: the int8 table as it is in memory, the
\* rest byte for byte.
PlainPart(c, S, u, m) ==
  FlattenSeq([i \in DOMAIN S |->
    LET t == S[i]
    IN CASE InMemory(m, t) \/ ~Used(c, S, u, t) \/ t.part # "" -> <<>>
         [] ~InMemory(m, t) /\ Used(c, S, u, t) /\ t.part = "" ->
              IF t.of = "embed" /\ m.table.fmt = "I8"
              THEN <<Tensor("embed", "", t.vl, "U8", m.table.val, 9, TRUE),
                     Tensor("embed", "qs", t.vl, "F32", m.table.val, 3, FALSE)>>
              ELSE <<[t EXCEPT !.glue = FALSE, !.off = 0, !.file = 0]>>])

\* The packed matrices in the order of the file, the tied head last, then
\* those whose codes are back to back in memory together.
ToPack(S, m) ==
  LET here == SelectSeq(S, LAMBDA t : InMemory(m, t))
      names == [i \in DOMAIN here |-> here[i].of]
  IN IF m.head.fmt \in R4 /\ ~Contains(names, "head") THEN Append(names, "head") ELSE names
Follows(m, a, b) == After(SlotOf(m, a).codes, CodeLen(a, SlotOf(m, a).fmt), SlotOf(m, b).codes)
Groups(m, names) ==
  LET grown[g \in Seq(Mats \cup {"head"})] ==
        LET right == SelectSeq(names, LAMBDA s : ~Contains(g, s) /\ Follows(m, g[Len(g)], s))
            left == SelectSeq(names, LAMBDA s : ~Contains(g, s) /\ Follows(m, s, g[1]))
        IN CASE right # <<>> -> grown[Append(g, right[1])]
             [] right = <<>> /\ left # <<>> -> grown[<<left[1]>> \o g]
             [] OTHER -> g
      from_[rest \in Seq(Mats \cup {"head"})] ==
        IF rest = <<>> THEN <<>>
        ELSE LET g == grown[<<rest[1]>>]
             IN <<g>> \o from_[SelectSeq(rest, LAMBDA s : ~Contains(g, s))]
  IN from_[names]

PackedPart(c, S, m) ==
  LET vl(s) == Find(S, s, "").vl
      glued(g, t(_)) == [k \in DOMAIN g |-> [t(g[k]) EXCEPT !.glue = k > 1]]
      all(t(_)) == LET gs == Groups(m, ToPack(S, m))
                   IN FlattenSeq([i \in DOMAIN gs |-> glued(gs[i], t)])
  IN all(LAMBDA s : CodesOf(c, s, vl(s), SlotOf(m, s).fmt, SlotOf(m, s).val))
     \o all(LAMBDA s : ScalesOf(s, vl(s), SlotOf(m, s).val))

Container(c, S, u, m) == File(PlainPart(c, S, u, m) \o PackedPart(c, S, m))

-----------------------------------------------------------------------------
(* A process opens a directory, runs a forward or saves, and ends.           *)

Init ==
  /\ ckpt \in Checkpoints
  /\ dirs = [d \in Dirs |-> IF d = "source" THEN Snapshot(ckpt) ELSE NoFiles]
  /\ saved = [d \in Dirs |-> [model |-> NoModel, set |-> CHOOSE u \in Settings : TRUE]]
  /\ phase = "idle" /\ from = "source" /\ target = "source"
  /\ set = (CHOOSE u \in Settings : TRUE)
  /\ mem = NoModel /\ saves = 0

Open(d, u) ==
  /\ phase = "idle"
  /\ dirs[d].files # <<>>
  /\ from' = d /\ set' = u
  /\ IF OpenRefuses(ckpt, dirs[d], u)
     THEN phase' = "refused" /\ mem' = NoModel
     ELSE phase' = "open" /\ mem' = Model(ckpt, Index(dirs[d]), u)
  /\ UNCHANGED <<ckpt, dirs, saved, target, saves>>

\* The first forward reads what is streamed: codes are refused then.
Forward ==
  /\ phase = "open"
  /\ phase' = IF \E x \in {mem.mats[s] : s \in Mats} \cup {mem.head, mem.table} : x.fmt = "codes"
              THEN "refused" ELSE "run"
  /\ UNCHANGED <<ckpt, dirs, saved, from, set, mem, target, saves>>

\* fopen "wb" in a directory that is not the open one; they are alike at
\* first, so that the first time one of them stands for all.
StartSave(d) ==
  /\ phase = "open" /\ d # from /\ saves < MaxSaves
  /\ saves = 0 => d = (CHOOSE t \in Targets : TRUE)
  /\ saves' = saves + 1
  /\ ~SaveRefuses(ckpt, set)
  /\ phase' = "save" /\ target' = d
  /\ dirs' = [dirs EXCEPT ![d].files =
                <<[Container(ckpt, Index(dirs[from]), set, mem) EXCEPT !.header = FALSE, !.size = 0]>>]
  /\ saved' = [saved EXCEPT ![d] = [model |-> mem, set |-> set]]
  /\ UNCHANGED <<ckpt, from, set, mem>>

Writing == dirs[target].files[1]
NotYet == {i \in DOMAIN Writing.tensors : Writing.tensors[i].off + Writing.tensors[i].len > Writing.size}

\* The header, then tensor after tensor, then the configuration files.
SaveStep ==
  /\ phase = "save"
  /\ CASE ~Writing.header ->
            dirs' = [dirs EXCEPT ![target].files[1].header = TRUE] /\ phase' = phase
       [] Writing.header /\ NotYet # {} ->
            LET i == CHOOSE i \in NotYet : \A j \in NotYet : i <= j
            IN /\ dirs' = [dirs EXCEPT ![target].files[1].size =
                             Writing.tensors[i].off + Writing.tensors[i].len]
               /\ phase' = phase
       [] Writing.header /\ NotYet = {} ->
            dirs' = [dirs EXCEPT ![target].config = TRUE] /\ phase' = "done"
  /\ UNCHANGED <<ckpt, saved, from, set, mem, target, saves>>

\* The process ends, of itself or by a failure, wherever it is.
Close ==
  /\ phase # "idle"
  /\ phase' = "idle" /\ mem' = NoModel /\ from' = "source" /\ target' = "source"
  /\ set' = (CHOOSE u \in Settings : TRUE)
  /\ saves' = IF phase = "save" THEN MaxSaves ELSE saves
  /\ UNCHANGED <<ckpt, dirs, saved>>

Next ==
  \/ \E d \in Dirs, u \in Settings : Open(d, u)
  \/ Forward
  \/ \E d \in Targets : StartSave(d)
  \/ SaveStep
  \/ Close

Spec == Init /\ [][Next]_vars

-----------------------------------------------------------------------------
TypeOK ==
  /\ ckpt \in Checkpoints
  /\ phase \in {"idle", "open", "run", "refused", "save", "done"}
  /\ saves \in 0..MaxSaves
  /\ from \in Dirs /\ target \in Dirs /\ set \in Settings
  /\ \A d \in Dirs : dirs[d].config \in BOOLEAN /\ Len(dirs[d].files) <= 2
  /\ mem.fused \in {"view", "copy", "none"}

Idle == ckpt = (CHOOSE c \in Checkpoints : TRUE)

(* A model that is open computes with the weights of the snapshot: each      *)
(* matrix with its own, the tied head with the table's; what was packed was  *)
(* packed from the original rows ("no double quantization"), and nothing is  *)
(* used in place beyond the end of its file.                                 *)
Original(s) == IF s = "head" /\ (ckpt.tie \/ ~ckpt.head) THEN "embed" ELSE s
LoadsTrue ==
  phase \in {"open", "run"} /\ mem # NoModel =>
    \A s \in Mats \cup {"head", "embed"} :
      LET x == IF s = "embed" THEN mem.table ELSE SlotOf(mem, s)
      IN /\ x.val[1] = Original(s)
         /\ x.fmt \in R4 => x.val = <<Original(s), x.fmt>>
         /\ phase = "run" => x.fmt # "codes"
         /\ x.codes.in = "file" => \A n \in DOMAIN dirs[from].files :
                                      x.codes.at < dirs[from].files[n].size

(* A container that was written to the end opens again, and gives what it    *)
(* was written from: the packed matrices, the packed head and the int8 table *)
(* whatever QBITS, Q4FMT and Q8_TENSORS say, and everything under the same   *)
(* QBITS.  One that was not is refused.                                      *)
Written(d) == dirs[d].files # <<>> /\ dirs[d].files[1].header
              /\ dirs[d].files[1].size = SizeOf(dirs[d].files[1].tensors)
RoundTrip ==
  from \in Targets /\ phase \in {"open", "run", "refused"} =>
    LET o == saved[from].model
        same(x, y) == x.fmt = y.fmt /\ x.val = y.val
        usual == set.bits \in {4, 8} /\ ~set.disk /\ set.how = "resident"
    IN /\ Written(from) /\ dirs[from].config /\ usual => phase # "refused"
       /\ phase \in {"open", "run"} /\ set.how = "resident" =>
            /\ Written(from)
            /\ \A s \in Mats \cup {"head"} :
                 SlotOf(o, s).fmt \in R4 => same(SlotOf(mem, s), SlotOf(o, s))
            /\ o.table.fmt = "I8" => same(mem.table, o.table)
            /\ set.bits = 4 /\ set.group = saved[from].set.group /\ set.disk = saved[from].set.disk =>
                 /\ \A s \in Mats \cup {"head"} : same(SlotOf(mem, s), SlotOf(o, s))
                 /\ same(mem.table, o.table)

(* What an engine fuses is a view of the mapped container, of one written    *)
(* from a fused model or from another container alike.                       *)
InPlace ==
  from \in Targets /\ phase = "open" /\ set.mmap /\ set.how = "resident"
    /\ saved[from].model.fused # "none" =>
      mem.fused = "view" /\ \A i \in 1..3 : mem.mats[Fused[i]].codes.in = "file"
=============================================================================
