----------------------------- MODULE EmitterProofs -----------------------------
(***************************************************************************)
(* For functions of every size and depth: blocks of a function whose       *)
(* emission has not derailed are ones that LLVM accepts                    *)
(* (EmitterWellFormed).                                                    *)
(*                                                                         *)
(* EmitterInv says what holds between any two steps until emission         *)
(* derails.  Of the blocks (Well): every block of the function ends with   *)
(* its only terminator, but for the one that is being filled and the ones  *)
(* that a frame still has to fill, and every phi is complete.  Of the      *)
(* frames (Frames): what each may still branch to belongs to it alone, so  *)
(* that no step of another frame changes the predecessors of the block     *)
(* where its values will meet; and a frame that goes on in the block where *)
(* the frame above it leaves the builder has an expression above it, which *)
(* leaves an open block whenever it returns.                               *)
(***************************************************************************)
EXTENDS Emitter, ProofLemmas, FiniteSetTheorems, TLAPS

-----------------------------------------------------------------------------
(* Basic blocks under construction. *)

ValueSet == [name : STRING \cup {"", "unit"}, phi : Nat]
IncomingSet == Seq([v : ValueSet, from : Nat])
InstrKinds == Terminator \cup {"use", "pass", "phi"}
Instrs == [k : InstrKinds, v : ValueSet, w : ValueSet, to : Seq(Nat), from : IncomingSet]
BlockSet == [placed : BOOLEAN, code : Seq(Instrs)]

PredsIn(bs, b) == {p \in DOMAIN bs : bs[p].placed /\ \E i \in DOMAIN bs[p].code : b \in ToSet(bs[p].code[i].to)}
Froms(in) == {x.from : x \in ToSet(in)}
Gathers(bs, b, in) ==
    Froms(in) = PredsIn(bs, b) /\ \A i, j \in DOMAIN in : in[i].from = in[j].from => i = j

(* The i-th instruction of block b: only the last one terminates or         *)
(* branches, it branches into the function or to a block that waits, and a  *)
(* phi is complete: no frame will branch to its block any more.             *)
GoodInstr(bs, W, O, b, i) ==
    LET ins == bs[b].code[i] IN
    /\ ins.k \in Terminator \/ ins.to # <<>> => ins.k \in Terminator /\ i = Len(bs[b].code)
    /\ \A t \in ToSet(ins.to) : t \in DOMAIN bs /\ (bs[t].placed \/ t \in W)
    /\ ins.k = "phi" => i = 1 /\ b \notin O /\ Gathers(bs, b, ins.from)

(* The blocks bs while the builder is at block c, when frames may still     *)
(* branch to the blocks O and have yet to fill the blocks W.                *)
Well(bs, c, W, O) ==
    /\ bs \in Seq(BlockSet) /\ c \in DOMAIN bs /\ bs[c].placed
    /\ W \subseteq O /\ O \subseteq DOMAIN bs /\ c \notin W
    /\ \A b \in O : b \in W \/ bs[b].placed
    /\ \A b \in W : bs[b].code = <<>>
    /\ \A b \in DOMAIN bs :
         /\ bs[b].placed \/ bs[b].code = <<>>
         /\ bs[b].placed => HasTerminator(bs, b) \/ b = c \/ b \in W
         /\ \A i \in DOMAIN bs[b].code : GoodInstr(bs, W, O, b, i)

-----------------------------------------------------------------------------
(* Frames: activations of emit. *)

AllNodes == UNION {Nodes(p.body) : p \in Programs}
Joining == {"clause", "test", "compare", "join", "skipped"}
Dos == Kinds \cup Joining \cup {"block", "operand", "start", "loop", "postfix", "body"}
FrameSet == [do : Dos, node : AllNodes, clause : Nat \ {0}, at : Nat \ {0}, end : Nat, then : Nat,
             else : Nat, target : ValueSet, in : IncomingSet]
HereOf(f) == f.node.clauses[f.clause]

(* The blocks a frame has yet to fill, and the ones it may still branch to. *)
Waits(f) ==
    CASE f.do = "clause" -> {f.end}
      [] f.do = "test" -> IF IsSwitch(f.node) THEN {f.then, f.else, f.end} ELSE {f.end}
      [] f.do = "compare" -> {f.then, f.else, f.end}
      [] f.do \in {"join", "skipped"} -> IF HereOf(f).when = <<>> THEN {f.end} ELSE {f.else, f.end}
      [] f.do = "loop" -> {f.then + 1, f.end}
      [] f.do = "postfix" -> {f.then, f.end}
      [] f.do = "body" -> {f.end}
      [] OTHER -> {}
Owns(f) ==
    Waits(f) \cup IF f.do = "loop" \/ (f.do = "body" /\ f.node.k # "postfix_if") THEN {f.then} ELSE {}

FrameOK(f) ==
    /\ f \in FrameSet
    /\ f.do \in Kinds => f.do = f.node.k /\ f.clause = 1 /\ f.in = <<>>
    /\ f.do = "block" => f.clause \in DOMAIN f.node.clauses
    /\ f.do = "operand" => f.node.k \in {"return_stmt", "use"}
    /\ f.do = "start" => /\ f.node.k \in {"switch_stmt", "switch_expr", "for_stmt", "tuple_for"}
                         /\ IsSwitch(f.node) => f.clause = 1 /\ f.in = <<>>
    /\ f.do \in Joining =>
         /\ f.node.k \in Conditional
         /\ f.do # "clause" \/ IsExpr(f.node) => f.clause \in DOMAIN f.node.clauses
         /\ f.do \in {"test", "compare"} => HereOf(f).when # <<>>
         /\ f.do = "compare" => IsSwitch(f.node)
         /\ f.do = "skipped" => IsExpr(f.node)
         /\ f.do = "compare" \/ (f.do = "test" /\ IsSwitch(f.node)) =>
              f.then # f.else /\ f.then # f.end /\ f.else # f.end
         /\ f.do \in {"join", "skipped"} /\ HereOf(f).when # <<>> => f.else # f.end
    /\ f.do = "loop" => f.node.k = "while_stmt" /\ f.end # f.then + 1
    /\ f.do = "postfix" => f.node.k = "postfix_if" /\ f.end # f.then /\ f.clause = 1
    /\ f.do = "body" => f.node.k \in {"while_stmt", "postfix_if", "for_stmt"}

(* What a frame knows of the blocks: its values come from all the blocks    *)
(* that branch to its end so far; the blocks of a loop are in the function. *)
Held(bs, f) ==
    /\ f.do \in Joining /\ IsExpr(f.node) => Gathers(bs, f.end, f.in)
    /\ f.do \in {"loop", "postfix", "body"} => \A b \in Owns(f) : bs[b].placed

(* A frame that goes on in the block where the frame above it leaves the    *)
(* builder, and relies on that block being open.                            *)
Open(f) ==
    /\ f.do \notin {"block", "body", "skipped"}
    /\ f.do = "join" => IsExpr(f.node)
    /\ f.do = "start" => f.node.k # "tuple_for"

AllOwned(r) == UNION {Owns(r[i]) : i \in DOMAIN r}
AllWaiting(r) == UNION {Waits(r[i]) : i \in DOMAIN r}

Follows(f, g) == f.do # "skipped" /\ (Open(f) => IsExpr(g.node))
Bottom(f) == f.do = "block" /\ ~IsExpr(f.node)

Frames(bs, r) ==
    /\ r \in Seq(FrameSet)
    /\ \A i \in DOMAIN r : FrameOK(r[i]) /\ Held(bs, r[i])
    /\ \A i, j \in DOMAIN r : i # j => Owns(r[i]) \cap Owns(r[j]) = {}
    /\ \A i \in DOMAIN r : i + 1 \in DOMAIN r => Follows(r[i], r[i + 1])
    /\ 1 \in DOMAIN r => Bottom(r[1])

Ready(bs, c, f) ==
    /\ Open(f) => ~HasTerminator(bs, c)
    /\ f.do = "skipped" => HasTerminator(bs, c)

(* The builder at block c of the blocks bs, with the frames w.              *)
SoundAt(bs, c, w) ==
    /\ Frames(bs, w)
    /\ Well(bs, c, AllWaiting(w), AllOwned(w))
    /\ w # <<>> => Ready(bs, c, Last(w))

Current == SoundAt(blocks, cur, work) /\ val \in ValueSet
EmitterInv ==
    /\ program \in Programs /\ derailed \in BOOLEAN
    /\ ~derailed => Current /\ (done => work = <<>> /\ HasTerminator(blocks, cur))

-----------------------------------------------------------------------------
(* Primitives of the builder. *)

(* What putting an instruction into a block does to the sequences.          *)
Extended(bs, c, x, n, new) ==
    /\ new \in Seq(BlockSet) /\ DOMAIN new = DOMAIN bs /\ \A b \in DOMAIN bs : b # c => new[b] = bs[b]
    /\ new[c].placed = bs[c].placed
    /\ new[c].code # <<>> /\ Len(new[c].code) = n + 1 /\ DOMAIN new[c].code = 1..(n + 1)
    /\ new[c].code[n + 1] = x /\ \A i \in 1..n : new[c].code[i] = bs[c].code[i]
    /\ n \in Nat /\ DOMAIN bs[c].code = 1..n

(* Put extends the code of one block.                                       *)
LEMMA PutBlocks ==
  ASSUME NEW bs \in Seq(BlockSet), NEW c \in DOMAIN bs, NEW x \in Instrs
  PROVE  Extended(bs, c, x, Len(bs[c].code), Put(bs, c, x))
<1>1. bs[c] \in BlockSet
  BY ElementOfSeq, LenProperties
<1>2. bs[c].code \in Seq(Instrs) /\ bs[c].placed \in BOOLEAN
  BY <1>1 DEF BlockSet
<1> DEFINE y == [placed |-> bs[c].placed, code |-> Append(bs[c].code, x)]
<1>3. Append(bs[c].code, x) \in Seq(Instrs)
  BY <1>2, AppendProperties
<1>4. y \in BlockSet
  BY <1>2, <1>3 DEF BlockSet
<1>5. Put(bs, c, x) = [bs EXCEPT ![c] = y]
  BY DEF Put
<1>6. Put(bs, c, x) \in Seq(BlockSet) /\ DOMAIN Put(bs, c, x) = DOMAIN bs
  <2>1. Len(bs) \in Nat /\ DOMAIN bs = 1..Len(bs) /\ \A i \in 1..Len(bs) : bs[i] \in BlockSet
    BY LenProperties, ElementOfSeq
  <2>2. Put(bs, c, x) \in [1..Len(bs) -> BlockSet]
    BY <2>1, <1>4, <1>5, Zenon
  <2> QED
    BY <2>1, <2>2, SeqDef
<1>7. Put(bs, c, x)[c] = y /\ \A b \in DOMAIN bs : b # c => Put(bs, c, x)[b] = bs[b]
  BY <1>5, Zenon
<1>8. y.placed = bs[c].placed /\ y.code = Append(bs[c].code, x)
  OBVIOUS
<1>9. /\ Append(bs[c].code, x) # <<>> /\ Len(Append(bs[c].code, x)) = Len(bs[c].code) + 1
      /\ Append(bs[c].code, x)[Len(bs[c].code) + 1] = x
      /\ \A i \in 1..Len(bs[c].code) : Append(bs[c].code, x)[i] = bs[c].code[i]
      /\ Len(bs[c].code) \in Nat /\ DOMAIN bs[c].code = 1..Len(bs[c].code)
      /\ DOMAIN Append(bs[c].code, x) = 1..(Len(bs[c].code) + 1)
  BY <1>2, AppendProperties, LenProperties
<1> QED
  BY <1>6, <1>7, <1>8, <1>9 DEF Extended

(* Whether the block is terminated then, and who its predecessors are.      *)
LEMMA PutPreds ==
  ASSUME NEW bs \in Seq(BlockSet), NEW c \in DOMAIN bs, NEW x \in Instrs, bs[c].placed
  PROVE  /\ HasTerminator(Put(bs, c, x), c) <=> x.k \in Terminator
         /\ \A b : PredsIn(Put(bs, c, x), b) = PredsIn(bs, b) \cup (IF b \in ToSet(x.to) THEN {c} ELSE {})
<1>0. PICK new, n : new = Put(bs, c, x) /\ n = Len(bs[c].code)
  OBVIOUS
<1>1. /\ DOMAIN new = DOMAIN bs /\ \A b \in DOMAIN bs : b # c => new[b] = bs[b]
      /\ new[c].placed = bs[c].placed
      /\ new[c].code # <<>> /\ Len(new[c].code) = n + 1 /\ DOMAIN new[c].code = 1..(n + 1)
      /\ new[c].code[n + 1] = x /\ \A i \in 1..n : new[c].code[i] = bs[c].code[i]
      /\ n \in Nat /\ DOMAIN bs[c].code = 1..n
  <2>1. Extended(bs, c, x, n, new)
    BY <1>0, PutBlocks
  <2> QED
    BY <2>1 DEF Extended
<1>2. HasTerminator(new, c) <=> x.k \in Terminator
  BY <1>1 DEF HasTerminator, Last
<1>3. ASSUME NEW b PROVE PredsIn(new, b) = PredsIn(bs, b) \cup (IF b \in ToSet(x.to) THEN {c} ELSE {})
  <2>1. ASSUME NEW p, p # c PROVE p \in PredsIn(new, b) <=> p \in PredsIn(bs, b)
    BY <1>1, <2>1 DEF PredsIn
  <2>2. c \in PredsIn(new, b) <=> \E i \in 1..(n + 1) : b \in ToSet(new[c].code[i].to)
    BY <1>1 DEF PredsIn
  <2>3. c \in PredsIn(bs, b) <=> \E i \in 1..n : b \in ToSet(bs[c].code[i].to)
    BY <1>1 DEF PredsIn
  <2>4. (\E i \in 1..(n + 1) : b \in ToSet(new[c].code[i].to))
          <=> (\E i \in 1..n : b \in ToSet(bs[c].code[i].to)) \/ b \in ToSet(x.to)
    <3>1. \A i \in 1..(n + 1) : i \in 1..n \/ i = n + 1
      BY <1>1
    <3>2. n + 1 \in 1..(n + 1) /\ \A i \in 1..n : i \in 1..(n + 1)
      BY <1>1
    <3> QED
      BY <1>1, <3>1, <3>2
  <2> QED
    BY <2>1, <2>2, <2>3, <2>4
<1> QED
  BY <1>0, <1>2, <1>3

(* An instruction that is no phi, put into the current block.               *)
LEMMA PutKeeps ==
  ASSUME NEW bs, NEW c, NEW W, NEW O, Well(bs, c, W, O), ~HasTerminator(bs, c),
         NEW x \in Instrs, x.k # "phi", ToSet(x.to) \subseteq O, x.to # <<>> => x.k \in Terminator
  PROVE  Well(Put(bs, c, x), c, W, O)
<1>0. PICK new, n : new = Put(bs, c, x) /\ n = Len(bs[c].code)
  OBVIOUS
<1>1. /\ bs \in Seq(BlockSet) /\ c \in DOMAIN bs /\ bs[c].placed
      /\ W \subseteq O /\ O \subseteq DOMAIN bs /\ c \notin W
      /\ \A b \in O : b \in W \/ bs[b].placed
      /\ \A b \in W : bs[b].code = <<>>
      /\ \A b \in DOMAIN bs :
           /\ bs[b].placed \/ bs[b].code = <<>>
           /\ bs[b].placed => HasTerminator(bs, b) \/ b = c \/ b \in W
           /\ \A i \in DOMAIN bs[b].code : GoodInstr(bs, W, O, b, i)
  BY DEF Well
<1>2. /\ new \in Seq(BlockSet) /\ DOMAIN new = DOMAIN bs /\ \A b \in DOMAIN bs : b # c => new[b] = bs[b]
      /\ new[c].placed = bs[c].placed
      /\ new[c].code # <<>> /\ Len(new[c].code) = n + 1 /\ DOMAIN new[c].code = 1..(n + 1)
      /\ new[c].code[n + 1] = x /\ \A i \in 1..n : new[c].code[i] = bs[c].code[i]
      /\ n \in Nat /\ DOMAIN bs[c].code = 1..n
  <2>1. Extended(bs, c, x, n, new)
    BY <1>0, <1>1, PutBlocks
  <2> QED
    BY <2>1 DEF Extended
<1>3. \A b : PredsIn(new, b) = PredsIn(bs, b) \cup (IF b \in ToSet(x.to) THEN {c} ELSE {})
  BY <1>0, <1>1, PutPreds
<1>4. \A b : b \notin O => PredsIn(new, b) = PredsIn(bs, b)
  BY <1>3
<1>5. ~(\E i \in 1..n : bs[c].code[i].k \in Terminator \/ bs[c].code[i].to # <<>>)
  <2>1. SUFFICES ASSUME NEW i \in 1..n, bs[c].code[i].k \in Terminator \/ bs[c].code[i].to # <<>>
                 PROVE  FALSE
    OBVIOUS
  <2>2. bs[c].code[i].k \in Terminator /\ i = Len(bs[c].code)
    BY <1>1, <1>2, <2>1 DEF GoodInstr
  <2>3. bs[c].code # <<>>
    BY <1>2, <2>1
  <2> QED
    BY <2>2, <2>3 DEF HasTerminator, Last
<1>6. \A t : t \in DOMAIN bs => (new[t].placed <=> bs[t].placed)
  BY <1>2
<1>7. ASSUME NEW b \in DOMAIN new, NEW i \in DOMAIN new[b].code
      PROVE  GoodInstr(new, W, O, b, i)
  <2>1. CASE b # c
    <3>1. GoodInstr(bs, W, O, b, i) /\ new[b] = bs[b]
      BY <1>1, <1>2, <2>1
    <3> QED
      BY <3>1, <1>2, <1>4, <1>6 DEF GoodInstr, Gathers
  <2>2. CASE b = c /\ i \in 1..n
    <3>1. GoodInstr(bs, W, O, c, i) /\ new[c].code[i] = bs[c].code[i]
      BY <1>1, <1>2, <2>2
    <3>2. ~(new[c].code[i].k \in Terminator \/ new[c].code[i].to # <<>>)
      BY <3>1, <1>5, <2>2
    <3> QED
      BY <2>2, <3>1, <3>2, <1>2, <1>4, <1>6 DEF GoodInstr, Gathers
  <2>3. CASE b = c /\ i = n + 1
    BY <2>3, <1>1, <1>2, <1>6 DEF GoodInstr
  <2> QED
    BY <2>1, <2>2, <2>3, <1>2
<1>8. \A b \in DOMAIN new : b # c => (HasTerminator(new, b) <=> HasTerminator(bs, b))
  BY <1>2 DEF HasTerminator
<1>9. Well(new, c, W, O)
  BY <1>1, <1>2, <1>6, <1>7, <1>8 DEF Well
<1> QED
  BY <1>0, <1>9

(* Values and instructions have their types.                                *)
LEMMA InstrTyped ==
  /\ NoValue \in ValueSet /\ <<>> \in Seq(Nat) /\ <<>> \in IncomingSet
  /\ \A m \in STRING \cup {"", "unit"}, p \in Nat : Value(m, p) \in ValueSet
<1>1. \A m \in STRING \cup {"", "unit"}, p \in Nat : Value(m, p) \in ValueSet
  BY DEF Value, ValueSet
<1>2. NoValue \in ValueSet
  BY DEF NoValue, Value, ValueSet
<1>3. <<>> \in Seq(Nat) /\ <<>> \in IncomingSet
  BY EmptySeq DEF IncomingSet
<1> QED
  BY <1>1, <1>2, <1>3

(* An instruction of any kind.                                              *)
LEMMA AnInstr ==
  ASSUME NEW k \in InstrKinds, NEW v \in ValueSet, NEW w \in ValueSet, NEW to \in Seq(Nat),
         NEW x, x = Instr(k, v, w, to)
  PROVE  x \in Instrs /\ x.k = k /\ x.to = to
BY InstrTyped DEF Instr, Instrs

(* Blocks only grow and stay in the function, and the predecessors of       *)
(* blocks outside D stay what they are.                                     *)
Steady(bs, new, D) ==
    /\ DOMAIN bs \subseteq DOMAIN new
    /\ \A b \in DOMAIN bs : /\ bs[b].placed => new[b].placed
                            /\ b \notin D => PredsIn(new, b) = PredsIn(bs, b)

OneNew(bs, c, W, O, p, n, new) ==
    /\ Well(new, c, W \cup {n}, O \cup {n})
    /\ n \in Nat \ {0} /\ n \notin DOMAIN bs /\ DOMAIN new = DOMAIN bs \cup {n} /\ Len(new) = n
    /\ new[n].placed = p /\ \A b \in DOMAIN bs : new[b] = bs[b]
    /\ HasTerminator(new, c) <=> HasTerminator(bs, c)
    /\ \A b : PredsIn(new, b) = PredsIn(bs, b)
    /\ PredsIn(new, n) = {}

(* A new block waits until it is filled.                                    *)
LEMMA NewKeeps ==
  ASSUME NEW bs, NEW c, NEW W, NEW O, Well(bs, c, W, O), NEW p \in BOOLEAN
  PROVE  OneNew(bs, c, W, O, p, Len(bs) + 1, Append(bs, NewBlock(p)))
<1>0. PICK n, new : n = Len(bs) + 1 /\ new = Append(bs, NewBlock(p))
  OBVIOUS
<1>1. /\ bs \in Seq(BlockSet) /\ c \in DOMAIN bs /\ bs[c].placed
      /\ W \subseteq O /\ O \subseteq DOMAIN bs /\ c \notin W
      /\ \A b \in O : b \in W \/ bs[b].placed
      /\ \A b \in W : bs[b].code = <<>>
      /\ \A b \in DOMAIN bs :
           /\ bs[b].placed \/ bs[b].code = <<>>
           /\ bs[b].placed => HasTerminator(bs, b) \/ b = c \/ b \in W
           /\ \A i \in DOMAIN bs[b].code : GoodInstr(bs, W, O, b, i)
  BY DEF Well
<1>2. NewBlock(p) \in BlockSet /\ NewBlock(p).placed = p /\ NewBlock(p).code = <<>>
  BY DEF NewBlock, BlockSet
<1>3. /\ new \in Seq(BlockSet) /\ Len(new) = n /\ n \in Nat \ {0} /\ n \notin DOMAIN bs
      /\ DOMAIN new = DOMAIN bs \cup {n} /\ new[n] = NewBlock(p) /\ \A b \in DOMAIN bs : new[b] = bs[b]
  BY <1>0, <1>1, <1>2, AppendProperties, LenProperties
<1>4. DOMAIN new[n].code = {}
  BY <1>2, <1>3
<1>5. ASSUME NEW b PROVE PredsIn(new, b) = PredsIn(bs, b)
  BY <1>3, <1>4 DEF PredsIn
<1>6. PredsIn(bs, n) = {}
  BY <1>1, <1>3 DEF PredsIn, GoodInstr
<1>7. \A b \in DOMAIN bs : HasTerminator(new, b) <=> HasTerminator(bs, b)
  BY <1>3 DEF HasTerminator
<1>8. ASSUME NEW b \in DOMAIN new, NEW i \in DOMAIN new[b].code
      PROVE  GoodInstr(new, W \cup {n}, O \cup {n}, b, i)
  <2>1. b \in DOMAIN bs /\ new[b] = bs[b] /\ i \in DOMAIN bs[b].code /\ b # n
    BY <1>3, <1>4
  <2>2. GoodInstr(bs, W, O, b, i)
    BY <2>1, <1>1
  <2> QED
    BY <2>1, <2>2, <1>3, <1>5 DEF GoodInstr, Gathers
<1>9. Well(new, c, W \cup {n}, O \cup {n})
  BY <1>1, <1>2, <1>3, <1>7, <1>8 DEF Well
<1> QED
  BY <1>0, <1>1, <1>2, <1>3, <1>5, <1>6, <1>7, <1>9 DEF OneNew

PlacedToo(bs, c, W, O, w, new) ==
    /\ Well(new, c, W, O) /\ DOMAIN new = DOMAIN bs /\ new[w].placed
    /\ \A b \in DOMAIN bs : bs[b].placed => new[b].placed
    /\ \A b \in DOMAIN bs : HasTerminator(new, b) <=> HasTerminator(bs, b)
    /\ \A b : PredsIn(new, b) = PredsIn(bs, b)

(* A block that waits is put into the function.                             *)
LEMMA PlaceKeeps ==
  ASSUME NEW bs, NEW c, NEW W, NEW O, Well(bs, c, W, O), NEW w \in W
  PROVE  PlacedToo(bs, c, W, O, w, append_block(bs, w))
<1>0. PICK new : new = append_block(bs, w)
  OBVIOUS
<1>1. /\ bs \in Seq(BlockSet) /\ c \in DOMAIN bs /\ bs[c].placed
      /\ W \subseteq O /\ O \subseteq DOMAIN bs /\ c \notin W
      /\ \A b \in O : b \in W \/ bs[b].placed
      /\ \A b \in W : bs[b].code = <<>>
      /\ \A b \in DOMAIN bs :
           /\ bs[b].placed \/ bs[b].code = <<>>
           /\ bs[b].placed => HasTerminator(bs, b) \/ b = c \/ b \in W
           /\ \A i \in DOMAIN bs[b].code : GoodInstr(bs, W, O, b, i)
  BY DEF Well
<1> DEFINE y == [placed |-> TRUE, code |-> bs[w].code]
<1>2. w \in DOMAIN bs /\ bs[w] \in BlockSet /\ bs[w].code = <<>>
  BY <1>1, ElementOfSeq, LenProperties
<1>3. y \in BlockSet /\ y.placed /\ y.code = bs[w].code
  BY <1>2 DEF BlockSet
<1>4. new = [bs EXCEPT ![w] = y]
  BY <1>0 DEF append_block
<1>5. new \in Seq(BlockSet) /\ DOMAIN new = DOMAIN bs
  <2>1. Len(bs) \in Nat /\ DOMAIN bs = 1..Len(bs) /\ \A i \in 1..Len(bs) : bs[i] \in BlockSet
    BY <1>1, LenProperties, ElementOfSeq
  <2>2. new \in [1..Len(bs) -> BlockSet]
    BY <2>1, <1>3, <1>4, Zenon
  <2> QED
    BY <2>1, <2>2, SeqDef
<1>6. new[w] = y /\ \A b \in DOMAIN bs : b # w => new[b] = bs[b]
  BY <1>2, <1>4, Zenon
<1>7. \A b \in DOMAIN bs : new[b].code = bs[b].code /\ (bs[b].placed => new[b].placed)
  BY <1>3, <1>6
<1>8. DOMAIN bs[w].code = {}
  BY <1>2
<1>9. ASSUME NEW b PROVE PredsIn(new, b) = PredsIn(bs, b)
  BY <1>5, <1>6, <1>7, <1>8, <1>3 DEF PredsIn
<1>10. \A b \in DOMAIN bs : HasTerminator(new, b) <=> HasTerminator(bs, b)
  BY <1>7 DEF HasTerminator
<1>11. ASSUME NEW b \in DOMAIN new, NEW i \in DOMAIN new[b].code
       PROVE  GoodInstr(new, W, O, b, i)
  <2>1. b \in DOMAIN bs /\ new[b].code = bs[b].code /\ i \in DOMAIN bs[b].code
    BY <1>5, <1>7
  <2>2. GoodInstr(bs, W, O, b, i)
    BY <2>1, <1>1
  <2> QED
    BY <2>1, <2>2, <1>5, <1>7, <1>9 DEF GoodInstr, Gathers
<1>12. Well(new, c, W, O)
  BY <1>1, <1>3, <1>5, <1>6, <1>7, <1>10, <1>11 DEF Well
<1> QED
  BY <1>0, <1>2, <1>3, <1>5, <1>6, <1>7, <1>9, <1>10, <1>12 DEF PlacedToo

(* The builder leaves a terminated block for one that waits.                *)
LEMMA MoveKeeps ==
  ASSUME NEW bs, NEW c, NEW W, NEW O, Well(bs, c, W, O), HasTerminator(bs, c), NEW w \in W, bs[w].placed
  PROVE  Well(bs, w, W \ {w}, O) /\ ~HasTerminator(bs, w) /\ bs[w].code = <<>>
<1>1. /\ bs \in Seq(BlockSet) /\ c \in DOMAIN bs /\ bs[c].placed
      /\ W \subseteq O /\ O \subseteq DOMAIN bs /\ c \notin W
      /\ \A b \in O : b \in W \/ bs[b].placed
      /\ \A b \in W : bs[b].code = <<>>
      /\ \A b \in DOMAIN bs :
           /\ bs[b].placed \/ bs[b].code = <<>>
           /\ bs[b].placed => HasTerminator(bs, b) \/ b = c \/ b \in W
           /\ \A i \in DOMAIN bs[b].code : GoodInstr(bs, W, O, b, i)
  BY DEF Well
<1>2. \A b \in DOMAIN bs : \A i \in DOMAIN bs[b].code : GoodInstr(bs, W \ {w}, O, b, i)
  BY <1>1 DEF GoodInstr
<1> QED
  BY <1>1, <1>2 DEF Well, HasTerminator

(* Nothing branches to some blocks any more.                                *)
LEMMA ShrinkKeeps ==
  ASSUME NEW bs, NEW c, NEW W, NEW O, Well(bs, c, W, O), NEW P, W \subseteq P, P \subseteq O
  PROVE  Well(bs, c, W, P)
<1>1. \A b \in DOMAIN bs : \A i \in DOMAIN bs[b].code : GoodInstr(bs, W, O, b, i) => GoodInstr(bs, W, P, b, i)
  BY DEF GoodInstr
<1> QED
  BY <1>1 DEF Well

(* A phi starts the current block, to which nothing will branch any more.   *)
LEMMA PhiKeeps ==
  ASSUME NEW bs, NEW c, NEW W, NEW O, Well(bs, c, W, O), bs[c].code = <<>>, c \notin O,
         NEW in \in IncomingSet, Gathers(bs, c, in)
  PROVE  /\ Well(Put(bs, c, Phi(in)), c, W, O) /\ ~HasTerminator(Put(bs, c, Phi(in)), c)
         /\ DOMAIN Put(bs, c, Phi(in)) = DOMAIN bs
         /\ \A b \in DOMAIN bs : bs[b].placed => Put(bs, c, Phi(in))[b].placed
         /\ \A b : PredsIn(Put(bs, c, Phi(in)), b) = PredsIn(bs, b)
<1>0. PICK new, n, x : new = Put(bs, c, x) /\ n = Len(bs[c].code) /\ x = Phi(in)
  OBVIOUS
<1>1. /\ bs \in Seq(BlockSet) /\ c \in DOMAIN bs /\ bs[c].placed
      /\ W \subseteq O /\ O \subseteq DOMAIN bs /\ c \notin W
      /\ \A b \in O : b \in W \/ bs[b].placed
      /\ \A b \in W : bs[b].code = <<>>
      /\ \A b \in DOMAIN bs :
           /\ bs[b].placed \/ bs[b].code = <<>>
           /\ bs[b].placed => HasTerminator(bs, b) \/ b = c \/ b \in W
           /\ \A i \in DOMAIN bs[b].code : GoodInstr(bs, W, O, b, i)
  BY DEF Well
<1>2. x \in Instrs /\ x.k = "phi" /\ x.to = <<>> /\ x.from = in
  <2>1. NoValue \in ValueSet /\ <<>> \in Seq(Nat)
    BY InstrTyped
  <2>2. x = [k |-> "phi", v |-> NoValue, w |-> NoValue, to |-> <<>>, from |-> in]
    BY <1>0 DEF Phi, Instr
  <2> QED
    <3>1. x \in Instrs
      BY <2>1, <2>2 DEF Instrs, InstrKinds
    <3> QED
      BY <3>1, <2>2
<1>3. /\ new \in Seq(BlockSet) /\ DOMAIN new = DOMAIN bs /\ \A b \in DOMAIN bs : b # c => new[b] = bs[b]
      /\ new[c].placed = bs[c].placed
      /\ new[c].code # <<>> /\ Len(new[c].code) = n + 1 /\ DOMAIN new[c].code = 1..(n + 1)
      /\ new[c].code[n + 1] = x
      /\ n = 0
  <2>1. Extended(bs, c, x, n, new)
    BY <1>0, <1>1, <1>2, PutBlocks
  <2>2. n = 0
    BY <1>0
  <2> QED
    BY <2>1, <2>2 DEF Extended
<1>4. ToSet(x.to) = {}
  BY <1>2 DEF ToSet
<1>5. /\ \A b : PredsIn(new, b) = PredsIn(bs, b)
      /\ ~HasTerminator(new, c)
  <2>1. /\ HasTerminator(Put(bs, c, x), c) <=> x.k \in Terminator
        /\ \A b : PredsIn(Put(bs, c, x), b) = PredsIn(bs, b) \cup (IF b \in ToSet(x.to) THEN {c} ELSE {})
    BY <1>1, <1>2, PutPreds
  <2>2. x.k \notin Terminator
    BY <1>2 DEF Terminator
  <2> QED
    BY <2>1, <2>2, <1>0, <1>4
<1>6. \A t : t \in DOMAIN bs => (new[t].placed <=> bs[t].placed)
  BY <1>3
<1>7. ASSUME NEW b \in DOMAIN new, NEW i \in DOMAIN new[b].code
      PROVE  GoodInstr(new, W, O, b, i)
  <2>1. CASE b # c
    <3>1. GoodInstr(bs, W, O, b, i) /\ new[b] = bs[b]
      BY <1>1, <1>3, <2>1
    <3> QED
      BY <3>1, <1>3, <1>5, <1>6 DEF GoodInstr, Gathers
  <2>2. CASE b = c
    <3>1. i = 1 /\ new[c].code[i] = x
      BY <1>3, <2>2
    <3>2. x.k \notin Terminator
      BY <1>2 DEF Terminator
    <3> QED
      BY <3>1, <3>2, <2>2, <1>2, <1>4, <1>5 DEF GoodInstr, Gathers
  <2> QED
    BY <2>1, <2>2
<1>8. \A b \in DOMAIN new : b # c => (HasTerminator(new, b) <=> HasTerminator(bs, b))
  BY <1>3 DEF HasTerminator
<1>9. Well(new, c, W, O)
  BY <1>1, <1>3, <1>6, <1>7, <1>8 DEF Well
<1> QED
  BY <1>0, <1>3, <1>5, <1>6, <1>9

(* The block c now branches to the blocks D as well, and is ended or not.   *)
Grown(bs, new, c, W, O, D, ended) ==
    /\ Well(new, c, W, O) /\ DOMAIN new = DOMAIN bs
    /\ \A b \in DOMAIN bs : bs[b].placed => new[b].placed
    /\ \A b : PredsIn(new, b) = PredsIn(bs, b) \cup (IF b \in D THEN {c} ELSE {})
    /\ HasTerminator(new, c) <=> ended

(* The instructions of an open block: any that is no phi.                   *)
LEMMA PutGrows ==
  ASSUME NEW bs, NEW c, NEW W, NEW O, Well(bs, c, W, O), ~HasTerminator(bs, c),
         NEW x \in Instrs, x.k # "phi", ToSet(x.to) \subseteq O, x.to # <<>> => x.k \in Terminator
  PROVE  Grown(bs, Put(bs, c, x), c, W, O, ToSet(x.to), x.k \in Terminator)
<1>1. bs \in Seq(BlockSet) /\ c \in DOMAIN bs /\ bs[c].placed
  BY DEF Well
<1>2. Extended(bs, c, x, Len(bs[c].code), Put(bs, c, x))
  BY <1>1, PutBlocks
<1>3. Well(Put(bs, c, x), c, W, O)
  BY PutKeeps
<1>4. /\ HasTerminator(Put(bs, c, x), c) <=> x.k \in Terminator
      /\ \A b : PredsIn(Put(bs, c, x), b) = PredsIn(bs, b) \cup (IF b \in ToSet(x.to) THEN {c} ELSE {})
  BY <1>1, PutPreds
<1> QED
  BY <1>1, <1>2, <1>3, <1>4 DEF Grown, Extended

(* A branch, and a branch on a condition.                                   *)
LEMMA BrGrows ==
  ASSUME NEW bs, NEW c, NEW W, NEW O, Well(bs, c, W, O), ~HasTerminator(bs, c), NEW t \in O
  PROVE  Grown(bs, Put(bs, c, Br(t)), c, W, O, {t}, TRUE)
<1>1. t \in Nat
  BY LenProperties DEF Well
<1>2. PICK to : to = <<t>>
  OBVIOUS
<1>3. to \in Seq(Nat) /\ ToSet(to) = {t} /\ to # <<>>
  BY <1>1, <1>2 DEF ToSet
<1>4. PICK x : x = Br(t)
  OBVIOUS
<1>5. x \in Instrs /\ x.k = "br" /\ x.to = to
  <2>1. x = Instr("br", NoValue, NoValue, to) /\ "br" \in InstrKinds
    BY <1>2, <1>4 DEF Br, InstrKinds, Terminator
  <2>2. NoValue \in ValueSet
    BY InstrTyped
  <2> QED
    BY <2>1, <2>2, <1>3, AnInstr
<1>6. x.k \in Terminator
  BY <1>5 DEF Terminator
<1>7. Grown(bs, Put(bs, c, x), c, W, O, ToSet(x.to), x.k \in Terminator)
  BY <1>3, <1>5, <1>6, PutGrows
<1> QED
  BY <1>3, <1>4, <1>5, <1>6, <1>7 DEF Grown

(* A branch on a condition or a comparison.                                 *)
LEMMA CondBrGrows ==
  ASSUME NEW bs, NEW c, NEW W, NEW O, Well(bs, c, W, O), ~HasTerminator(bs, c), NEW t \in O, NEW f \in O,
         NEW v \in ValueSet, NEW w \in ValueSet
  PROVE  Grown(bs, Put(bs, c, CondBr(v, w, t, f)), c, W, O, {t, f}, TRUE)
<1>1. t \in Nat /\ f \in Nat
  BY LenProperties DEF Well
<1>2. PICK to : to = <<t, f>>
  OBVIOUS
<1>3. to \in Seq(Nat) /\ ToSet(to) = {t, f} /\ to # <<>>
  BY <1>1, <1>2 DEF ToSet
<1>4. PICK x : x = CondBr(v, w, t, f)
  OBVIOUS
<1>5. x \in Instrs /\ x.k = "condbr" /\ x.to = to
  <2>1. x = Instr("condbr", v, w, to) /\ "condbr" \in InstrKinds
    BY <1>2, <1>4 DEF CondBr, InstrKinds, Terminator
  <2> QED
    BY <2>1, <1>3, AnInstr
<1>6. x.k \in Terminator
  BY <1>5 DEF Terminator
<1>7. Grown(bs, Put(bs, c, x), c, W, O, ToSet(x.to), x.k \in Terminator)
  BY <1>3, <1>5, <1>6, PutGrows
<1> QED
  BY <1>3, <1>4, <1>5, <1>6, <1>7 DEF Grown

(* An instruction that does not branch.                                     *)
LEMMA PlainGrows ==
  ASSUME NEW bs, NEW c, NEW W, NEW O, Well(bs, c, W, O), ~HasTerminator(bs, c),
         NEW k \in {"use", "pass", "ret", "unreachable"}, NEW v \in ValueSet
  PROVE  Grown(bs, Put(bs, c, Instr(k, v, NoValue, <<>>)), c, W, O, {}, k \in {"ret", "unreachable"})
<1>1. PICK x : x = Instr(k, v, NoValue, <<>>)
  OBVIOUS
<1>2. k \in InstrKinds
  BY DEF InstrKinds, Terminator
<1>3. x \in Instrs /\ x.k = k /\ x.to = <<>>
  <2>1. NoValue \in ValueSet /\ <<>> \in Seq(Nat)
    BY InstrTyped
  <2>2. PICK to : to = <<>>
    OBVIOUS
  <2>3. to \in Seq(Nat) /\ x = Instr(k, v, NoValue, to)
    BY <2>1, <2>2, <1>1
  <2>4. x \in Instrs /\ x.k = k /\ x.to = to
    BY <2>1, <2>3, <1>2, AnInstr
  <2> QED
    BY <2>2, <2>4
<1>4. ToSet(x.to) = {}
  BY <1>3 DEF ToSet
<1>5. x.k # "phi" /\ (x.k \in Terminator <=> k \in {"ret", "unreachable"})
  BY <1>3 DEF Terminator
<1>6. Grown(bs, Put(bs, c, x), c, W, O, ToSet(x.to), x.k \in Terminator)
  BY <1>3, <1>4, <1>5, PutGrows
<1> QED
  BY <1>1, <1>4, <1>5, <1>6 DEF Grown

(* A branch, unless the block is terminated.                                *)
LEMMA TerminateGrows ==
  ASSUME NEW bs, NEW W, NEW O, Well(bs, cur, W, O), NEW t \in O
  PROVE  Grown(bs, terminate_with_br(bs, t), cur, W, O, IF HasTerminator(bs, cur) THEN {} ELSE {t}, TRUE)
<1>1. CASE HasTerminator(bs, cur)
  BY <1>1 DEF Grown, terminate_with_br
<1>2. CASE ~HasTerminator(bs, cur)
  <2>1. Grown(bs, Put(bs, cur, Br(t)), cur, W, O, {t}, TRUE)
    BY <1>2, BrGrows
  <2> QED
    BY <2>1, <1>2 DEF terminate_with_br
<1> QED
  BY <1>1, <1>2

(* An open block is not the predecessor of any.                             *)
LEMMA OpenNoPred ==
  ASSUME NEW bs, NEW c, NEW W, NEW O, Well(bs, c, W, O), ~HasTerminator(bs, c), NEW b
  PROVE  c \notin PredsIn(bs, b)
<1>1. SUFFICES ASSUME c \in PredsIn(bs, b) PROVE FALSE
  OBVIOUS
<1>2. PICK i \in DOMAIN bs[c].code : b \in ToSet(bs[c].code[i].to)
  BY <1>1 DEF PredsIn
<1>3. bs[c].code[i].to # <<>>
  BY <1>2 DEF ToSet
<1>4. bs[c].code[i].k \in Terminator /\ i = Len(bs[c].code)
  BY <1>2, <1>3 DEF Well, GoodInstr
<1>5. bs[c].code # <<>>
  BY <1>2
<1> QED
  BY <1>4, <1>5 DEF HasTerminator, Last

-----------------------------------------------------------------------------
(* The stack of frames. *)

(* What ProgramsAssumption says of a node of the program.                   *)
LEMMA NodeFacts ==
  ASSUME NEW n \in AllNodes
  PROVE  /\ n.k \in Kinds /\ n.name \in STRING /\ n.exprs \in Seq(AllNodes)
         /\ n.clauses \in Seq([when : Seq(AllNodes), stmts : Seq(AllNodes), last : Seq(AllNodes)])
         /\ WellShaped(n)
<1>1. PICK p \in Programs : n \in Nodes(p.body)
  BY DEF AllNodes
<1>2. PICK N : N = Nodes(p.body)
  OBVIOUS
<1>3. N \subseteq AllNodes
  BY <1>2 DEF AllNodes
<1>4. n \in [k : Kinds, name : STRING, exprs : Seq(N), clauses : Clauses(N)] /\ WellShaped(n)
  BY <1>1, <1>2, ProgramsAssumption
<1>5. n.k \in Kinds /\ n.name \in STRING /\ n.exprs \in Seq(N) /\ n.clauses \in Clauses(N)
  BY <1>4
<1>6. Seq(N) \subseteq Seq(AllNodes)
  BY <1>3, SeqMonotonic
<1>7. [when : Seq(N), stmts : Seq(N), last : Seq(N)]
        \subseteq [when : Seq(AllNodes), stmts : Seq(AllNodes), last : Seq(AllNodes)]
  BY <1>6
<1>8. Clauses(N) \subseteq Seq([when : Seq(AllNodes), stmts : Seq(AllNodes), last : Seq(AllNodes)])
  BY <1>7, SeqMonotonic DEF Clauses
<1> QED
  BY <1>4, <1>5, <1>6, <1>8

(* The clauses of a node and their parts.                                   *)
LEMMA ClauseFacts ==
  ASSUME NEW n \in AllNodes, NEW i \in DOMAIN n.clauses
  PROVE  LET c == n.clauses[i] IN
         /\ c.when \in Seq(AllNodes) /\ c.stmts \in Seq(AllNodes) /\ c.last \in Seq(AllNodes)
         /\ \A j \in DOMAIN c.when : c.when[j] \in AllNodes /\ IsExpr(c.when[j])
         /\ \A j \in DOMAIN c.stmts : c.stmts[j] \in AllNodes
         /\ IF IsExpr(n) THEN Len(c.last) = 1 /\ c.last # <<>> /\ c.last[1] \in AllNodes /\ IsExpr(c.last[1])
            ELSE c.last = <<>>
<1>1. /\ n.clauses \in Seq([when : Seq(AllNodes), stmts : Seq(AllNodes), last : Seq(AllNodes)])
      /\ WellShaped(n)
  BY NodeFacts
<1>2. PICK c : c = n.clauses[i]
  OBVIOUS
<1>3. c \in [when : Seq(AllNodes), stmts : Seq(AllNodes), last : Seq(AllNodes)]
  BY <1>1, <1>2, ElementOfSeq, LenProperties
<1>4. c.when \in Seq(AllNodes) /\ c.stmts \in Seq(AllNodes) /\ c.last \in Seq(AllNodes)
  BY <1>3
<1>5. /\ \A j \in DOMAIN c.when : IsExpr(c.when[j])
      /\ IF IsExpr(n) THEN Len(c.last) = 1 /\ IsExpr(c.last[1]) ELSE c.last = <<>>
  BY <1>1, <1>2 DEF WellShaped
<1>6. /\ \A j \in DOMAIN c.when : c.when[j] \in AllNodes
      /\ \A j \in DOMAIN c.stmts : c.stmts[j] \in AllNodes
      /\ Len(c.last) = 1 => c.last # <<>> /\ c.last[1] \in AllNodes
  BY <1>4, ElementOfSeq, LenProperties
<1> QED
  BY <1>2, <1>4, <1>5, <1>6

Starts(bs, f, n) ==
    FrameOK(f) /\ Held(bs, f) /\ Owns(f) = {} /\ Waits(f) = {} /\ f.node = n /\ f.do # "skipped"

(* The frames that start: an activation of emit.                            *)
LEMMA EmitFrame ==
  ASSUME NEW n \in AllNodes, NEW bs
  PROVE  Starts(bs, emit(n), n) /\ Open(emit(n))
<1>0. PICK f : f = emit(n)
  OBVIOUS
<1>1. n.k \in Kinds
  BY NodeFacts
<1>2. NoValue \in ValueSet /\ <<>> \in IncomingSet
  BY InstrTyped
<1>3. f = [do |-> n.k, node |-> n, clause |-> 1, at |-> 1, end |-> 0,
           then |-> 0, else |-> 0, target |-> NoValue, in |-> <<>>]
  BY <1>0 DEF emit, Frame
<1>4. f \in FrameSet
  BY <1>1, <1>2, <1>3 DEF FrameSet, Dos
<1>5. f.do = n.k /\ f.node = n /\ f.clause = 1 /\ f.in = <<>>
  BY <1>3
<1>6. n.k \notin Joining /\ n.k \notin {"block", "operand", "start", "loop", "postfix", "body"}
  BY <1>1 DEF Kinds, Joining, Conditional, Operated
<1>7. f.do \notin {"clause", "test", "compare", "join", "skipped", "block", "operand", "start", "loop", "postfix", "body"}
  BY <1>5, <1>6 DEF Joining
<1>8. FrameOK(f) /\ Held(bs, f)
  BY <1>4, <1>5, <1>6, <1>7 DEF FrameOK, Held
<1>9. Waits(f) = {} /\ Owns(f) = {}
  BY <1>7 DEF Waits, Owns
<1>10. Open(f)
  BY <1>7 DEF Open
<1> QED
  BY <1>0, <1>5, <1>7, <1>8, <1>9, <1>10 DEF Starts

(* A block of statements.                                                   *)
LEMMA BlockFrame ==
  ASSUME NEW n \in AllNodes, NEW i \in DOMAIN n.clauses, NEW bs
  PROVE  Starts(bs, Block(n, i), n) /\ Block(n, i).do = "block"
<1>0. PICK f : f = Block(n, i)
  OBVIOUS
<1>1. i \in Nat \ {0}
  BY NodeFacts, LenProperties
<1>2. NoValue \in ValueSet /\ <<>> \in IncomingSet
  BY InstrTyped
<1>3. f = [do |-> "block", node |-> n, clause |-> i, at |-> 1, end |-> 0,
           then |-> 0, else |-> 0, target |-> NoValue, in |-> <<>>]
  BY <1>0 DEF Block, Frame
<1>4. f \in FrameSet
  BY <1>1, <1>2, <1>3 DEF FrameSet, Dos
<1>5. f.do = "block" /\ f.node = n /\ f.clause = i
  BY <1>3
<1>6. FrameOK(f) /\ Held(bs, f)
  BY <1>4, <1>5 DEF FrameOK, Held, Kinds, Joining, Conditional, Operated
<1>7. Waits(f) = {} /\ Owns(f) = {}
  BY <1>5 DEF Waits, Owns
<1> QED
  BY <1>0, <1>5, <1>6, <1>7 DEF Starts

(* What the frames r expect of the frame that stands on them.               *)
Fits(r, f) == (r # <<>> => Follows(Last(r), f)) /\ (r = <<>> => Bottom(f))

Popped(bs, w, r, f) ==
    /\ Frames(bs, r) /\ FrameOK(f) /\ Held(bs, f) /\ Owns(f) \cap AllOwned(r) = {} /\ Fits(r, f)
    /\ AllOwned(w) = AllOwned(r) \cup Owns(f) /\ AllWaiting(w) = AllWaiting(r) \cup Waits(f)
    /\ w \in Seq(FrameSet) /\ r \in Seq(FrameSet) /\ Len(r) = Len(w) - 1 /\ Len(w) \in Nat \ {0}
    /\ \A i \in DOMAIN r : r[i] = w[i]

(* Taking the innermost frame off.                                          *)
LEMMA Pop ==
  ASSUME NEW bs, NEW w, Frames(bs, w), w # <<>>
  PROVE  Popped(bs, w, Front(w), Last(w))
<1>0. PICK r, f : r = Front(w) /\ f = Last(w)
  OBVIOUS
<1>1. /\ w \in Seq(FrameSet)
      /\ \A i \in DOMAIN w : FrameOK(w[i]) /\ Held(bs, w[i])
      /\ \A i, j \in DOMAIN w : i # j => Owns(w[i]) \cap Owns(w[j]) = {}
      /\ \A i \in DOMAIN w : i + 1 \in DOMAIN w => Follows(w[i], w[i + 1])
      /\ 1 \in DOMAIN w => Bottom(w[1])
  BY DEF Frames
<1>2. PICK n : n = Len(w)
  OBVIOUS
<1>3. n \in Nat \ {0} /\ DOMAIN w = 1..n /\ f = w[n]
  BY <1>0, <1>1, <1>2, LenProperties DEF Last
<1>4. r \in Seq(FrameSet) /\ Len(r) = n - 1 /\ DOMAIN r = 1..(n - 1) /\ \A i \in 1..(n - 1) : r[i] = w[i]
  BY <1>0, <1>1, <1>2, <1>3, SubSeqProperties DEF Front
<1>5. \A i \in DOMAIN r : i \in DOMAIN w /\ r[i] = w[i] /\ i # n
  BY <1>3, <1>4
<1>6. n \in DOMAIN w /\ \A i \in DOMAIN w : i \in DOMAIN r \/ i = n
  BY <1>3, <1>4
<1>7. FrameOK(f) /\ Held(bs, f)
  BY <1>1, <1>3, <1>6
<1>8. Frames(bs, r)
  <2>1. \A i \in DOMAIN r : i + 1 \in DOMAIN r => Follows(r[i], r[i + 1])
    BY <1>1, <1>5
  <2> QED
    BY <1>1, <1>4, <1>5, <2>1 DEF Frames
<1>9. Owns(f) \cap AllOwned(r) = {}
  BY <1>1, <1>3, <1>5, <1>6 DEF AllOwned
<1>10. AllOwned(w) = AllOwned(r) \cup Owns(f) /\ AllWaiting(w) = AllWaiting(r) \cup Waits(f)
  BY <1>3, <1>5, <1>6 DEF AllOwned, AllWaiting
<1>11. r # <<>> => Follows(Last(r), f)
  <2>1. SUFFICES ASSUME r # <<>> PROVE Follows(Last(r), f)
    OBVIOUS
  <2>2. n - 1 \in DOMAIN r /\ Last(r) = r[n - 1] /\ n - 1 + 1 = n
    BY <2>1, <1>3, <1>4, LenProperties DEF Last
  <2> QED
    BY <2>2, <1>1, <1>3, <1>5, <1>6
<1>12. r = <<>> => Bottom(f)
  <2>1. SUFFICES ASSUME r = <<>> PROVE Bottom(f)
    OBVIOUS
  <2>2. n = 1
    BY <2>1, <1>3, <1>4
  <2> QED
    BY <2>2, <1>1, <1>3
<1> QED
  BY <1>0, <1>1, <1>2, <1>3, <1>4, <1>5, <1>7, <1>8, <1>9, <1>10, <1>11, <1>12 DEF Fits, Popped

Pushed(bs, r, f, w) ==
    /\ Frames(bs, w) /\ w # <<>> /\ Last(w) = f
    /\ AllOwned(w) = AllOwned(r) \cup Owns(f) /\ AllWaiting(w) = AllWaiting(r) \cup Waits(f)

(* Putting one on.                                                          *)
LEMMA Push ==
  ASSUME NEW bs, NEW r, Frames(bs, r), NEW f, FrameOK(f), Held(bs, f), Owns(f) \cap AllOwned(r) = {},
         Fits(r, f)
  PROVE  Pushed(bs, r, f, Append(r, f))
<1>0. PICK w : w = Append(r, f)
  OBVIOUS
<1>1. /\ r \in Seq(FrameSet)
      /\ \A i \in DOMAIN r : FrameOK(r[i]) /\ Held(bs, r[i])
      /\ \A i, j \in DOMAIN r : i # j => Owns(r[i]) \cap Owns(r[j]) = {}
      /\ \A i \in DOMAIN r : i + 1 \in DOMAIN r => Follows(r[i], r[i + 1])
      /\ 1 \in DOMAIN r => Bottom(r[1])
  BY DEF Frames
<1>2. PICK n : n = Len(r)
  OBVIOUS
<1>3. f \in FrameSet
  BY DEF FrameOK
<1>4. /\ w \in Seq(FrameSet) /\ n \in Nat /\ DOMAIN r = 1..n /\ DOMAIN w = 1..(n + 1) /\ Len(w) = n + 1
      /\ w[n + 1] = f /\ \A i \in 1..n : w[i] = r[i]
  BY <1>0, <1>1, <1>2, <1>3, AppendProperties, LenProperties
<1>5. w # <<>> /\ Last(w) = f
  BY <1>4 DEF Last
<1>6. \A i \in DOMAIN w : i \in DOMAIN r \/ i = n + 1
  BY <1>4
<1>7. \A i \in DOMAIN r : i \in DOMAIN w /\ w[i] = r[i] /\ i # n + 1
  BY <1>4
<1>8. n + 1 \in DOMAIN w
  BY <1>4
<1>9. AllOwned(w) = AllOwned(r) \cup Owns(f) /\ AllWaiting(w) = AllWaiting(r) \cup Waits(f)
  BY <1>4, <1>6, <1>7, <1>8 DEF AllOwned, AllWaiting
<1>10. \A i \in DOMAIN r : Owns(r[i]) \cap Owns(f) = {}
  BY DEF AllOwned
<1>11. \A i, j \in DOMAIN w : i # j => Owns(w[i]) \cap Owns(w[j]) = {}
  BY <1>1, <1>4, <1>6, <1>7, <1>10
<1>12. ASSUME NEW i \in DOMAIN w, i + 1 \in DOMAIN w PROVE Follows(w[i], w[i + 1])
  <2>1. CASE i + 1 \in DOMAIN r
    BY <2>1, <1>1, <1>4, <1>7, <1>12
  <2>2. CASE i = n
    <3>1. r # <<>> /\ Last(r) = r[n] /\ n \in DOMAIN r
      BY <2>2, <1>2, <1>4, <1>12 DEF Last
    <3> QED
      BY <3>1, <2>2, <1>4 DEF Fits
  <2> QED
    BY <2>1, <2>2, <1>4, <1>12
<1>13. Bottom(w[1])
  <2>1. CASE n = 0
    BY <2>1, <1>1, <1>2, <1>4, EmptySeq DEF Fits
  <2>2. CASE n # 0
    BY <2>2, <1>1, <1>4
  <2> QED
    BY <2>1, <2>2
<1>14. \A i \in DOMAIN w : FrameOK(w[i]) /\ Held(bs, w[i])
  BY <1>1, <1>4, <1>6, <1>7
<1>15. Frames(bs, w)
  BY <1>4, <1>11, <1>12, <1>13, <1>14 DEF Frames
<1> QED
  BY <1>0, <1>5, <1>9, <1>15 DEF Pushed

(* What frames know stays true while the blocks they own stay.              *)
Keeps(bs, new, R) == \A b \in R : PredsIn(new, b) = PredsIn(bs, b) /\ (bs[b].placed => new[b].placed)

(* Carrying what frames know over to other blocks.                          *)
LEMMA Carry ==
  ASSUME NEW bs, NEW new, NEW r, Frames(bs, r), Keeps(bs, new, AllOwned(r))
  PROVE  Frames(new, r)
<1>1. ASSUME NEW i \in DOMAIN r PROVE Held(new, r[i])
  <2>1. Held(bs, r[i]) /\ Owns(r[i]) \subseteq AllOwned(r)
    BY DEF Frames, AllOwned
  <2>2. r[i].do \in Joining => r[i].end \in Owns(r[i])
    BY DEF Owns, Waits, Joining
  <2> QED
    BY <2>1, <2>2 DEF Held, Keeps, Gathers
<1> QED
  BY <1>1 DEF Frames

-----------------------------------------------------------------------------
(* Steps of the innermost frame.  Each lemma says that a state is sound     *)
(* when the frames r under the innermost one are, with the blocks it left.  *)

(* It goes on as f.                                                         *)
LEMMA ToGoOn ==
  ASSUME NEW bs, NEW new, NEW c, NEW r, NEW f, Frames(bs, r), Keeps(bs, new, AllOwned(r)),
         FrameOK(f), Held(new, f), Owns(f) \cap AllOwned(r) = {}, Fits(r, f), Ready(new, c, f),
         Well(new, c, AllWaiting(r) \cup Waits(f), AllOwned(r) \cup Owns(f))
  PROVE  SoundAt(new, c, Append(r, f))
<1>1. Frames(new, r)
  BY Carry
<1>2. PICK w : w = Append(r, f)
  OBVIOUS
<1>3. /\ Frames(new, w) /\ w # <<>> /\ Last(w) = f
      /\ AllOwned(w) = AllOwned(r) \cup Owns(f) /\ AllWaiting(w) = AllWaiting(r) \cup Waits(f)
  BY <1>1, <1>2, Push DEF Pushed
<1> QED
  BY <1>2, <1>3 DEF SoundAt

(* It goes on as f and calls g.                                             *)
LEMMA ToCall ==
  ASSUME NEW bs, NEW new, NEW c, NEW r, NEW f, Frames(bs, r), Keeps(bs, new, AllOwned(r)),
         FrameOK(f), Held(new, f), Owns(f) \cap AllOwned(r) = {}, Fits(r, f),
         NEW g, FrameOK(g), Held(new, g), Owns(g) = {}, Waits(g) = {}, Follows(f, g), Ready(new, c, g),
         Well(new, c, AllWaiting(r) \cup Waits(f), AllOwned(r) \cup Owns(f))
  PROVE  SoundAt(new, c, Append(Append(r, f), g))
<1>1. Frames(new, r)
  BY Carry
<1>2. PICK w : w = Append(r, f)
  OBVIOUS
<1>3. /\ Frames(new, w) /\ w # <<>> /\ Last(w) = f
      /\ AllOwned(w) = AllOwned(r) \cup Owns(f) /\ AllWaiting(w) = AllWaiting(r) \cup Waits(f)
  BY <1>1, <1>2, Push DEF Pushed
<1>4. PICK u : u = Append(w, g)
  OBVIOUS
<1>5. /\ Frames(new, u) /\ u # <<>> /\ Last(u) = g
      /\ AllOwned(u) = AllOwned(w) \cup Owns(g) /\ AllWaiting(u) = AllWaiting(w) \cup Waits(g)
  <2>1. Fits(w, g) /\ Owns(g) \cap AllOwned(w) = {}
    BY <1>3 DEF Fits
  <2> QED
    BY <2>1, <1>3, <1>4, Push DEF Pushed
<1>6. AllOwned(u) = AllOwned(r) \cup Owns(f) /\ AllWaiting(u) = AllWaiting(r) \cup Waits(f)
  BY <1>3, <1>5
<1> QED
  BY <1>2, <1>4, <1>5, <1>6 DEF SoundAt

(* It returns.                                                              *)
LEMMA ToReturn ==
  ASSUME NEW bs, NEW new, NEW c, NEW r, NEW f, Frames(bs, r), Keeps(bs, new, AllOwned(r)),
         Fits(r, f), IsExpr(f.node) => ~HasTerminator(new, c),
         Well(new, c, AllWaiting(r), AllOwned(r))
  PROVE  SoundAt(new, c, r)
<1>1. Frames(new, r)
  BY Carry
<1>2. r # <<>> => Ready(new, c, Last(r))
  BY DEF Fits, Follows, Ready
<1> QED
  BY <1>1, <1>2 DEF SoundAt

(* Putting a frame in the place of the innermost one.                       *)
LEMMA Replaced ==
  ASSUME NEW w, w \in Seq(FrameSet), w # <<>>, NEW f
  PROVE  [w EXCEPT ![Len(w)] = f] = Append(Front(w), f)
<1>1. PICK n : n = Len(w)
  OBVIOUS
<1>2. n \in Nat \ {0} /\ DOMAIN w = 1..n
  BY <1>1, LenProperties
<1>3. PICK r : r = Front(w)
  OBVIOUS
<1>4. r \in Seq(FrameSet) /\ Len(r) = n - 1 /\ \A i \in 1..(n - 1) : r[i] = w[i]
  BY <1>1, <1>2, <1>3, SubSeqProperties DEF Front
<1>5. PICK u : u = [w EXCEPT ![n] = f]
  OBVIOUS
<1>6. DOMAIN u = 1..n /\ u[n] = f /\ \A i \in 1..n : i # n => u[i] = w[i]
  <2>1. n \in 1..n
    BY <1>2
  <2> QED
    BY <2>1, <1>2, <1>5, Zenon
<1>7. PICK t : t = Append(r, f)
  OBVIOUS
<1>8. t \in Seq(FrameSet \cup {f}) /\ DOMAIN t = 1..n /\ t[n] = f /\ \A i \in 1..(n - 1) : t[i] = r[i]
  <2>1. r \in Seq(FrameSet \cup {f})
    BY <1>4, SeqMonotonic
  <2>2. t \in Seq(FrameSet \cup {f}) /\ Len(t) = n /\ t[n] = f /\ \A i \in 1..(n - 1) : t[i] = r[i]
    BY <2>1, <1>2, <1>4, <1>7, AppendProperties
  <2> QED
    BY <2>2, LenProperties
<1>9. \A i \in 1..n : u[i] = t[i]
  BY <1>2, <1>4, <1>6, <1>8
<1>10. u = [i \in 1..n |-> u[i]] /\ t = [i \in 1..n |-> t[i]]
  <2>1. u = [i \in 1..n |-> u[i]]
    BY <1>5, <1>2, Zenon
  <2>2. t = [i \in 1..n |-> t[i]]
    BY <1>8, LenProperties, SeqDef
  <2> QED
    BY <2>1, <2>2
<1>11. u = t
  BY <1>9, <1>10
<1> QED
  BY <1>1, <1>3, <1>5, <1>7, <1>11

CutAt(bs, r, f, q, p) ==
    /\ Frames(bs, q) /\ q # <<>> /\ Last(q) = f /\ Front(q) = p
    /\ AllOwned(q) = AllOwned(r) /\ AllWaiting(q) = AllWaiting(r)

(* Frames that own nothing are cut off.                                     *)
LEMMA Cut ==
  ASSUME NEW bs, NEW r, Frames(bs, r), NEW h \in 1..Len(r),
         \A k \in 1..Len(r) : k > h => r[k].do \in {"operand", "start"}
  PROVE  CutAt(bs, r, r[h], SubSeq(r, 1, h), SubSeq(r, 1, h - 1))
<1>1. /\ r \in Seq(FrameSet)
      /\ \A i \in DOMAIN r : FrameOK(r[i]) /\ Held(bs, r[i])
      /\ \A i, j \in DOMAIN r : i # j => Owns(r[i]) \cap Owns(r[j]) = {}
      /\ \A i \in DOMAIN r : i + 1 \in DOMAIN r => Follows(r[i], r[i + 1])
      /\ 1 \in DOMAIN r => Bottom(r[1])
  BY DEF Frames
<1>2. Len(r) \in Nat /\ DOMAIN r = 1..Len(r) /\ \A i \in 1..Len(r) : r[i] \in FrameSet
  BY <1>1, LenProperties, ElementOfSeq
<1>3. PICK q : q = SubSeq(r, 1, h)
  OBVIOUS
<1>4. q \in Seq(FrameSet) /\ Len(q) = h /\ DOMAIN q = 1..h /\ \A i \in 1..h : q[i] = r[i]
  BY <1>2, <1>3, SubSeqProperties, LenProperties
<1>5. \A i \in DOMAIN q : i \in DOMAIN r /\ q[i] = r[i]
  BY <1>2, <1>4
<1>6. \A i \in DOMAIN r : i \notin DOMAIN q => Owns(r[i]) = {} /\ Waits(r[i]) = {}
  <2>1. SUFFICES ASSUME NEW i \in DOMAIN r, i \notin DOMAIN q PROVE Owns(r[i]) = {} /\ Waits(r[i]) = {}
    OBVIOUS
  <2>2. r[i].do \in {"operand", "start"}
    BY <2>1, <1>2, <1>4
  <2> QED
    BY <2>2 DEF Owns, Waits
<1>7. AllOwned(q) = AllOwned(r) /\ AllWaiting(q) = AllWaiting(r)
  BY <1>5, <1>6 DEF AllOwned, AllWaiting
<1>8. \A i \in DOMAIN q : i + 1 \in DOMAIN q => Follows(q[i], q[i + 1])
  BY <1>1, <1>5
<1>9. Frames(bs, q)
  BY <1>1, <1>4, <1>5, <1>8 DEF Frames
<1>10. q # <<>> /\ Last(q) = r[h]
  BY <1>4, <1>2 DEF Last
<1>11. Front(q) = SubSeq(r, 1, h - 1)
  <2>1. PICK p : p = SubSeq(r, 1, h - 1)
    OBVIOUS
  <2>2. p \in Seq(FrameSet) /\ Len(p) = h - 1 /\ \A i \in 1..(h - 1) : p[i] = r[i]
    BY <2>1, <1>2, SubSeqProperties
  <2>3. PICK t : t = Front(q)
    OBVIOUS
  <2>4. t \in Seq(FrameSet) /\ Len(t) = h - 1 /\ \A i \in 1..(h - 1) : t[i] = q[i]
    <3>1. \A i \in 1..(h - 1) : q[i] \in FrameSet
      BY <1>4, <1>2
    <3> QED
      BY <3>1, <2>3, <1>4, SubSeqProperties DEF Front
  <2>5. \A i \in 1..(h - 1) : t[i] = p[i]
    BY <2>2, <2>4, <1>4
  <2> QED
    BY <2>1, <2>2, <2>3, <2>4, <2>5, SeqEqual
<1> QED
  BY <1>3, <1>7, <1>9, <1>10, <1>11 DEF CutAt

(* There is a frame that catches: the block of the function does.           *)
LEMMA HandlerCatches ==
  ASSUME work \in Seq(FrameSet), NEW m, m = Len(work) - 1, m > 0, Catches(work[1])
  PROVE  /\ Handler \in 1..m /\ Catches(work[Handler])
         /\ \A k \in 1..m : k > Handler => ~Catches(work[k])
<1>1. m \in Nat \ {0}
  BY LenProperties
<1>2. PICK S : S = {k \in Nat : k < m /\ Catches(work[m - k])}
  OBVIOUS
<1>3. m - 1 \in S
  BY <1>1, <1>2
<1>4. PICK x \in S : \A y \in S : x <= y
  BY <1>2, <1>3, MinNat
<1>5. PICK h : h = m - x
  OBVIOUS
<1>6. h \in 1..m /\ Catches(work[h])
  BY <1>1, <1>2, <1>4, <1>5
<1>7. ASSUME NEW k \in 1..m, k > h, Catches(work[k]) PROVE FALSE
  <2>1. m - k \in Nat /\ m - k < m /\ m - (m - k) = k /\ m - k < x
    BY <1>1, <1>2, <1>4, <1>5, <1>7
  <2>2. m - k \in S
    BY <2>1, <1>2, <1>7
  <2>3. x <= m - k
    BY <2>2, <1>4
  <2>4. x \in Nat
    BY <1>2
  <2> QED
    BY <2>1, <2>3, <2>4
<1>8. \A k \in (h + 1)..m : k \in 1..m /\ k > h
  BY <1>6, <1>1
<1>9. h \in 1..(Len(work) - 1) /\ Catches(work[h]) /\ \A k \in (h + 1)..(Len(work) - 1) : ~Catches(work[k])
  BY <1>6, <1>7, <1>8
<1>10. Handler \in 1..(Len(work) - 1) /\ Catches(work[Handler])
       /\ \A k \in (Handler + 1)..(Len(work) - 1) : ~Catches(work[k])
  BY <1>9, Zenon DEF Handler
<1>11. \A k \in 1..m : k > Handler => k \in (Handler + 1)..m
  BY <1>10, <1>1
<1> QED
  BY <1>10, <1>11

(* The exception leaves a block of statements, or a clause of an expression *)
(* that has ended with a terminator then.                                   *)
LEMMA ToThrow ==
  ASSUME NEW bs, NEW new, NEW c, NEW r, Frames(bs, r), Keeps(bs, new, AllOwned(r)),
         Well(new, c, AllWaiting(r), AllOwned(r)),
         work \in Seq(FrameSet), work # <<>>, r = Front(work), r # <<>>,
         \A k \in 1..(Len(work) - 1) : k > Handler => work[k].do \in {"operand", "start"},
         work[Handler].do = "join" => HasTerminator(new, c), Throws
  PROVE  SoundAt(new, c, work')
<1>1. PICK m, h : m = Len(work) - 1 /\ h = Handler
  OBVIOUS
<1>2. Frames(new, r)
  BY Carry
<1>3. /\ m \in Nat /\ m > 0 /\ Len(r) = m /\ \A i \in 1..m : r[i] = work[i] /\ work[i] \in FrameSet
  <2>1. /\ Len(work) \in Nat \ {0} /\ \A i \in 1..Len(work) : work[i] \in FrameSet
    BY LenProperties, ElementOfSeq
  <2>2. Len(r) = m /\ \A i \in 1..m : r[i] = work[i]
    BY <1>1, <2>1, SubSeqProperties DEF Front
  <2>3. m # 0
    BY <1>2, <2>2, LenProperties, EmptySeq DEF Frames
  <2> QED
    BY <1>1, <2>1, <2>2, <2>3
<1>4. work[1].do = "block"
  <2>1. 1 \in DOMAIN r
    BY <1>2, <1>3, LenProperties DEF Frames
  <2> QED
    BY <2>1, <1>2, <1>3 DEF Frames, Bottom
<1>5. h \in 1..m /\ Catches(work[h])
  BY <1>1, <1>3, <1>4, HandlerCatches DEF Catches
<1>6. \A k \in 1..Len(r) : k > h => r[k].do \in {"operand", "start"}
  BY <1>1, <1>3
<1>7. PICK q, f, p : q = SubSeq(r, 1, h) /\ f = r[h] /\ p = SubSeq(r, 1, h - 1)
  OBVIOUS
<1>8. /\ Frames(new, q) /\ q # <<>>
      /\ AllOwned(q) = AllOwned(r) /\ AllWaiting(q) = AllWaiting(r)
      /\ Last(q) = f /\ Front(q) = p
  <2>1. h \in 1..Len(r)
    BY <1>3, <1>5
  <2>2. CutAt(new, r, r[h], SubSeq(r, 1, h), SubSeq(r, 1, h - 1))
    BY <2>1, <1>2, <1>6, Cut
  <2> QED
    BY <2>2, <1>7 DEF CutAt
<1>9. Popped(new, q, p, f)
  BY <1>8, Pop
<1>10. p = SubSeq(work, 1, h - 1)
  <2>1. PICK t : t = SubSeq(work, 1, h - 1)
    OBVIOUS
  <2>2. t \in Seq(FrameSet) /\ Len(t) = h - 1 /\ \A i \in 1..(h - 1) : t[i] = work[i]
    BY <2>1, <1>3, <1>5, SubSeqProperties
  <2>3. p \in Seq(FrameSet) /\ Len(p) = h - 1 /\ \A i \in 1..(h - 1) : p[i] = r[i]
    BY <1>7, <1>3, <1>5, SubSeqProperties
  <2>4. \A i \in 1..(h - 1) : p[i] = t[i]
    BY <2>2, <2>3, <1>3, <1>5
  <2> QED
    BY <2>1, <2>2, <2>3, <2>4, SeqEqual
<1>11. PICK g : g = IF f.do = "join" THEN [f EXCEPT !.do = "skipped"] ELSE f
  OBVIOUS
<1>12. work' = Append(p, g)
  BY <1>1, <1>3, <1>5, <1>7, <1>10, <1>11 DEF Throws
<1>13. /\ FrameOK(g) /\ Held(new, g) /\ Owns(g) = Owns(f) /\ Waits(g) = Waits(f) /\ Fits(p, g)
       /\ Ready(new, c, g)
  <2>1. CASE f.do = "block"
    <3>1. g = f
      BY <2>1, <1>11
    <3> QED
      BY <2>1, <3>1, <1>9 DEF Popped, Ready, Open
  <2>2. CASE f.do = "join" /\ IsExpr(f.node)
    <3>1. f \in FrameSet
      BY <1>9 DEF Popped, FrameOK
    <3>2. /\ g \in FrameSet /\ g.do = "skipped" /\ g.node = f.node /\ g.clause = f.clause /\ g.in = f.in
          /\ g.end = f.end /\ g.else = f.else /\ g.then = f.then
      BY <2>2, <3>1, <1>11 DEF FrameSet, Dos, Joining
    <3>3. Owns(g) = Owns(f) /\ Waits(g) = Waits(f)
      BY <2>2, <3>2 DEF Owns, Waits, HereOf
    <3>4. FrameOK(g)
      BY <2>2, <3>1, <3>2, <1>9 DEF Popped, FrameOK, Kinds, Joining, Conditional, Operated, HereOf
    <3>5. Held(new, g)
      BY <2>2, <3>2, <1>9 DEF Popped, Held, Joining
    <3>6. Fits(p, g)
      BY <2>2, <3>2, <1>9 DEF Popped, Fits, Follows, Bottom
    <3>7. Ready(new, c, g)
      BY <2>2, <3>2, <1>1, <1>3, <1>5, <1>7 DEF Ready, Open
    <3> QED
      BY <3>3, <3>4, <3>5, <3>6, <3>7
  <2> QED
    BY <2>1, <2>2, <1>3, <1>5, <1>7 DEF Catches
<1>14. Well(new, c, AllWaiting(p) \cup Waits(g), AllOwned(p) \cup Owns(g))
  BY <1>8, <1>9, <1>13 DEF Popped
<1>15. Frames(new, p) /\ Owns(g) \cap AllOwned(p) = {}
  BY <1>9, <1>13 DEF Popped
<1>16. Keeps(new, new, AllOwned(p))
  BY DEF Keeps
<1> QED
  BY <1>12, <1>13, <1>14, <1>15, <1>16, ToGoOn

(* The state as a step of the innermost frame f finds it, on the frames r   *)
(* that own R and wait for S.                                               *)
Stands(r, f, R, S) ==
    /\ f = Top /\ R = AllOwned(r) /\ S = AllWaiting(r) /\ f.node \in AllNodes /\ f \in FrameSet
    /\ Frames(blocks, r) /\ FrameOK(f) /\ Held(blocks, f) /\ Owns(f) \cap R = {} /\ Fits(r, f)
    /\ Well(blocks, cur, S \cup Waits(f), R \cup Owns(f)) /\ Ready(blocks, cur, f)
    /\ S \subseteq R /\ Waits(f) \subseteq Owns(f) /\ R \cup Owns(f) \subseteq DOMAIN blocks
    /\ r = <<>> => f.do = "block" /\ ~IsExpr(f.node)
Continues(r) ==
    /\ \A g : GoesOn(g) => work' = Append(r, g)
    /\ \A g, h : Calls(g, h) => work' = Append(Append(r, g), h)
    /\ Returns => work' = r
Continued == SoundAt(blocks', cur', work') /\ val' \in ValueSet

(* Every step starts like that.                                             *)
LEMMA Standing ==
  ASSUME Current, work # <<>>
  PROVE  \E r, f, R, S : Stands(r, f, R, S) /\ Continues(r) /\ r = Front(work)
<1>1. PICK r, f, R, S : r = Front(work) /\ f = Top /\ R = AllOwned(r) /\ S = AllWaiting(r)
  OBVIOUS
<1>2. Popped(blocks, work, r, f)
  BY <1>1, Pop DEF Current, SoundAt, Top
<1>3. Well(blocks, cur, S \cup Waits(f), R \cup Owns(f)) /\ Ready(blocks, cur, f)
  BY <1>1, <1>2 DEF Current, SoundAt, Popped, Top
<1>4. Waits(f) \subseteq Owns(f) /\ S \subseteq R
  BY <1>1 DEF Owns, AllOwned, AllWaiting
<1>5. R \cup Owns(f) \subseteq DOMAIN blocks
  BY <1>3 DEF Well
<1>6. f \in FrameSet /\ f.node \in AllNodes
  BY <1>2 DEF Popped, FrameOK, FrameSet
<1>7. r = <<>> => f.do = "block" /\ ~IsExpr(f.node)
  BY <1>2 DEF Popped, Fits, Bottom
<1>8. Stands(r, f, R, S)
  BY <1>1, <1>2, <1>3, <1>4, <1>5, <1>6, <1>7 DEF Stands, Popped
<1>9. work \in Seq(FrameSet)
  BY <1>2 DEF Popped
<1>10. ASSUME NEW g PROVE [work EXCEPT ![Len(work)] = g] = Append(r, g)
  BY <1>1, <1>9, Replaced
<1>11. Continues(r)
  BY <1>1, <1>10 DEF Continues, GoesOn, Calls, Returns
<1> QED
  BY <1>1, <1>8, <1>11

(* Blocks that do not change keep everything.                               *)
LEMMA KeepsSame ==
  ASSUME NEW bs, NEW R PROVE Keeps(bs, bs, R)
BY DEF Keeps

(* The frame that goes on fits where the one before it did.                 *)
LEMMA FitsLike ==
  ASSUME NEW r, NEW f, NEW R, NEW S, Stands(r, f, R, S), NEW g, g.node = f.node,
         f.do = "block" => g.do = "block"
  PROVE  Fits(r, g)
BY DEF Stands, Fits, Follows, Bottom

(* The exception cuts off operands only, unless emission derails.           *)
LEMMA OnlyOperands ==
  ASSUME Current, work # <<>>, NEW r, r = Front(work), r # <<>>,
         ThrowsInBlock \/ ThrowsAtJoin, ~Derails
  PROVE  \A k \in 1..(Len(work) - 1) : k > Handler => work[k].do \in {"operand", "start"}
<1>1. PICK m : m = Len(work) - 1
  OBVIOUS
<1>2. Frames(blocks, work)
  BY DEF Current, SoundAt
<1>3. Popped(blocks, work, r, Last(work))
  BY <1>2, Pop
<1>4. m \in Nat /\ m > 0 /\ work \in Seq(FrameSet)
  BY <1>1, <1>3, EmptySeq DEF Popped
<1>5. Catches(work[1])
  <2>1. 1 \in DOMAIN work
    BY <1>1, <1>4, LenProperties
  <2> QED
    BY <2>1, <1>2 DEF Frames, Bottom, Catches
<1>6. Handler \in 1..m
  BY <1>1, <1>4, <1>5, HandlerCatches
<1>7. \A k \in (Handler + 1)..(Len(work) - 1) : work[k].do \in {"operand", "start"}
  BY DEF Derails
<1>8. \A k \in 1..(Len(work) - 1) : k > Handler => k \in (Handler + 1)..(Len(work) - 1)
  BY <1>1, <1>4, <1>6
<1> QED
  BY <1>7, <1>8

-----------------------------------------------------------------------------
(* The actions. *)

(* A statement of a block.                                                  *)
LEMMA EmitStmtSound ==
  ASSUME Current, work # <<>>, EmitStmt
  PROVE  Continued
<1>1. PICK r, f, R, S : Stands(r, f, R, S) /\ Continues(r)
  BY Standing
<1>2. f.do = "block" /\ ~HasTerminator(blocks, cur) /\ f.at <= Len(Here.stmts) /\ Here = HereOf(f)
  BY <1>1 DEF EmitStmt, Stands, Here, HereOf
<1>3. PICK n : n = Here.stmts[f.at]
  OBVIOUS
<1>4. n \in AllNodes
  <2>1. f.clause \in DOMAIN f.node.clauses /\ f.at \in Nat \ {0}
    BY <1>1, <1>2 DEF Stands, FrameOK, FrameSet
  <2>2. Here.stmts \in Seq(AllNodes) /\ \A j \in DOMAIN Here.stmts : Here.stmts[j] \in AllNodes
    BY <1>1, <1>2, <2>1, ClauseFacts DEF Stands, Current, HereOf
  <2> QED
    BY <1>2, <1>3, <2>1, <2>2, LenProperties
<1>5. PICK g : g = [f EXCEPT !.at = @ + 1]
  OBVIOUS
<1>6. g \in FrameSet /\ g.do = f.do /\ g.node = f.node /\ g.clause = f.clause
  BY <1>1, <1>5 DEF Stands, FrameSet
<1>7. FrameOK(g) /\ Held(blocks, g) /\ Owns(g) = {} /\ Waits(g) = {} /\ Owns(f) = {} /\ Waits(f) = {} /\ ~Open(g)
  BY <1>1, <1>2, <1>6 DEF Stands, FrameOK, Held, Owns, Waits, Open, Kinds, Joining, Conditional, Operated
<1>8. Fits(r, g)
  BY <1>1, <1>6, FitsLike
<1>9. Starts(blocks, emit(n), n) /\ Open(emit(n))
  BY <1>4, EmitFrame DEF Current
<1>10. Follows(g, emit(n)) /\ Ready(blocks, cur, emit(n))
  BY <1>2, <1>6, <1>7, <1>9 DEF Follows, Ready, Starts
<1>11. Well(blocks, cur, AllWaiting(r) \cup Waits(g), AllOwned(r) \cup Owns(g)) /\ Frames(blocks, r)
  BY <1>1, <1>7 DEF Stands
<1>12. Keeps(blocks, blocks, AllOwned(r))
  BY KeepsSame
<1>13. SoundAt(blocks, cur, Append(Append(r, g), emit(n)))
  BY <1>7, <1>8, <1>9, <1>10, <1>11, <1>12, ToCall DEF Starts
<1>14. work' = Append(Append(r, g), emit(n)) /\ blocks' = blocks /\ cur' = cur /\ val' = val
  BY <1>1, <1>3, <1>5 DEF EmitStmt, Stands, Continues
<1> QED
  BY <1>13, <1>14 DEF Continued, Current

(* The end of a block of statements.                                        *)
LEMMA EndOfBlockSound ==
  ASSUME Current, work # <<>>, EndOfBlock, ~Derails
  PROVE  Continued
<1>1. PICK r, f, R, S : Stands(r, f, R, S) /\ Continues(r) /\ r = Front(work)
  BY Standing
<1>2. f.do = "block" /\ f = Top /\ Here = HereOf(f) /\ f.clause \in DOMAIN f.node.clauses /\ f.node \in AllNodes
  BY <1>1 DEF EndOfBlock, Stands, Here, HereOf, FrameOK
<1>3. IF IsExpr(f.node) THEN Here.last # <<>> /\ Here.last[1] \in AllNodes /\ IsExpr(Here.last[1]) ELSE Here.last = <<>>
  BY <1>2, ClauseFacts DEF Current, HereOf
<1>4. blocks' = blocks /\ cur' = cur /\ val' = val
  BY DEF EndOfBlock
<1>5. /\ Frames(blocks, r) /\ Keeps(blocks, blocks, AllOwned(r)) /\ Waits(f) = {} /\ Owns(f) = {}
      /\ Well(blocks, cur, AllWaiting(r), AllOwned(r))
  BY <1>1, <1>2, KeepsSame DEF Stands, Waits, Owns
<1>6. CASE Here.last = <<>>
  <2>1. work' = r
    BY <1>1, <1>2, <1>6 DEF EndOfBlock, Continues
  <2>2. ~IsExpr(f.node) /\ Fits(r, f)
    BY <1>1, <1>3, <1>6 DEF Stands
  <2>3. SoundAt(blocks, cur, r)
    BY <1>5, <2>2, ToReturn
  <2> QED
    BY <2>1, <2>3, <1>4 DEF Continued, Current
<1>7. CASE Here.last # <<>> /\ HasTerminator(blocks, cur)
  <2>1. Throws
    BY <1>7 DEF EndOfBlock
  <2>2. r # <<>>
    BY <1>1, <1>3, <1>7 DEF Stands
  <2>3. ThrowsInBlock
    BY <1>2, <1>7 DEF ThrowsInBlock
  <2>4. \A k \in 1..(Len(work) - 1) : k > Handler => work[k].do \in {"operand", "start"}
    BY <1>1, <2>2, <2>3, OnlyOperands
  <2>5. work \in Seq(FrameSet)
    BY DEF Current, SoundAt, Frames
  <2>6. SoundAt(blocks, cur, work')
    BY <1>1, <1>5, <1>7, <2>1, <2>2, <2>4, <2>5, ToThrow
  <2> QED
    BY <2>6, <1>4 DEF Continued, Current
<1>8. CASE Here.last # <<>> /\ ~HasTerminator(blocks, cur)
  <2>1. PICK n : n = Here.last[1]
    OBVIOUS
  <2>2. n \in AllNodes /\ IsExpr(n) /\ IsExpr(f.node)
    BY <1>3, <1>8, <2>1
  <2>3. work' = Append(r, emit(n))
    BY <1>1, <1>2, <1>8, <2>1 DEF EndOfBlock, Continues
  <2>4. Starts(blocks, emit(n), n) /\ Open(emit(n))
    BY <2>2, EmitFrame DEF Current
  <2>5. Fits(r, emit(n)) /\ Ready(blocks, cur, emit(n))
    BY <1>1, <1>8, <2>2, <2>4 DEF Stands, Fits, Follows, Bottom, Ready, Starts
  <2>6. SoundAt(blocks, cur, Append(r, emit(n)))
    BY <1>5, <2>4, <2>5, ToGoOn DEF Starts
  <2> QED
    BY <2>3, <2>6, <1>4 DEF Continued, Current
<1> QED
  BY <1>6, <1>7, <1>8

(* begin.                                                                   *)
LEMMA EmitBeginSound ==
  ASSUME Current, work # <<>>, EmitBegin
  PROVE  Continued
<1>1. PICK r, f, R, S : Stands(r, f, R, S) /\ Continues(r)
  BY Standing
<1>2. f.do \in {"statement_block", "block_expr"} /\ f = Top /\ f.node \in AllNodes
  BY <1>1 DEF EmitBegin, Stands
<1>3. f.node.k = f.do
  BY <1>1, <1>2 DEF Stands, FrameOK, Kinds
<1>4. 1 \in DOMAIN f.node.clauses
  <2>1. f.node.clauses # <<>> /\ f.node.clauses \in Seq([when : Seq(AllNodes), stmts : Seq(AllNodes), last : Seq(AllNodes)])
    BY <1>2, <1>3, NodeFacts DEF Current, WellShaped
  <2> QED
    BY <2>1, EmptySeq, LenProperties
<1>5. PICK g : g = Block(f.node, 1)
  OBVIOUS
<1>6. Starts(blocks, g, f.node) /\ g.do = "block"
  BY <1>2, <1>4, <1>5, BlockFrame DEF Current
<1>7. Fits(r, g) /\ Ready(blocks, cur, g)
  BY <1>1, <1>2, <1>6, FitsLike DEF Starts, Ready, Open
<1>8. /\ Frames(blocks, r) /\ Keeps(blocks, blocks, AllOwned(r)) /\ Waits(f) = {} /\ Owns(f) = {}
      /\ Well(blocks, cur, AllWaiting(r), AllOwned(r))
  BY <1>1, <1>2, KeepsSame DEF Stands, Waits, Owns
<1>9. SoundAt(blocks, cur, Append(r, g))
  BY <1>6, <1>7, <1>8, ToGoOn DEF Starts
<1>10. work' = Append(r, g) /\ blocks' = blocks /\ cur' = cur /\ val' = val
  BY <1>1, <1>2, <1>5 DEF EmitBegin, Continues
<1> QED
  BY <1>9, <1>10 DEF Continued, Current

(* An atom.                                                                 *)
LEMMA EmitAtomSound ==
  ASSUME Current, work # <<>>, EmitAtom
  PROVE  Continued
<1>1. PICK r, f, R, S : Stands(r, f, R, S) /\ Continues(r)
  BY Standing
<1>2. f.do = "atom" /\ f = Top /\ f.node \in AllNodes
  BY <1>1 DEF EmitAtom, Stands
<1>3. /\ Frames(blocks, r) /\ Keeps(blocks, blocks, AllOwned(r)) /\ Waits(f) = {} /\ Owns(f) = {}
      /\ Well(blocks, cur, AllWaiting(r), AllOwned(r)) /\ Fits(r, f)
  BY <1>1, <1>2, KeepsSame DEF Stands, Waits, Owns
<1>4. ~HasTerminator(blocks, cur)
  BY <1>1, <1>2 DEF Stands, Ready, Open
<1>5. SoundAt(blocks, cur, r)
  BY <1>3, <1>4, ToReturn
<1>6. f.node.name \in STRING
  BY <1>2, NodeFacts DEF Current
<1>7. Value(f.node.name, 0) \in ValueSet
  BY <1>6, InstrTyped
<1> QED
  BY <1>1, <1>2, <1>5, <1>7 DEF EmitAtom, Continues, Continued

(* The operand of a statement or of a switch.                               *)
LEMMA EmitOperandSound ==
  ASSUME Current, work # <<>>, EmitOperand
  PROVE  Continued
<1>1. PICK r, f, R, S : Stands(r, f, R, S) /\ Continues(r)
  BY Standing
<1>2. f.do \in Operated /\ f = Top /\ f.node \in AllNodes /\ f \in FrameSet
  BY <1>1 DEF EmitOperand, Stands
<1>3. f.node.k = f.do /\ f.clause = 1 /\ f.in = <<>>
  BY <1>1, <1>2 DEF Stands, FrameOK, Kinds
<1>4. PICK n : n = f.node.exprs[1]
  OBVIOUS
<1>5. n \in AllNodes /\ IsExpr(n)
  <2>1. f.node.exprs # <<>> /\ IsExpr(f.node.exprs[1]) /\ f.node.exprs \in Seq(AllNodes)
    BY <1>2, <1>3, NodeFacts DEF Current, WellShaped
  <2> QED
    BY <2>1, <1>4, EmptySeq, ElementOfSeq
<1>6. PICK g : g = [f EXCEPT !.do = IF @ \in {"return_stmt", "use"} THEN "operand" ELSE "start"]
  OBVIOUS
<1>7. /\ g \in FrameSet /\ g.node = f.node /\ g.clause = 1 /\ g.in = <<>>
      /\ g.do = IF f.do \in {"return_stmt", "use"} THEN "operand" ELSE "start"
  BY <1>2, <1>3, <1>6 DEF FrameSet, Dos
<1>8. /\ FrameOK(g) /\ Held(blocks, g) /\ Owns(g) = {} /\ Waits(g) = {}
  <2>1. g.do \in {"operand", "start"} /\ g.do \notin Kinds /\ g.do \notin Joining
    BY <1>7 DEF Kinds, Joining, Conditional, Operated
  <2>2. FrameOK(g)
    BY <2>1, <1>2, <1>3, <1>7 DEF FrameOK, Operated
  <2> QED
    BY <2>1, <2>2 DEF Held, Owns, Waits
<1>9. Fits(r, g)
  BY <1>1, <1>2, <1>7, FitsLike DEF Operated
<1>10. Starts(blocks, emit(n), n) /\ Open(emit(n))
  BY <1>5, EmitFrame DEF Current
<1>11. ~HasTerminator(blocks, cur)
  BY <1>1, <1>2 DEF Stands, Ready, Open, Operated
<1>12. Follows(g, emit(n)) /\ Ready(blocks, cur, emit(n))
  BY <1>5, <1>7, <1>10, <1>11 DEF Follows, Ready, Starts
<1>13. /\ Frames(blocks, r) /\ Keeps(blocks, blocks, AllOwned(r)) /\ Waits(f) = {} /\ Owns(f) = {}
       /\ Well(blocks, cur, AllWaiting(r), AllOwned(r))
  BY <1>1, <1>2, KeepsSame DEF Stands, Waits, Owns, Operated
<1>14. SoundAt(blocks, cur, Append(Append(r, g), emit(n)))
  BY <1>8, <1>9, <1>10, <1>12, <1>13, ToCall DEF Starts
<1>15. work' = Append(Append(r, g), emit(n)) /\ blocks' = blocks /\ cur' = cur /\ val' = val
  BY <1>1, <1>2, <1>4, <1>6 DEF EmitOperand, Continues
<1> QED
  BY <1>14, <1>15 DEF Continued, Current

(* The statement behind its operand.                                        *)
LEMMA EmitWithOperandSound ==
  ASSUME Current, work # <<>>, EmitWithOperand
  PROVE  Continued
<1>1. PICK r, f, R, S : Stands(r, f, R, S) /\ Continues(r)
  BY Standing
<1>2. f.do = "operand" /\ f = Top /\ f.node.k \in {"return_stmt", "use"} /\ Waits(f) = {} /\ Owns(f) = {}
  BY <1>1 DEF EmitWithOperand, Stands, FrameOK, Waits, Owns
<1>3. PICK k : k = IF Top.node.k = "use" THEN "use" ELSE "ret"
  OBVIOUS
<1>4. PICK new : new = Put(blocks, cur, Instr(k, val, NoValue, <<>>))
  OBVIOUS
<1>5. blocks' = new
  BY <1>3, <1>4 DEF EmitWithOperand, Use, Ret
<1>6. Well(blocks, cur, AllWaiting(r), AllOwned(r)) /\ ~HasTerminator(blocks, cur) /\ Frames(blocks, r) /\ Fits(r, f)
  BY <1>1, <1>2 DEF Stands, Ready, Open
<1>7. Grown(blocks, new, cur, AllWaiting(r), AllOwned(r), {}, k \in {"ret", "unreachable"})
  BY <1>3, <1>4, <1>6, PlainGrows DEF Current
<1>8. Keeps(blocks, new, AllOwned(r)) /\ Well(new, cur, AllWaiting(r), AllOwned(r))
  BY <1>6, <1>7 DEF Grown, Keeps, Well
<1>9. ~IsExpr(f.node)
  BY <1>2 DEF IsExpr
<1>10. SoundAt(new, cur, r)
  BY <1>6, <1>8, <1>9, ToReturn
<1> QED
  BY <1>1, <1>5, <1>10 DEF EmitWithOperand, Continues, Continued, Current

(* The entry of a conditional creates the block behind it.                  *)
LEMMA EmitConditionalSound ==
  ASSUME Current, work # <<>>, EmitConditional
  PROVE  Continued
<1>1. PICK r, f, R, S : Stands(r, f, R, S) /\ Continues(r)
  BY Standing
<1>2. f = Top /\ f.node \in AllNodes /\ f \in FrameSet /\ FrameOK(f)
  BY <1>1 DEF Stands
<1>3. /\ f.node.k \in Conditional /\ f.clause = 1 /\ f.in = <<>> /\ f.do # "block"
      /\ Waits(f) = {} /\ Owns(f) = {} /\ Open(f)
  <2>1. CASE f.do \in {"if_stmt", "if_expr"}
    BY <2>1, <1>2 DEF FrameOK, Kinds, Conditional, Waits, Owns, Open
  <2>2. CASE f.do = "start" /\ IsSwitch(f.node)
    BY <2>2, <1>2 DEF FrameOK, IsSwitch, Conditional, Waits, Owns, Open
  <2> QED
    BY <2>1, <2>2, <1>2 DEF EmitConditional
<1>4. 1 \in DOMAIN f.node.clauses
  <2>1. f.node.clauses # <<>> /\ f.node.clauses \in Seq([when : Seq(AllNodes), stmts : Seq(AllNodes), last : Seq(AllNodes)])
    BY <1>2, <1>3, NodeFacts DEF Current, WellShaped, Conditional
  <2> QED
    BY <2>1, EmptySeq, LenProperties
<1>5. PICK n, new : n = Len(blocks) + 1 /\ new = Append(blocks, NewBlock(FALSE))
  OBVIOUS
<1>6. Well(blocks, cur, S, R) /\ ~HasTerminator(blocks, cur)
  BY <1>1, <1>3 DEF Stands, Ready
<1>7. /\ Well(new, cur, S \cup {n}, R \cup {n})
      /\ n \in Nat \ {0} /\ n \notin DOMAIN blocks /\ \A b \in DOMAIN blocks : new[b] = blocks[b]
      /\ ~HasTerminator(new, cur) /\ \A b : PredsIn(new, b) = PredsIn(blocks, b)
      /\ PredsIn(new, n) = {}
  <2>1. OneNew(blocks, cur, S, R, FALSE, n, new)
    BY <1>5, <1>6, NewKeeps
  <2> QED
    BY <2>1, <1>6 DEF OneNew
<1>8. PICK g : g = [f EXCEPT !.do = "clause", !.end = n, !.target = val]
  OBVIOUS
<1>9. g \in FrameSet /\ g.do = "clause" /\ g.end = n /\ g.node = f.node /\ g.clause = 1 /\ g.in = <<>>
  BY <1>2, <1>3, <1>7, <1>8 DEF FrameSet, Current, Dos, Joining
<1>10. Waits(g) = {n} /\ Owns(g) = {n}
  BY <1>9 DEF Waits, Owns
<1>11. FrameOK(g)
  BY <1>3, <1>4, <1>9 DEF FrameOK, Kinds, Conditional, Operated, Joining
<1>12. Held(new, g)
  <2>1. PICK in : in = g.in
    OBVIOUS
  <2>2. DOMAIN in = {} /\ ToSet(in) = {}
    BY <2>1, <1>9 DEF ToSet
  <2>3. Gathers(new, n, in)
    BY <2>2, <1>7 DEF Gathers, Froms
  <2> QED
    BY <2>1, <2>3, <1>9 DEF Held
<1>13. Fits(r, g) /\ Ready(new, cur, g)
  BY <1>1, <1>3, <1>7, <1>9, FitsLike DEF Ready
<1>14. Keeps(blocks, new, AllOwned(r)) /\ Frames(blocks, r) /\ Owns(g) \cap AllOwned(r) = {}
  BY <1>1, <1>7, <1>10 DEF Keeps, Stands
<1>15. Well(new, cur, AllWaiting(r) \cup Waits(g), AllOwned(r) \cup Owns(g))
  BY <1>1, <1>7, <1>10 DEF Stands
<1>16. SoundAt(new, cur, Append(r, g))
  BY <1>11, <1>12, <1>13, <1>14, <1>15, ToGoOn
<1>17. work' = Append(r, g) /\ blocks' = new /\ cur' = cur /\ val' = val
  BY <1>1, <1>2, <1>5, <1>8 DEF EmitConditional, Continues, Fresh
<1> QED
  BY <1>16, <1>17 DEF Continued, Current

(* Two blocks more.                                                         *)
LEMMA TwoMore ==
  ASSUME NEW s \in Seq(BlockSet), NEW x \in BlockSet, NEW y \in BlockSet
  PROVE  s \o <<x, y>> = Append(Append(s, x), y)
<1>1. PICK n : n = Len(s)
  OBVIOUS
<1>2. n \in Nat
  BY <1>1, LenProperties
<1>3. PICK t : t = <<x, y>>
  OBVIOUS
<1>4. t \in Seq(BlockSet) /\ Len(t) = 2 /\ t[1] = x /\ t[2] = y
  BY <1>3
<1>5. PICK u, v : u = s \o t /\ v = Append(Append(s, x), y)
  OBVIOUS
<1>6. u \in Seq(BlockSet) /\ Len(u) = n + 2 /\ \A i \in 1..(n + 2) : u[i] = IF i <= n THEN s[i] ELSE t[i - n]
  <2>1. /\ s \o t \in Seq(BlockSet) /\ Len(s \o t) = Len(s) + Len(t)
        /\ \A i \in 1..Len(s) + Len(t) : (s \o t)[i] = IF i <= Len(s) THEN s[i] ELSE t[i - Len(s)]
    BY <1>4, ConcatProperties
  <2> QED
    BY <2>1, <1>1, <1>4, <1>5
<1>7. v \in Seq(BlockSet) /\ Len(v) = n + 2 /\ v[n + 1] = x /\ v[n + 2] = y /\ \A i \in 1..n : v[i] = s[i]
  BY <1>1, <1>2, <1>5, AppendProperties
<1>8. \A i \in 1..(n + 2) : u[i] = v[i]
  <2>1. u[n + 1] = x /\ u[n + 2] = y
    BY <1>2, <1>4, <1>6
  <2>2. \A i \in 1..(n + 2) : i \in 1..n \/ i = n + 1 \/ i = n + 2
    BY <1>2
  <2> QED
    BY <2>1, <2>2, <1>2, <1>6, <1>7
<1>9. u = v
  BY <1>6, <1>7, <1>8, SeqEqual
<1> QED
  BY <1>3, <1>5, <1>9

(* Two new blocks, numbered in order.                                       *)
TwoNew(bs, c, W, O, p, q, n, m, new) ==
    /\ Well(new, c, W \cup {n, m}, O \cup {n, m})
    /\ n \in Nat \ {0} /\ m \in Nat /\ m = n + 1 /\ n \notin DOMAIN bs /\ m \notin DOMAIN bs
    /\ DOMAIN new = DOMAIN bs \cup {n, m}
    /\ new[n].placed = p /\ new[m].placed = q /\ \A b \in DOMAIN bs : new[b] = bs[b]
    /\ HasTerminator(new, c) <=> HasTerminator(bs, c)
    /\ \A b : PredsIn(new, b) = PredsIn(bs, b)

(* They wait both.                                                          *)
LEMMA TwoNewKeep ==
  ASSUME NEW bs, NEW c, NEW W, NEW O, Well(bs, c, W, O), NEW p \in BOOLEAN, NEW q \in BOOLEAN
  PROVE  TwoNew(bs, c, W, O, p, q, Len(bs) + 1, Len(bs) + 2, bs \o <<NewBlock(p), NewBlock(q)>>)
<1>1. PICK n, mid, new : /\ n = Len(bs) + 1 /\ mid = Append(bs, NewBlock(p))
                         /\ new = Append(mid, NewBlock(q))
  OBVIOUS
<1>2. bs \in Seq(BlockSet)
  BY DEF Well
<1>3. NewBlock(p) \in BlockSet /\ NewBlock(q) \in BlockSet
  <2>1. <<>> \in Seq(Instrs)
    BY EmptySeq
  <2> QED
    BY <2>1 DEF NewBlock, BlockSet
<1>4. bs \o <<NewBlock(p), NewBlock(q)>> = new
  BY <1>1, <1>2, <1>3, TwoMore
<1>5. /\ Well(mid, c, W \cup {n}, O \cup {n})
      /\ n \in Nat \ {0} /\ n \notin DOMAIN bs /\ DOMAIN mid = DOMAIN bs \cup {n} /\ Len(mid) = n
      /\ mid[n].placed = p /\ \A b \in DOMAIN bs : mid[b] = bs[b]
      /\ HasTerminator(mid, c) <=> HasTerminator(bs, c)
      /\ \A b : PredsIn(mid, b) = PredsIn(bs, b)
  <2>1. OneNew(bs, c, W, O, p, n, mid)
    BY <1>1, NewKeeps
  <2> QED
    BY <2>1 DEF OneNew
<1>6. PICK m : m = n + 1
  OBVIOUS
<1>7. /\ Well(new, c, W \cup {n} \cup {m}, O \cup {n} \cup {m})
      /\ m \notin DOMAIN mid /\ DOMAIN new = DOMAIN mid \cup {m}
      /\ new[m].placed = q /\ \A b \in DOMAIN mid : new[b] = mid[b]
      /\ HasTerminator(new, c) <=> HasTerminator(mid, c)
      /\ \A b : PredsIn(new, b) = PredsIn(mid, b)
  <2>1. OneNew(mid, c, W \cup {n}, O \cup {n}, q, m, new)
    BY <1>1, <1>5, <1>6, NewKeeps
  <2> QED
    BY <2>1 DEF OneNew
<1>8. W \cup {n} \cup {m} = W \cup {n, m} /\ O \cup {n} \cup {m} = O \cup {n, m}
  OBVIOUS
<1>9. Len(bs) + 2 = m
  BY <1>1, <1>2, <1>6, LenProperties
<1>10. TwoNew(bs, c, W, O, p, q, n, m, new)
  <2>1. /\ m \in Nat /\ DOMAIN new = DOMAIN bs \cup {n, m} /\ n \in Nat \ {0}
        /\ n \notin DOMAIN bs /\ m \notin DOMAIN bs
    BY <1>5, <1>6, <1>7
  <2>2. /\ new[n].placed = p /\ new[m].placed = q /\ \A b \in DOMAIN bs : new[b] = bs[b]
        /\ HasTerminator(new, c) <=> HasTerminator(bs, c)
        /\ \A b : PredsIn(new, b) = PredsIn(bs, b)
    BY <1>5, <1>7
  <2> QED
    BY <2>1, <2>2, <1>6, <1>7, <1>8 DEF TwoNew
<1> QED
  BY <1>1, <1>4, <1>9, <1>10

(* A frame between the clauses of a conditional.                            *)
LEMMA AtClause ==
  ASSUME Current, NEW r, NEW f, NEW R, NEW S, Stands(r, f, R, S), f.do \in Joining,
         f.clause <= Len(f.node.clauses)
  PROVE  /\ f.node.k \in Conditional /\ f.clause \in DOMAIN f.node.clauses /\ r # <<>> /\ f.in \in IncomingSet
         /\ f.end \in Nat /\ f.then \in Nat /\ f.else \in Nat /\ f.target \in ValueSet /\ f.at \in Nat \ {0}
         /\ HereOf(f).when \in Seq(AllNodes)
         /\ \A j \in DOMAIN HereOf(f).when : HereOf(f).when[j] \in AllNodes /\ IsExpr(HereOf(f).when[j])
<1>1. f \in FrameSet /\ FrameOK(f) /\ f.node \in AllNodes /\ f.do # "block"
  BY DEF Stands, Joining
<1>2. /\ f.clause \in Nat \ {0} /\ f.in \in IncomingSet /\ f.node.k \in Conditional
      /\ f.end \in Nat /\ f.then \in Nat /\ f.else \in Nat /\ f.target \in ValueSet /\ f.at \in Nat \ {0}
  BY <1>1 DEF FrameSet, FrameOK
<1>3. f.clause \in DOMAIN f.node.clauses
  <2>1. f.node.clauses \in Seq([when : Seq(AllNodes), stmts : Seq(AllNodes), last : Seq(AllNodes)])
    BY <1>1, NodeFacts DEF Current
  <2> QED
    BY <2>1, <1>2, LenProperties
<1>4. /\ HereOf(f).when \in Seq(AllNodes)
      /\ \A j \in DOMAIN HereOf(f).when : HereOf(f).when[j] \in AllNodes /\ IsExpr(HereOf(f).when[j])
  BY <1>1, <1>3, ClauseFacts DEF Current, HereOf
<1> QED
  BY <1>1, <1>2, <1>3, <1>4 DEF Stands

(* A condition.                                                             *)
LEMMA EmitConditionSound ==
  ASSUME Current, work # <<>>, EmitCondition
  PROVE  Continued
<1>1. PICK r, f, R, S : Stands(r, f, R, S) /\ Continues(r)
  BY Standing
<1>2. /\ f = Top /\ f \in FrameSet /\ FrameOK(f) /\ Here = HereOf(f) /\ Held(blocks, f) /\ f.do \in {"clause", "compare"}
      /\ f.clause <= Len(f.node.clauses) /\ f.at <= Len(HereOf(f).when)
  BY <1>1 DEF EmitCondition, Stands, Here, HereOf
<1>3. /\ f.node.k \in Conditional /\ f.clause \in DOMAIN f.node.clauses /\ r # <<>> /\ f.in \in IncomingSet
      /\ f.end \in Nat /\ f.then \in Nat /\ f.else \in Nat /\ f.target \in ValueSet /\ f.at \in Nat \ {0}
      /\ HereOf(f).when \in Seq(AllNodes)
      /\ \A j \in DOMAIN HereOf(f).when : HereOf(f).when[j] \in AllNodes /\ IsExpr(HereOf(f).when[j])
  BY <1>1, <1>2, AtClause DEF Joining
<1>4. 1 \in DOMAIN HereOf(f).when /\ f.at \in DOMAIN HereOf(f).when /\ HereOf(f).when # <<>>
  BY <1>2, <1>3, LenProperties
<1>5. ~HasTerminator(blocks, cur)
  BY <1>1, <1>2 DEF Stands, Ready, Open
<1>6. CASE IsSwitch(f.node) /\ f.do = "clause"
  <2>1. PICK n, m, new : n = Len(blocks) + 1 /\ m = Len(blocks) + 2
                         /\ new = blocks \o <<NewBlock(FALSE), NewBlock(FALSE)>>
    OBVIOUS
  <2>2. Waits(f) = {f.end} /\ Owns(f) = {f.end}
    BY <1>6 DEF Waits, Owns
  <2>3. Well(blocks, cur, S \cup {f.end}, R \cup {f.end})
    BY <1>1, <2>2 DEF Stands
  <2>4. TwoNew(blocks, cur, S \cup {f.end}, R \cup {f.end}, FALSE, FALSE, n, m, new)
    BY <2>1, <2>3, TwoNewKeep
  <2>5. PICK g : g = [f EXCEPT !.do = "test", !.then = n, !.else = m]
    OBVIOUS
  <2>6. /\ g \in FrameSet /\ g.do = "test" /\ g.then = n /\ g.else = m /\ g.node = f.node
        /\ g.clause = f.clause /\ g.in = f.in /\ g.end = f.end
    <3>1. n \in Nat /\ m \in Nat
      BY <2>4 DEF TwoNew
    <3> QED
      BY <3>1, <1>2, <2>5 DEF FrameSet, Dos, Joining
  <2>7. Waits(g) = {n, m, f.end} /\ Owns(g) = {n, m, f.end}
    BY <1>6, <2>6 DEF Waits, Owns
  <2>8. f.end \in DOMAIN blocks
    BY <1>1, <2>2 DEF Stands
  <2>9. FrameOK(g)
    <3>1. n # m /\ n # f.end /\ m # f.end
      BY <2>4, <2>8 DEF TwoNew
    <3> QED
      BY <3>1, <1>3, <1>4, <1>6, <2>6 DEF FrameOK, Kinds, Conditional, Operated, Joining, HereOf
  <2>10. Held(new, g)
    BY <1>2, <1>6, <2>4, <2>6 DEF Held, Gathers, TwoNew, Joining
  <2>11. Fits(r, g)
    BY <1>1, <1>6, <2>6, FitsLike
  <2>12. PICK e : e = HereOf(f).when[1]
    OBVIOUS
  <2>13. Starts(new, emit(e), e) /\ IsExpr(e)
    BY <1>3, <1>4, <2>12, EmitFrame DEF Current
  <2>14. Follows(g, emit(e)) /\ Ready(new, cur, emit(e))
    BY <2>4, <2>6, <2>13, <1>5 DEF Follows, Ready, Starts, TwoNew
  <2>15. Keeps(blocks, new, AllOwned(r)) /\ Frames(blocks, r) /\ Owns(g) \cap AllOwned(r) = {}
    BY <1>1, <2>2, <2>4, <2>7 DEF Keeps, Stands, TwoNew
  <2>16. Well(new, cur, AllWaiting(r) \cup Waits(g), AllOwned(r) \cup Owns(g))
    <3>1. S \cup {f.end} \cup {n, m} = S \cup {n, m, f.end} /\ R \cup {f.end} \cup {n, m} = R \cup {n, m, f.end}
      OBVIOUS
    <3> QED
      BY <3>1, <1>1, <2>4, <2>7 DEF Stands, TwoNew
  <2>17. SoundAt(new, cur, Append(Append(r, g), emit(e)))
    BY <2>9, <2>10, <2>11, <2>13, <2>14, <2>15, <2>16, ToCall DEF Starts
  <2>18. Fresh = n /\ Fresh + 1 = m
    BY <2>1, <1>1, LenProperties DEF Fresh, Stands, Well
  <2>19. work' = Append(Append(r, g), emit(e)) /\ blocks' = new /\ cur' = cur /\ val' = val
    BY <1>1, <1>2, <1>6, <2>1, <2>5, <2>12, <2>18 DEF EmitCondition, Continues
  <2> QED
    BY <2>17, <2>19 DEF Continued, Current
<1>7. CASE ~(IsSwitch(f.node) /\ f.do = "clause")
  <2>1. PICK g : g = [f EXCEPT !.do = "test"]
    OBVIOUS
  <2>2. /\ g \in FrameSet /\ g.do = "test" /\ g.then = f.then /\ g.else = f.else /\ g.node = f.node
        /\ g.clause = f.clause /\ g.in = f.in /\ g.end = f.end
    BY <1>2, <2>1 DEF FrameSet, Dos, Joining
  <2>3. f.do = "compare" => IsSwitch(f.node) /\ f.then # f.else /\ f.then # f.end /\ f.else # f.end
    BY <1>2 DEF FrameOK, Joining
  <2>4. Waits(g) = Waits(f) /\ Owns(g) = Owns(f)
    BY <1>2, <1>7, <2>2, <2>3 DEF Waits, Owns
  <2>5. FrameOK(g)
    BY <1>2, <1>3, <1>4, <1>7, <2>2, <2>3 DEF FrameOK, Kinds, Conditional, Operated, Joining, HereOf
  <2>6. Held(blocks, g)
    BY <1>2, <2>2 DEF Held, Joining
  <2>7. Fits(r, g)
    BY <1>1, <1>2, <2>2, FitsLike
  <2>8. PICK e : e = HereOf(f).when[f.at]
    OBVIOUS
  <2>9. Starts(blocks, emit(e), e) /\ IsExpr(e)
    BY <1>3, <1>4, <2>8, EmitFrame DEF Current
  <2>10. Follows(g, emit(e)) /\ Ready(blocks, cur, emit(e))
    BY <2>2, <2>9, <1>5 DEF Follows, Ready, Starts
  <2>11. /\ Frames(blocks, r) /\ Keeps(blocks, blocks, AllOwned(r)) /\ Owns(g) \cap AllOwned(r) = {}
         /\ Well(blocks, cur, AllWaiting(r) \cup Waits(g), AllOwned(r) \cup Owns(g))
    BY <1>1, <2>4, KeepsSame DEF Stands
  <2>12. SoundAt(blocks, cur, Append(Append(r, g), emit(e)))
    BY <2>5, <2>6, <2>7, <2>9, <2>10, <2>11, ToCall DEF Starts
  <2>13. work' = Append(Append(r, g), emit(e)) /\ blocks' = blocks /\ cur' = cur /\ val' = val
    BY <1>1, <1>2, <1>7, <2>1, <2>8 DEF EmitCondition, Continues
  <2> QED
    BY <2>12, <2>13 DEF Continued, Current
<1> QED
  BY <1>6, <1>7

(* The branch of an if.                                                     *)
LEMMA EmitBranchSound ==
  ASSUME Current, work # <<>>, EmitBranch
  PROVE  Continued
<1>1. PICK r, f, R, S : Stands(r, f, R, S) /\ Continues(r)
  BY Standing
<1>2. /\ f = Top /\ f \in FrameSet /\ FrameOK(f) /\ Held(blocks, f) /\ f.do = "test" /\ ~IsSwitch(f.node)
      /\ f.node \in AllNodes /\ f.end \in Nat
  BY <1>1 DEF EmitBranch, Stands, FrameSet
<1>3. f.node.k \in Conditional /\ f.clause \in DOMAIN f.node.clauses /\ HereOf(f).when # <<>>
  BY <1>2 DEF FrameOK, Joining
<1>4. Waits(f) = {f.end} /\ Owns(f) = {f.end} /\ ~HasTerminator(blocks, cur) /\ f.end \in DOMAIN blocks
  BY <1>1, <1>2 DEF Waits, Owns, Stands, Ready, Open
<1>5. PICK n, m, mid : n = Len(blocks) + 1 /\ m = Len(blocks) + 2
                       /\ mid = blocks \o <<NewBlock(TRUE), NewBlock(FALSE)>>
  OBVIOUS
<1>6. PICK W, O : W = S \cup {f.end} /\ O = R \cup {f.end}
  OBVIOUS
<1>7. Well(blocks, cur, W, O) /\ W \subseteq DOMAIN blocks /\ S \subseteq R
  BY <1>1, <1>4, <1>6 DEF Stands
<1>8. TwoNew(blocks, cur, W, O, TRUE, FALSE, n, m, mid)
  BY <1>5, <1>7, TwoNewKeep
<1>9. PICK t, u : IF f.node.name = "unless" /\ f.clause = 1 THEN t = m /\ u = n ELSE t = n /\ u = m
  OBVIOUS
<1>10. PICK new : new = Put(mid, cur, CondBr(val, NoValue, t, u))
  OBVIOUS
<1>11. {t, u} = {n, m} /\ t \in O \cup {n, m} /\ u \in O \cup {n, m}
  BY <1>9
<1>12. Grown(mid, new, cur, W \cup {n, m}, O \cup {n, m}, {n, m}, TRUE)
  <2>1. Well(mid, cur, W \cup {n, m}, O \cup {n, m}) /\ ~HasTerminator(mid, cur)
    BY <1>4, <1>8 DEF TwoNew
  <2>2. val \in ValueSet /\ NoValue \in ValueSet
    BY InstrTyped DEF Current
  <2>3. Grown(mid, new, cur, W \cup {n, m}, O \cup {n, m}, {t, u}, TRUE)
    BY <2>1, <2>2, <1>10, <1>11, CondBrGrows
  <2> QED
    BY <2>3, <1>11
<1>13. Well(new, n, (W \cup {n, m}) \ {n}, O \cup {n, m}) /\ ~HasTerminator(new, n)
  <2>1. mid[n].placed /\ n \in DOMAIN mid
    BY <1>8 DEF TwoNew, Well
  <2> QED
    BY <2>1, <1>12, MoveKeeps DEF Grown
<1>14. PICK g : g = [f EXCEPT !.do = "join", !.else = m]
  OBVIOUS
<1>15. /\ g \in FrameSet /\ g.do = "join" /\ g.else = m /\ g.node = f.node
       /\ g.clause = f.clause /\ g.in = f.in /\ g.end = f.end
  <2>1. n \in Nat /\ m \in Nat
    BY <1>8 DEF TwoNew
  <2> QED
    BY <2>1, <1>2, <1>14 DEF FrameSet, Dos, Joining
<1>16. Waits(g) = {m, f.end} /\ Owns(g) = {m, f.end}
  BY <1>3, <1>15 DEF Waits, Owns, HereOf
<1>17. m # f.end /\ n # f.end /\ n \notin S /\ n # m /\ n \notin R /\ m \notin R
  BY <1>1, <1>4, <1>8 DEF TwoNew, Stands
<1>18. FrameOK(g)
  BY <1>3, <1>15, <1>17 DEF FrameOK, Kinds, Conditional, Operated, Joining, HereOf
<1>19. \A b \in DOMAIN blocks : PredsIn(new, b) = PredsIn(blocks, b) /\ (blocks[b].placed => new[b].placed)
  <2>1. SUFFICES ASSUME NEW b \in DOMAIN blocks
                 PROVE  PredsIn(new, b) = PredsIn(blocks, b) /\ (blocks[b].placed => new[b].placed)
    OBVIOUS
  <2>2. /\ b \in DOMAIN mid /\ mid[b] = blocks[b] /\ PredsIn(mid, b) = PredsIn(blocks, b)
        /\ b \notin {n, m}
    BY <1>8 DEF TwoNew
  <2>3. PredsIn(new, b) = PredsIn(mid, b) /\ (mid[b].placed => new[b].placed)
    BY <2>2, <1>12 DEF Grown
  <2> QED
    BY <2>2, <2>3
<1>20. Held(new, g)
  BY <1>2, <1>4, <1>15, <1>19 DEF Held, Gathers, Joining
<1>21. Well(new, n, AllWaiting(r) \cup Waits(g), AllOwned(r) \cup Owns(g))
  <2>1. (W \cup {n, m}) \ {n} = S \cup {m, f.end} /\ R \cup {m, f.end} \subseteq O \cup {n, m}
    BY <1>6, <1>17
  <2>2. Well(new, n, S \cup {m, f.end}, O \cup {n, m}) /\ S \cup {m, f.end} \subseteq R \cup {m, f.end}
    BY <1>7, <1>13, <2>1
  <2>3. Well(new, n, S \cup {m, f.end}, R \cup {m, f.end})
    BY <2>1, <2>2, ShrinkKeeps
  <2> QED
    BY <2>3, <1>1, <1>16 DEF Stands
<1>22. Fits(r, g)
  BY <1>1, <1>2, <1>15, FitsLike
<1>23. PICK h : h = Block(f.node, f.clause)
  OBVIOUS
<1>24. Starts(new, h, f.node) /\ h.do = "block"
  BY <1>2, <1>3, <1>23, BlockFrame DEF Current
<1>25. Follows(g, h) /\ Ready(new, n, h)
  BY <1>15, <1>24 DEF Follows, Ready, Starts, Open
<1>26. Keeps(blocks, new, AllOwned(r)) /\ Frames(blocks, r) /\ Owns(g) \cap AllOwned(r) = {}
  BY <1>1, <1>4, <1>16, <1>17, <1>19 DEF Keeps, Stands
<1>27. SoundAt(new, n, Append(Append(r, g), h))
  BY <1>18, <1>20, <1>21, <1>22, <1>24, <1>25, <1>26, ToCall DEF Starts
<1>28. Fresh = n /\ Fresh + 1 = m
  BY <1>5, <1>7, LenProperties DEF Fresh, Well
<1>29. work' = Append(Append(r, g), h) /\ blocks' = new /\ cur' = n /\ val' = val
  BY <1>1, <1>2, <1>5, <1>9, <1>10, <1>14, <1>23, <1>28 DEF EmitBranch, Continues
<1> QED
  BY <1>27, <1>29 DEF Continued, Current

(* A comparison of a switch.                                                *)
LEMMA EmitCompareSound ==
  ASSUME Current, work # <<>>, EmitCompare
  PROVE  Continued
<1>1. PICK r, f, R, S : Stands(r, f, R, S) /\ Continues(r)
  BY Standing
<1>2. /\ f = Top /\ f \in FrameSet /\ FrameOK(f) /\ Held(blocks, f) /\ f.do = "test" /\ IsSwitch(f.node)
      /\ f.node \in AllNodes /\ f.target \in ValueSet /\ f.at \in Nat \ {0}
  BY <1>1 DEF EmitCompare, Stands, FrameSet
<1>3. /\ f.node.k \in Conditional /\ HereOf(f).when # <<>>
      /\ f.then # f.else /\ f.then # f.end /\ f.else # f.end
  BY <1>2 DEF FrameOK, Joining
<1>4. Waits(f) = {f.then, f.else, f.end} /\ Owns(f) = {f.then, f.else, f.end} /\ ~HasTerminator(blocks, cur)
  BY <1>1, <1>2 DEF Waits, Owns, Stands, Ready, Open
<1>5. PICK W, O : W = S \cup {f.then, f.else, f.end} /\ O = R \cup {f.then, f.else, f.end}
  OBVIOUS
<1>6. Well(blocks, cur, W, O) /\ O \subseteq DOMAIN blocks /\ W \subseteq O
  BY <1>1, <1>4, <1>5 DEF Stands
<1>7. PICK n, mid : n = Len(blocks) + 1 /\ mid = Append(blocks, NewBlock(FALSE))
  OBVIOUS
<1>8. /\ Well(mid, cur, W \cup {n}, O \cup {n})
      /\ n \in Nat \ {0} /\ n \notin DOMAIN blocks /\ DOMAIN mid = DOMAIN blocks \cup {n}
      /\ \A b \in DOMAIN blocks : mid[b] = blocks[b]
      /\ ~HasTerminator(mid, cur) /\ \A b : PredsIn(mid, b) = PredsIn(blocks, b)
  <2>1. OneNew(blocks, cur, W, O, FALSE, n, mid)
    BY <1>6, <1>7, NewKeeps
  <2> QED
    BY <2>1, <1>4 DEF OneNew
<1>9. PICK two : two = Put(mid, cur, CondBr(f.target, val, f.then, n))
  OBVIOUS
<1>10. Grown(mid, two, cur, W \cup {n}, O \cup {n}, {f.then, n}, TRUE)
  <2>1. f.then \in O \cup {n} /\ n \in O \cup {n}
    BY <1>5
  <2> QED
    BY <2>1, <1>2, <1>8, <1>9, CondBrGrows DEF Current
<1>11. PICK new : new = append_block(two, n)
  OBVIOUS
<1>12. PlacedToo(two, cur, W \cup {n}, O \cup {n}, n, new)
  BY <1>10, <1>11, PlaceKeeps DEF Grown
<1>13. Well(new, n, W, O) /\ ~HasTerminator(new, n)
  <2>1. Well(new, cur, W \cup {n}, O \cup {n}) /\ HasTerminator(new, cur) /\ new[n].placed
    BY <1>10, <1>12 DEF PlacedToo, Grown, Well
  <2>2. Well(new, n, (W \cup {n}) \ {n}, O \cup {n}) /\ ~HasTerminator(new, n)
    BY <2>1, MoveKeeps
  <2>3. (W \cup {n}) \ {n} = W
    BY <1>6, <1>8
  <2> QED
    BY <2>2, <2>3, <1>6, ShrinkKeeps
<1>14. \A b \in DOMAIN blocks : /\ b # f.then => PredsIn(new, b) = PredsIn(blocks, b)
                                /\ blocks[b].placed => new[b].placed
  <2>1. SUFFICES ASSUME NEW b \in DOMAIN blocks
                 PROVE  /\ b # f.then => PredsIn(new, b) = PredsIn(blocks, b)
                        /\ blocks[b].placed => new[b].placed
    OBVIOUS
  <2>2. b \in DOMAIN mid /\ b \in DOMAIN two /\ mid[b] = blocks[b] /\ PredsIn(mid, b) = PredsIn(blocks, b) /\ b # n
    BY <1>8, <1>10 DEF Grown
  <2>3. b # f.then => PredsIn(two, b) = PredsIn(mid, b)
    BY <2>2, <1>10 DEF Grown
  <2>4. mid[b].placed => two[b].placed
    BY <2>2, <1>10 DEF Grown
  <2>5. PredsIn(new, b) = PredsIn(two, b) /\ (two[b].placed => new[b].placed)
    BY <2>2, <1>12 DEF PlacedToo
  <2> QED
    BY <2>2, <2>3, <2>4, <2>5
<1>15. PICK g : g = [f EXCEPT !.do = "compare", !.at = @ + 1]
  OBVIOUS
<1>16. /\ g \in FrameSet /\ g.do = "compare" /\ g.then = f.then /\ g.else = f.else /\ g.node = f.node
       /\ g.clause = f.clause /\ g.in = f.in /\ g.end = f.end
  <2>1. PICK a : a = f.at + 1
    OBVIOUS
  <2>2. a \in Nat \ {0} /\ g = [f EXCEPT !.do = "compare", !.at = a]
    BY <2>1, <1>2, <1>15
  <2>3. "compare" \in Dos
    BY DEF Dos, Joining
  <2> QED
    BY <2>2, <2>3, <1>2 DEF FrameSet
<1>17. Waits(g) = {f.then, f.else, f.end} /\ Owns(g) = {f.then, f.else, f.end}
  BY <1>16 DEF Waits, Owns
<1>18. FrameOK(g)
  BY <1>2, <1>3, <1>16 DEF FrameOK, Kinds, Conditional, Operated, Joining, HereOf
<1>19. Held(new, g)
  <2>1. f.end \in DOMAIN blocks
    BY <1>5, <1>6
  <2> QED
    BY <2>1, <1>2, <1>3, <1>14, <1>16 DEF Held, Gathers, Joining
<1>20. Fits(r, g) /\ Ready(new, n, g)
  BY <1>1, <1>2, <1>13, <1>16, FitsLike DEF Ready
<1>21. Keeps(blocks, new, AllOwned(r)) /\ Frames(blocks, r) /\ Owns(g) \cap AllOwned(r) = {}
  BY <1>1, <1>4, <1>14, <1>17 DEF Keeps, Stands
<1>22. Well(new, n, AllWaiting(r) \cup Waits(g), AllOwned(r) \cup Owns(g))
  BY <1>1, <1>5, <1>13, <1>17 DEF Stands
<1>23. SoundAt(new, n, Append(r, g))
  BY <1>18, <1>19, <1>20, <1>21, <1>22, ToGoOn
<1>24. work' = Append(r, g) /\ blocks' = new /\ cur' = n /\ val' = val
  BY <1>1, <1>2, <1>7, <1>9, <1>11, <1>15 DEF EmitCompare, Continues, Fresh
<1> QED
  BY <1>23, <1>24 DEF Continued, Current

(* The builder has ended block c with a branch to the blocks D, if it was   *)
(* open, and goes on in the block w, which is empty.                        *)
Moved(bs, new, c, D, w, W, O) ==
    /\ Well(new, w, W, O) /\ ~HasTerminator(new, w) /\ new[w].code = <<>>
    /\ DOMAIN new = DOMAIN bs
    /\ \A b \in DOMAIN bs : bs[b].placed => new[b].placed
    /\ \A b : PredsIn(new, b) = PredsIn(bs, b) \cup (IF b \in D THEN {c} ELSE {})

(* It goes on in a block in the function; only the blocks P may still be    *)
(* branched to.                                                             *)
LEMMA MoveOn ==
  ASSUME NEW bs, NEW mid, NEW c, NEW W, NEW O, NEW D, Grown(bs, mid, c, W, O, D, TRUE),
         NEW w \in W, mid[w].placed, NEW V, V = W \ {w}, NEW P, V \subseteq P, P \subseteq O
  PROVE  Moved(bs, mid, c, D, w, V, P)
<1>1. Well(mid, w, V, O) /\ ~HasTerminator(mid, w) /\ mid[w].code = <<>>
  BY MoveKeeps DEF Grown
<1>2. Well(mid, w, V, P)
  BY <1>1, ShrinkKeeps
<1> QED
  BY <1>1, <1>2 DEF Moved, Grown

(* It puts the block into the function first.                               *)
LEMMA PlaceAndMoveOn ==
  ASSUME NEW bs, NEW mid, NEW c, NEW W, NEW O, NEW D, Grown(bs, mid, c, W, O, D, TRUE), DOMAIN mid = DOMAIN bs,
         NEW w \in W, NEW V, V = W \ {w}, NEW P, V \subseteq P, P \subseteq O
  PROVE  Moved(bs, append_block(mid, w), c, D, w, V, P)
<1>1. PICK new : new = append_block(mid, w)
  OBVIOUS
<1>2. PlacedToo(mid, c, W, O, w, new) /\ c \in DOMAIN mid
  BY <1>1, PlaceKeeps DEF Grown, Well
<1>3. Grown(bs, new, c, W, O, D, TRUE) /\ new[w].placed
  BY <1>2 DEF Grown, PlacedToo
<1> QED
  BY <1>1, <1>3, MoveOn

(* What frames know is kept, but of the blocks D.                           *)
LEMMA MovedKeeps ==
  ASSUME NEW bs, NEW new, NEW c, NEW D, NEW w, NEW W, NEW O, Moved(bs, new, c, D, w, W, O),
         NEW R, R \subseteq DOMAIN bs, R \cap D = {}
  PROVE  Keeps(bs, new, R)
BY DEF Moved, Keeps

(* One value more, for one predecessor more.                                *)
LEMMA GathersMore ==
  ASSUME NEW bs, NEW new, NEW b, NEW in \in IncomingSet, Gathers(bs, b, in), NEW c \in Nat,
         c \notin PredsIn(bs, b), PredsIn(new, b) = PredsIn(bs, b) \cup {c}, NEW v \in ValueSet
  PROVE  Gathers(new, b, Append(in, [v |-> v, from |-> c])) /\ Append(in, [v |-> v, from |-> c]) \in IncomingSet
<1>1. PICK x, n, u : x = [v |-> v, from |-> c] /\ n = Len(in) /\ u = Append(in, x)
  OBVIOUS
<1>2. x \in [v : ValueSet, from : Nat] /\ x.from = c
  BY <1>1
<1>3. /\ u \in IncomingSet /\ DOMAIN u = 1..(n + 1) /\ u[n + 1] = x /\ \A i \in 1..n : u[i] = in[i]
      /\ n \in Nat /\ DOMAIN in = 1..n
  BY <1>1, <1>2, AppendProperties, LenProperties DEF IncomingSet
<1>4. Froms(u) = Froms(in) \cup {c}
  <2>1. ToSet(u) = ToSet(in) \cup {x}
    <3>1. ASSUME NEW y PROVE (\E i \in 1..(n + 1) : u[i] = y) <=> (\E i \in 1..n : in[i] = y) \/ y = x
      <4>1. n + 1 \in 1..(n + 1) /\ \A i \in 1..(n + 1) : i \in 1..n \/ i = n + 1
        BY <1>3
      <4>2. \A i \in 1..n : i \in 1..(n + 1)
        BY <1>3
      <4> QED
        BY <4>1, <4>2, <1>3
    <3> QED
      BY <3>1, <1>3 DEF ToSet
  <2> QED
    BY <2>1, <1>2 DEF Froms
<1>5. \A i \in 1..n : in[i].from # c
  BY <1>3 DEF Gathers, Froms, ToSet
<1>6. \A i, j \in DOMAIN u : u[i].from = u[j].from => i = j
  <2>1. \A i \in DOMAIN u : i \in 1..n \/ i = n + 1
    BY <1>3
  <2> QED
    BY <2>1, <1>2, <1>3, <1>5 DEF Gathers
<1>7. Gathers(new, b, u)
  BY <1>4, <1>6 DEF Gathers
<1> QED
  BY <1>1, <1>3, <1>7

(* The values of the clauses so far, when the end of one is reached.        *)
LEMMA IncomingGathers ==
  ASSUME Current, NEW r, NEW f, NEW R, NEW S, Stands(r, f, R, S), f.do \in {"join", "skipped"},
         NEW new, PredsIn(new, f.end) = PredsIn(blocks, f.end)
                    \cup (IF f.end \in (IF HasTerminator(blocks, cur) THEN {} ELSE {f.end}) THEN {cur} ELSE {})
  PROVE  Incoming(f) \in IncomingSet /\ (IsExpr(f.node) => Gathers(new, f.end, Incoming(f)))
<1>1. f.in \in IncomingSet /\ FrameOK(f) /\ Held(blocks, f) /\ Ready(blocks, cur, f) /\ val \in ValueSet
  BY DEF Stands, FrameSet, Current
<1>2. CASE ~IsExpr(f.node)
  BY <1>1, <1>2 DEF Incoming
<1>3. CASE IsExpr(f.node) /\ f.do = "skipped"
  <2>1. HasTerminator(blocks, cur) /\ Incoming(f) = f.in
    BY <1>1, <1>3 DEF Ready, Incoming
  <2>2. Gathers(blocks, f.end, f.in)
    BY <1>1, <1>3 DEF Held, Joining
  <2> QED
    BY <2>1, <2>2, <1>1 DEF Gathers
<1>4. CASE IsExpr(f.node) /\ f.do = "join"
  <2>1. ~HasTerminator(blocks, cur)
    BY <1>1, <1>4 DEF Ready, Open
  <2>2. Gathers(blocks, f.end, f.in)
    BY <1>1, <1>4 DEF Held, Joining
  <2>3. cur \in Nat /\ cur \notin PredsIn(blocks, f.end)
    <3>1. Well(blocks, cur, S \cup Waits(f), R \cup Owns(f))
      BY DEF Stands
    <3>2. cur \in Nat
      BY <3>1, LenProperties DEF Well
    <3> QED
      BY <3>1, <3>2, <2>1, OpenNoPred
  <2>4. PredsIn(new, f.end) = PredsIn(blocks, f.end) \cup {cur}
    BY <2>1
  <2> QED
    BY <2>2, <2>3, <2>4, <1>1, <1>4, GathersMore DEF Incoming
<1> QED
  BY <1>2, <1>3, <1>4

(* The clause of a switch behind its comparisons.                           *)
LEMMA EmitWhenSound ==
  ASSUME Current, work # <<>>, EmitWhen
  PROVE  Continued
<1>1. PICK r, f, R, S : Stands(r, f, R, S) /\ Continues(r)
  BY Standing
<1>2. /\ f = Top /\ f \in FrameSet /\ FrameOK(f) /\ Held(blocks, f) /\ f.do = "compare" /\ f.node \in AllNodes
  BY <1>1 DEF EmitWhen, Stands
<1>3. /\ f.node.k \in Conditional /\ f.clause \in DOMAIN f.node.clauses /\ HereOf(f).when # <<>>
      /\ f.then # f.else /\ f.then # f.end /\ f.else # f.end
  BY <1>2 DEF FrameOK, Joining
<1>4. Waits(f) = {f.then, f.else, f.end} /\ Owns(f) = {f.then, f.else, f.end} /\ ~HasTerminator(blocks, cur)
  BY <1>1, <1>2 DEF Waits, Owns, Stands, Ready, Open
<1>5. PICK W, O : W = S \cup {f.then, f.else, f.end} /\ O = R \cup {f.then, f.else, f.end}
  OBVIOUS
<1>6. /\ Well(blocks, cur, W, O) /\ O \subseteq DOMAIN blocks /\ S \subseteq R
      /\ f.then \notin R /\ f.else \notin R /\ f.end \notin R
  BY <1>1, <1>4, <1>5 DEF Stands
<1>7. PICK mid, new : mid = Put(blocks, cur, Br(f.else)) /\ new = append_block(mid, f.then)
  OBVIOUS
<1>8. Grown(blocks, mid, cur, W, O, {f.else}, TRUE) /\ DOMAIN mid = DOMAIN blocks
  <2>1. f.else \in O
    BY <1>5
  <2> QED
    BY <2>1, <1>4, <1>6, <1>7, BrGrows DEF Grown
<1>9. Moved(blocks, new, cur, {f.else}, f.then, S \cup {f.else, f.end}, R \cup {f.else, f.end})
  <2>1. /\ W \ {f.then} = S \cup {f.else, f.end} /\ f.then \in W
        /\ S \cup {f.else, f.end} \subseteq R \cup {f.else, f.end} /\ R \cup {f.else, f.end} \subseteq O
    BY <1>3, <1>5, <1>6
  <2> QED
    BY <2>1, <1>7, <1>8, PlaceAndMoveOn
<1>10. PICK g : g = [f EXCEPT !.do = "join"]
  OBVIOUS
<1>11. /\ g \in FrameSet /\ g.do = "join" /\ g.else = f.else /\ g.node = f.node
       /\ g.clause = f.clause /\ g.in = f.in /\ g.end = f.end
  BY <1>2, <1>10 DEF FrameSet, Dos, Joining
<1>12. Waits(g) = {f.else, f.end} /\ Owns(g) = {f.else, f.end}
  BY <1>3, <1>11 DEF Waits, Owns, HereOf
<1>13. FrameOK(g)
  BY <1>3, <1>11 DEF FrameOK, Kinds, Conditional, Operated, Joining, HereOf
<1>14. Held(new, g)
  <2>1. PredsIn(new, f.end) = PredsIn(blocks, f.end)
    BY <1>3, <1>9 DEF Moved
  <2> QED
    BY <2>1, <1>2, <1>11 DEF Held, Gathers, Joining
<1>15. Keeps(blocks, new, AllOwned(r)) /\ Frames(blocks, r) /\ Owns(g) \cap AllOwned(r) = {}
  <2>1. R \subseteq DOMAIN blocks /\ R \cap {f.else} = {}
    BY <1>5, <1>6
  <2> QED
    BY <2>1, <1>1, <1>6, <1>9, <1>12, MovedKeeps DEF Stands
<1>16. Well(new, f.then, AllWaiting(r) \cup Waits(g), AllOwned(r) \cup Owns(g)) /\ Fits(r, g)
  BY <1>1, <1>2, <1>9, <1>11, <1>12, FitsLike DEF Stands, Moved
<1>17. PICK h : h = Block(f.node, f.clause)
  OBVIOUS
<1>18. Starts(new, h, f.node) /\ h.do = "block"
  BY <1>2, <1>3, <1>17, BlockFrame DEF Current
<1>19. Follows(g, h) /\ Ready(new, f.then, h)
  BY <1>11, <1>18 DEF Follows, Ready, Starts, Open
<1>20. SoundAt(new, f.then, Append(Append(r, g), h))
  BY <1>13, <1>14, <1>15, <1>16, <1>18, <1>19, ToCall DEF Starts
<1>21. work' = Append(Append(r, g), h) /\ blocks' = new /\ cur' = f.then /\ val' = val
  BY <1>1, <1>2, <1>7, <1>10, <1>17 DEF EmitWhen, Continues
<1> QED
  BY <1>20, <1>21 DEF Continued, Current

(* The else clause.                                                         *)
LEMMA EmitElseSound ==
  ASSUME Current, work # <<>>, EmitElse
  PROVE  Continued
<1>1. PICK r, f, R, S : Stands(r, f, R, S) /\ Continues(r)
  BY Standing
<1>2. /\ f = Top /\ f \in FrameSet /\ FrameOK(f) /\ Held(blocks, f) /\ f.do = "clause" /\ f.node \in AllNodes
      /\ f.clause <= Len(f.node.clauses) /\ HereOf(f).when = <<>>
  BY <1>1 DEF EmitElse, Stands, Here, HereOf
<1>3. f.node.k \in Conditional /\ f.clause \in DOMAIN f.node.clauses
  BY <1>1, <1>2, AtClause DEF Joining
<1>4. PICK g : g = [f EXCEPT !.do = "join"]
  OBVIOUS
<1>5. /\ g \in FrameSet /\ g.do = "join" /\ g.else = f.else /\ g.node = f.node
      /\ g.clause = f.clause /\ g.in = f.in /\ g.end = f.end
  BY <1>2, <1>4 DEF FrameSet, Dos, Joining
<1>6. Waits(g) = Waits(f) /\ Owns(g) = Owns(f)
  BY <1>2, <1>5 DEF Waits, Owns, HereOf
<1>7. FrameOK(g) /\ Held(blocks, g)
  BY <1>2, <1>3, <1>5 DEF FrameOK, Held, Kinds, Conditional, Operated, Joining, HereOf
<1>8. /\ Frames(blocks, r) /\ Keeps(blocks, blocks, AllOwned(r)) /\ Owns(g) \cap AllOwned(r) = {} /\ Fits(r, g)
      /\ Well(blocks, cur, AllWaiting(r) \cup Waits(g), AllOwned(r) \cup Owns(g))
  BY <1>1, <1>2, <1>5, <1>6, KeepsSame, FitsLike DEF Stands
<1>9. PICK h : h = Block(f.node, f.clause)
  OBVIOUS
<1>10. Starts(blocks, h, f.node) /\ h.do = "block"
  BY <1>2, <1>3, <1>9, BlockFrame DEF Current
<1>11. Follows(g, h) /\ Ready(blocks, cur, h)
  BY <1>5, <1>10 DEF Follows, Ready, Starts, Open
<1>12. SoundAt(blocks, cur, Append(Append(r, g), h))
  BY <1>7, <1>8, <1>10, <1>11, ToCall DEF Starts
<1>13. work' = Append(Append(r, g), h) /\ blocks' = blocks /\ cur' = cur /\ val' = val
  BY <1>1, <1>2, <1>4, <1>9 DEF EmitElse, Continues
<1> QED
  BY <1>12, <1>13 DEF Continued, Current

(* The end of a clause that is not the last.                                *)
LEMMA JoinClauseSound ==
  ASSUME Current, work # <<>>, JoinClause
  PROVE  Continued
<1>1. PICK r, f, R, S : Stands(r, f, R, S) /\ Continues(r)
  BY Standing
<1>2. /\ f = Top /\ f \in FrameSet /\ FrameOK(f) /\ f.do \in {"join", "skipped"} /\ f.node \in AllNodes
      /\ HereOf(f).when # <<>>
  BY <1>1 DEF JoinClause, Stands, Here, HereOf
<1>3. /\ f.node.k \in Conditional /\ f.clause \in DOMAIN f.node.clauses /\ f.else # f.end /\ f.clause \in Nat \ {0}
  BY <1>2 DEF FrameOK, Joining, FrameSet
<1>4. Waits(f) = {f.else, f.end} /\ Owns(f) = {f.else, f.end}
  BY <1>2 DEF Waits, Owns
<1>5. PICK W, O, D : /\ W = S \cup {f.else, f.end} /\ O = R \cup {f.else, f.end}
                     /\ D = IF HasTerminator(blocks, cur) THEN {} ELSE {f.end}
  OBVIOUS
<1>6. /\ Well(blocks, cur, W, O) /\ O \subseteq DOMAIN blocks /\ S \subseteq R
      /\ f.else \notin R /\ f.end \notin R
  BY <1>1, <1>4, <1>5 DEF Stands
<1>7. PICK mid, new : mid = terminate_with_br(blocks, f.end) /\ new = append_block(mid, f.else)
  OBVIOUS
<1>8. Grown(blocks, mid, cur, W, O, D, TRUE) /\ DOMAIN mid = DOMAIN blocks
  <2>1. f.end \in O
    BY <1>5
  <2> QED
    BY <2>1, <1>5, <1>6, <1>7, TerminateGrows DEF Grown
<1>9. Moved(blocks, new, cur, D, f.else, S \cup {f.end}, R \cup {f.end})
  <2>1. /\ W \ {f.else} = S \cup {f.end} /\ f.else \in W
        /\ S \cup {f.end} \subseteq R \cup {f.end} /\ R \cup {f.end} \subseteq O
    BY <1>3, <1>5, <1>6
  <2> QED
    BY <2>1, <1>7, <1>8, PlaceAndMoveOn
<1>10. Incoming(f) \in IncomingSet /\ (IsExpr(f.node) => Gathers(new, f.end, Incoming(f)))
  BY <1>1, <1>2, <1>5, <1>9, IncomingGathers DEF Moved
<1>11. PICK c : c = f.clause + 1
  OBVIOUS
<1>12. c \in Nat \ {0}
  BY <1>3, <1>11
<1>13. PICK g : g = [f EXCEPT !.do = "clause", !.clause = c, !.at = 1, !.in = Incoming(f)]
  OBVIOUS
<1>14. /\ g \in FrameSet /\ g.do = "clause" /\ g.node = f.node /\ g.clause = c /\ g.in = Incoming(f) /\ g.end = f.end
  <2>1. PICK in : in = Incoming(f)
    OBVIOUS
  <2>2. g = [f EXCEPT !.do = "clause", !.clause = c, !.at = 1, !.in = in] /\ in \in IncomingSet
    BY <2>1, <1>10, <1>13
  <2>3. "clause" \in Dos
    BY DEF Dos, Joining
  <2>4. /\ g \in FrameSet /\ g.do = "clause" /\ g.node = f.node /\ g.clause = c /\ g.in = in /\ g.end = f.end
    <3>1. PICK a : a = 1
      OBVIOUS
    <3>2. a \in Nat \ {0} /\ g = [f EXCEPT !.do = "clause", !.clause = c, !.at = a, !.in = in]
      BY <2>2, <3>1
    <3> QED
      BY <2>2, <2>3, <3>2, <1>2, <1>12 DEF FrameSet
  <2> QED
    BY <2>1, <2>4
<1>15. Waits(g) = {f.end} /\ Owns(g) = {f.end}
  BY <1>14 DEF Waits, Owns
<1>16. IsExpr(f.node) => c \in DOMAIN f.node.clauses
  <2>1. SUFFICES ASSUME IsExpr(f.node) PROVE c \in DOMAIN f.node.clauses
    OBVIOUS
  <2>2. /\ HasElse(f.node) /\ f.node.clauses \in Seq([when : Seq(AllNodes), stmts : Seq(AllNodes), last : Seq(AllNodes)])
    BY <2>1, <1>2, <1>3, NodeFacts DEF Current, WellShaped, IsExpr, Conditional
  <2>3. f.clause # Len(f.node.clauses)
    BY <2>2, <1>2 DEF HasElse, Last, HereOf
  <2> QED
    BY <2>2, <2>3, <1>3, <1>11, LenProperties
<1>17. FrameOK(g)
  BY <1>3, <1>14, <1>16 DEF FrameOK, Kinds, Conditional, Operated, Joining
<1>18. Held(new, g)
  BY <1>10, <1>14 DEF Held
<1>19. Keeps(blocks, new, AllOwned(r)) /\ Frames(blocks, r) /\ Owns(g) \cap AllOwned(r) = {}
  <2>1. R \subseteq DOMAIN blocks /\ R \cap D = {}
    BY <1>5, <1>6
  <2> QED
    BY <2>1, <1>1, <1>6, <1>9, <1>15, MovedKeeps DEF Stands
<1>20. Well(new, f.else, AllWaiting(r) \cup Waits(g), AllOwned(r) \cup Owns(g)) /\ Ready(new, f.else, g)
  BY <1>1, <1>9, <1>14, <1>15 DEF Stands, Moved, Ready
<1>21. Fits(r, g)
  BY <1>1, <1>2, <1>14, FitsLike
<1>22. SoundAt(new, f.else, Append(r, g))
  BY <1>17, <1>18, <1>19, <1>20, <1>21, ToGoOn
<1>23. work' = Append(r, g) /\ blocks' = new /\ cur' = f.else /\ val' = val
  BY <1>1, <1>2, <1>7, <1>11, <1>13 DEF JoinClause, Continues
<1> QED
  BY <1>22, <1>23 DEF Continued, Current

(* The end of the last clause.                                              *)
LEMMA JoinAllSound ==
  ASSUME Current, work # <<>>, JoinAll, ~Derails
  PROVE  Continued
<1>1. PICK r, f, R, S : Stands(r, f, R, S) /\ Continues(r) /\ r = Front(work)
  BY Standing
<1>2. f = Top /\ f \in FrameSet /\ FrameOK(f) /\ f.node \in AllNodes /\ AllJoined
  BY <1>1 DEF JoinAll, Stands
<1>3. /\ f.do \in Joining /\ (f.do \in {"join", "skipped"} \/ ~IsExpr(f.node)) /\ r # <<>>
      /\ Waits(f) = {f.end} /\ Owns(f) = {f.end}
  <2>1. CASE f.do = "clause" /\ f.clause > Len(f.node.clauses)
    <3>1. f.node.clauses \in Seq([when : Seq(AllNodes), stmts : Seq(AllNodes), last : Seq(AllNodes)])
      BY <1>2, NodeFacts DEF Current
    <3>2. f.clause \notin DOMAIN f.node.clauses
      BY <3>1, <2>1, <1>2, LenProperties DEF FrameSet
    <3> QED
      BY <3>2, <2>1, <1>1, <1>2 DEF FrameOK, Joining, Waits, Owns, Stands
  <2>2. CASE f.do \in {"join", "skipped"} /\ Here.when = <<>>
    BY <2>2, <1>1, <1>2 DEF Here, HereOf, Joining, Waits, Owns, Stands
  <2> QED
    BY <2>1, <2>2, <1>2 DEF AllJoined
<1>4. PICK W, O, D : /\ W = S \cup {f.end} /\ O = R \cup {f.end}
                     /\ D = IF HasTerminator(blocks, cur) THEN {} ELSE {f.end}
  OBVIOUS
<1>5. /\ Well(blocks, cur, W, O) /\ O \subseteq DOMAIN blocks /\ S \subseteq R /\ f.end \notin R
  BY <1>1, <1>3, <1>4 DEF Stands
<1>6. PICK mid, bs : mid = terminate_with_br(blocks, f.end) /\ bs = append_block(mid, f.end)
  OBVIOUS
<1>7. Grown(blocks, mid, cur, W, O, D, TRUE) /\ DOMAIN mid = DOMAIN blocks
  <2>1. f.end \in O
    BY <1>4
  <2> QED
    BY <2>1, <1>4, <1>5, <1>6, TerminateGrows DEF Grown
<1>8. Moved(blocks, bs, cur, D, f.end, S, R)
  <2>1. W \ {f.end} = S /\ f.end \in W /\ R \subseteq O
    BY <1>4, <1>5
  <2> QED
    BY <2>1, <1>5, <1>6, <1>7, PlaceAndMoveOn
<1>9. PICK in : in = Incoming(f)
  OBVIOUS
<1>10. IsExpr(f.node) => in \in IncomingSet /\ Gathers(bs, f.end, in)
  <2>1. SUFFICES ASSUME IsExpr(f.node) PROVE in \in IncomingSet /\ Gathers(bs, f.end, in)
    OBVIOUS
  <2> QED
    BY <2>1, <1>1, <1>3, <1>4, <1>8, <1>9, IncomingGathers DEF Moved
<1>11. Keeps(blocks, bs, AllOwned(r)) /\ Frames(blocks, r) /\ R = AllOwned(r) /\ S = AllWaiting(r) /\ Fits(r, f)
  <2>1. R \subseteq DOMAIN blocks /\ R \cap D = {}
    BY <1>4, <1>5
  <2> QED
    BY <2>1, <1>1, <1>8, MovedKeeps DEF Stands
<1>12. CASE IsExpr(f.node) /\ in # <<>>
  <2>1. PICK new : new = Put(bs, f.end, Phi(in))
    OBVIOUS
  <2>2. /\ Well(new, f.end, S, R) /\ ~HasTerminator(new, f.end) /\ DOMAIN new = DOMAIN bs
        /\ \A b \in DOMAIN bs : bs[b].placed => new[b].placed
        /\ \A b : PredsIn(new, b) = PredsIn(bs, b)
    BY <2>1, <1>5, <1>8, <1>10, <1>12, PhiKeeps DEF Moved
  <2>3. Keeps(blocks, new, AllOwned(r))
    <3>1. AllOwned(r) \subseteq DOMAIN bs
      BY <1>4, <1>5, <1>8, <1>11 DEF Moved
    <3> QED
      BY <3>1, <2>2, <1>11 DEF Keeps
  <2>4. SoundAt(new, f.end, r)
    BY <2>2, <2>3, <1>11, ToReturn
  <2>5. f.end \in Nat
    BY <1>2 DEF FrameSet
  <2>6. Value("", f.end) \in ValueSet
    BY <2>5, InstrTyped
  <2>7. blocks' = new /\ cur' = f.end /\ val' = Value("", f.end) /\ work' = r
    BY <2>1, <1>1, <1>2, <1>6, <1>9, <1>12 DEF JoinAll, Continues
  <2> QED
    BY <2>4, <2>6, <2>7 DEF Continued
<1>13. CASE ~IsExpr(f.node)
  <2>1. SoundAt(bs, f.end, r)
    BY <1>8, <1>11, <1>13, ToReturn DEF Moved
  <2>2. blocks' = bs /\ cur' = f.end /\ val' = val /\ work' = r
    BY <1>1, <1>2, <1>6, <1>13 DEF JoinAll, Continues
  <2> QED
    BY <2>1, <2>2 DEF Continued, Current
<1>14. CASE IsExpr(f.node) /\ in = <<>>
  <2>1. blocks' = bs /\ cur' = f.end /\ val' = val /\ Throws
    BY <1>1, <1>2, <1>6, <1>9, <1>14 DEF JoinAll
  <2>2. ThrowsAtJoin
    BY <1>2, <1>9, <1>14 DEF ThrowsAtJoin
  <2>3. \A k \in 1..(Len(work) - 1) : k > Handler => work[k].do \in {"operand", "start"}
    BY <1>1, <1>3, <2>2, OnlyOperands
  <2>4. work[Handler].do # "join"
    BY <2>2 DEF Derails
  <2>5. work \in Seq(FrameSet)
    BY DEF Current, SoundAt, Frames
  <2>6. Well(bs, f.end, AllWaiting(r), AllOwned(r))
    BY <1>8, <1>11 DEF Moved
  <2>7. SoundAt(bs, f.end, work')
    BY <1>1, <1>3, <1>11, <2>1, <2>3, <2>4, <2>5, <2>6, ToThrow
  <2> QED
    BY <2>1, <2>7 DEF Continued, Current
<1> QED
  BY <1>12, <1>13, <1>14

(* Several new blocks at once are new blocks one after the other.           *)
LEMMA MoreBlocks ==
  ASSUME NEW s \in Seq(BlockSet), NEW x \in BlockSet
  PROVE  /\ s \o [i \in 1..2 |-> x] = Append(Append(s, x), x)
         /\ s \o [i \in 1..3 |-> x] = Append(Append(Append(s, x), x), x)
<1>1. PICK n : n = Len(s)
  OBVIOUS
<1>2. n \in Nat
  BY <1>1, LenProperties
<1>3. PICK t, t1 : t = [i \in 1..2 |-> x] /\ t1 = [i \in 1..3 |-> x]
  OBVIOUS
<1>4. t \in Seq(BlockSet) /\ Len(t) = 2 /\ t1 \in Seq(BlockSet) /\ Len(t1) = 3
  <2>1. t \in [1..2 -> BlockSet] /\ t1 \in [1..3 -> BlockSet]
    BY <1>3
  <2>2. t \in Seq(BlockSet) /\ t1 \in Seq(BlockSet)
    BY <2>1, SeqDef
  <2>3. DOMAIN t = 1..2 /\ DOMAIN t1 = 1..3
    BY <1>3
  <2>4. DOMAIN t = 1..Len(t) /\ Len(t) \in Nat /\ DOMAIN t1 = 1..Len(t1) /\ Len(t1) \in Nat
    BY <2>2, LenProperties
  <2> QED
    BY <2>2, <2>3, <2>4
<1>5. (\A i \in 1..2 : t[i] = x) /\ (\A i \in 1..3 : t1[i] = x)
  BY <1>3
<1>6. PICK u, u1, v, v1 : /\ u = s \o t /\ u1 = s \o t1
                          /\ v = Append(Append(s, x), x) /\ v1 = Append(v, x)
  OBVIOUS
<1>7. u \in Seq(BlockSet) /\ Len(u) = n + 2 /\ \A i \in 1..(n + 2) : u[i] = IF i <= n THEN s[i] ELSE x
  <2>1. /\ s \o t \in Seq(BlockSet) /\ Len(s \o t) = Len(s) + Len(t)
        /\ \A i \in 1..Len(s) + Len(t) : (s \o t)[i] = IF i <= Len(s) THEN s[i] ELSE t[i - Len(s)]
    BY <1>4, ConcatProperties
  <2>2. \A i \in 1..(n + 2) : i <= n \/ i - n \in 1..2
    BY <1>2
  <2> QED
    BY <2>1, <2>2, <1>1, <1>4, <1>5, <1>6
<1>8. u1 \in Seq(BlockSet) /\ Len(u1) = n + 3 /\ \A i \in 1..(n + 3) : u1[i] = IF i <= n THEN s[i] ELSE x
  <2>1. /\ s \o t1 \in Seq(BlockSet) /\ Len(s \o t1) = Len(s) + Len(t1)
        /\ \A i \in 1..Len(s) + Len(t1) : (s \o t1)[i] = IF i <= Len(s) THEN s[i] ELSE t1[i - Len(s)]
    BY <1>4, ConcatProperties
  <2>2. \A i \in 1..(n + 3) : i <= n \/ i - n \in 1..3
    BY <1>2
  <2> QED
    BY <2>1, <2>2, <1>1, <1>4, <1>5, <1>6
<1>9. v \in Seq(BlockSet) /\ Len(v) = n + 2 /\ v[n + 1] = x /\ v[n + 2] = x /\ \A i \in 1..n : v[i] = s[i]
  BY <1>1, <1>2, <1>6, AppendProperties
<1>10. v1 \in Seq(BlockSet) /\ Len(v1) = n + 3 /\ v1[n + 3] = x /\ \A i \in 1..(n + 2) : v1[i] = v[i]
  BY <1>2, <1>6, <1>9, AppendProperties
<1>11. u = v
  <2>1. \A i \in 1..(n + 2) : i \in 1..n \/ i = n + 1 \/ i = n + 2
    BY <1>2
  <2>2. \A i \in 1..(n + 2) : u[i] = v[i]
    BY <2>1, <1>2, <1>7, <1>9
  <2> QED
    BY <2>2, <1>7, <1>9, SeqEqual
<1>12. u1 = v1
  <2>1. \A i \in 1..(n + 3) : i \in 1..n \/ i = n + 1 \/ i = n + 2 \/ i = n + 3
    BY <1>2
  <2>2. v1[n + 1] = x /\ v1[n + 2] = x /\ \A i \in 1..n : v1[i] = s[i]
    BY <1>2, <1>9, <1>10
  <2>3. \A i \in 1..(n + 3) : u1[i] = v1[i]
    BY <2>1, <2>2, <1>2, <1>8, <1>10
  <2> QED
    BY <2>3, <1>8, <1>10, SeqEqual
<1> QED
  BY <1>3, <1>6, <1>11, <1>12

ThreeNew(bs, c, W, O, n, new) ==
    /\ Well(new, c, W \cup {n, n + 1, n + 2}, O \cup {n, n + 1, n + 2})
    /\ n \in Nat \ {0} /\ n \notin DOMAIN bs /\ n + 1 \notin DOMAIN bs /\ n + 2 \notin DOMAIN bs
    /\ DOMAIN new = DOMAIN bs \cup {n, n + 1, n + 2}
    /\ new[n].placed /\ new[n + 1].placed /\ new[n + 2].placed /\ \A b \in DOMAIN bs : new[b] = bs[b]
    /\ HasTerminator(new, c) <=> HasTerminator(bs, c)
    /\ \A b : PredsIn(new, b) = PredsIn(bs, b)

(* The blocks of a loop, which are in the function and wait.                *)
LEMMA ThreeNewKeep ==
  ASSUME NEW bs, NEW c, NEW W, NEW O, Well(bs, c, W, O)
  PROVE  ThreeNew(bs, c, W, O, Len(bs) + 1, bs \o [i \in 1..3 |-> NewBlock(TRUE)])
<1>1. PICK one, n : one = Append(bs, NewBlock(TRUE)) /\ n = Len(bs) + 1
  OBVIOUS
<1>2. PICK m, two : m = n + 1 /\ two = Append(one, NewBlock(TRUE))
  OBVIOUS
<1>3. PICK l, new : l = n + 2 /\ new = Append(two, NewBlock(TRUE))
  OBVIOUS
<1>4. bs \in Seq(BlockSet)
  BY DEF Well
<1>5. NewBlock(TRUE) \in BlockSet
  <2>1. <<>> \in Seq(Instrs)
    BY EmptySeq
  <2> QED
    BY <2>1 DEF NewBlock, BlockSet
<1>6. bs \o [i \in 1..3 |-> NewBlock(TRUE)] = new
  BY <1>1, <1>2, <1>3, <1>4, <1>5, MoreBlocks
<1>7. /\ Well(one, c, W \cup {n}, O \cup {n})
      /\ n \in Nat \ {0} /\ n \notin DOMAIN bs /\ DOMAIN one = DOMAIN bs \cup {n} /\ Len(one) = n
      /\ one[n].placed /\ \A b \in DOMAIN bs : one[b] = bs[b]
      /\ HasTerminator(one, c) <=> HasTerminator(bs, c)
      /\ \A b : PredsIn(one, b) = PredsIn(bs, b)
  <2>1. OneNew(bs, c, W, O, TRUE, n, one)
    BY <1>1, NewKeeps
  <2> QED
    BY <2>1 DEF OneNew
<1>8. /\ Well(two, c, W \cup {n} \cup {m}, O \cup {n} \cup {m}) /\ Len(two) = m
      /\ m \notin DOMAIN one /\ DOMAIN two = DOMAIN one \cup {m}
      /\ two[m].placed /\ \A b \in DOMAIN one : two[b] = one[b]
      /\ HasTerminator(two, c) <=> HasTerminator(one, c)
      /\ \A b : PredsIn(two, b) = PredsIn(one, b)
  <2>1. OneNew(one, c, W \cup {n}, O \cup {n}, TRUE, m, two)
    BY <1>2, <1>7, NewKeeps
  <2> QED
    BY <2>1 DEF OneNew
<1>9. l = m + 1
  BY <1>2, <1>3, <1>7
<1>10. /\ Well(new, c, W \cup {n} \cup {m} \cup {l}, O \cup {n} \cup {m} \cup {l})
       /\ l \notin DOMAIN two /\ DOMAIN new = DOMAIN two \cup {l}
       /\ new[l].placed /\ \A b \in DOMAIN two : new[b] = two[b]
       /\ HasTerminator(new, c) <=> HasTerminator(two, c)
       /\ \A b : PredsIn(new, b) = PredsIn(two, b)
  <2>1. OneNew(two, c, W \cup {n} \cup {m}, O \cup {n} \cup {m}, TRUE, l, new)
    BY <1>3, <1>8, <1>9, NewKeeps
  <2> QED
    BY <2>1 DEF OneNew
<1>11. /\ W \cup {n} \cup {m} \cup {l} = W \cup {n, m, l} /\ O \cup {n} \cup {m} \cup {l} = O \cup {n, m, l}
       /\ DOMAIN new = DOMAIN bs \cup {n, m, l}
       /\ n \notin DOMAIN bs /\ m \notin DOMAIN bs /\ l \notin DOMAIN bs
  BY <1>7, <1>8, <1>10
<1>12. /\ new[n].placed /\ new[m].placed /\ new[l].placed /\ \A b \in DOMAIN bs : new[b] = bs[b]
       /\ HasTerminator(new, c) <=> HasTerminator(bs, c)
       /\ \A b : PredsIn(new, b) = PredsIn(bs, b)
  BY <1>7, <1>8, <1>10
<1>13. ThreeNew(bs, c, W, O, n, new)
  BY <1>2, <1>3, <1>7, <1>10, <1>11, <1>12 DEF ThreeNew
<1> QED
  BY <1>1, <1>6, <1>13

(* What the first clause of a loop or of a postfix if has.                  *)
LEMMA LoopFacts ==
  ASSUME Current, NEW n \in AllNodes, n.k \in {"while_stmt", "postfix_if", "for_stmt"}
  PROVE  /\ 1 \in DOMAIN n.clauses
         /\ n.k # "for_stmt" => n.clauses[1].when[1] \in AllNodes /\ IsExpr(n.clauses[1].when[1])
         /\ n.k = "postfix_if" => n.clauses[1].stmts[1] \in AllNodes
<1>1. /\ n.clauses \in Seq([when : Seq(AllNodes), stmts : Seq(AllNodes), last : Seq(AllNodes)])
      /\ n.clauses # <<>>
      /\ n.k # "for_stmt" => n.clauses[1].when # <<>>
      /\ n.k = "postfix_if" => n.clauses[1].stmts # <<>>
  BY NodeFacts DEF Current, WellShaped
<1>2. 1 \in DOMAIN n.clauses
  BY <1>1, EmptySeq, LenProperties
<1>3. PICK c : c = n.clauses[1]
  OBVIOUS
<1>4. /\ c.when \in Seq(AllNodes) /\ c.stmts \in Seq(AllNodes)
      /\ \A j \in DOMAIN c.when : c.when[j] \in AllNodes /\ IsExpr(c.when[j])
      /\ \A j \in DOMAIN c.stmts : c.stmts[j] \in AllNodes
  BY <1>2, <1>3, ClauseFacts DEF Current
<1>5. /\ c.when # <<>> => 1 \in DOMAIN c.when
      /\ c.stmts # <<>> => 1 \in DOMAIN c.stmts
  BY <1>4, EmptySeq, LenProperties
<1> QED
  BY <1>1, <1>2, <1>3, <1>4, <1>5

(* The head of a for with a condition.                                      *)
LEMMA EmitWhileSound ==
  ASSUME Current, work # <<>>, EmitWhile
  PROVE  Continued
<1>1. PICK r, f, R, S : Stands(r, f, R, S) /\ Continues(r)
  BY Standing
<1>2. f = Top /\ f \in FrameSet /\ FrameOK(f) /\ f.do = "while_stmt" /\ f.node \in AllNodes
  BY <1>1 DEF EmitWhile, Stands
<1>3. f.node.k = "while_stmt" /\ f.clause = 1 /\ Waits(f) = {} /\ Owns(f) = {} /\ ~HasTerminator(blocks, cur)
  BY <1>1, <1>2 DEF FrameOK, Kinds, Waits, Owns, Stands, Ready, Open
<1>4. Well(blocks, cur, S, R) /\ R \subseteq DOMAIN blocks /\ S \subseteq R
  BY <1>1, <1>3 DEF Stands
<1>5. PICK n, mid : n = Len(blocks) + 1 /\ mid = blocks \o [i \in 1..3 |-> NewBlock(TRUE)]
  OBVIOUS
<1>6. PICK m, l : m = n + 1 /\ l = n + 2
  OBVIOUS
<1>7. /\ Well(mid, cur, S \cup {n, m, l}, R \cup {n, m, l})
      /\ n \in Nat \ {0} /\ n \notin DOMAIN blocks /\ m \notin DOMAIN blocks /\ l \notin DOMAIN blocks
      /\ DOMAIN mid = DOMAIN blocks \cup {n, m, l}
      /\ mid[n].placed /\ mid[m].placed /\ mid[l].placed /\ \A b \in DOMAIN blocks : mid[b] = blocks[b]
      /\ ~HasTerminator(mid, cur) /\ \A b : PredsIn(mid, b) = PredsIn(blocks, b)
  <2>1. ThreeNew(blocks, cur, S, R, n, mid)
    BY <1>4, <1>5, ThreeNewKeep
  <2> QED
    BY <2>1, <1>3, <1>6 DEF ThreeNew
<1>8. m \in Nat /\ l \in Nat /\ n # m /\ n # l /\ m # l
  BY <1>6, <1>7
<1>9. PICK new : new = Put(mid, cur, Br(n))
  OBVIOUS
<1>10. Grown(mid, new, cur, S \cup {n, m, l}, R \cup {n, m, l}, {n}, TRUE)
  BY <1>7, <1>9, BrGrows
<1>11. Moved(mid, new, cur, {n}, n, S \cup {m, l}, R \cup {n, m, l})
  <2>1. (S \cup {n, m, l}) \ {n} = S \cup {m, l} /\ S \cup {m, l} \subseteq R \cup {n, m, l}
    BY <1>4, <1>7, <1>8
  <2>2. new[n].placed
    BY <1>7, <1>10 DEF Grown
  <2> QED
    BY <2>1, <2>2, <1>10, MoveOn
<1>12. PICK g : g = [f EXCEPT !.do = "loop", !.target = NoValue, !.then = n, !.end = l]
  OBVIOUS
<1>13. /\ g \in FrameSet /\ g.do = "loop" /\ g.node = f.node /\ g.then = n /\ g.end = l
  <2>1. NoValue \in ValueSet /\ "loop" \in Dos
    BY InstrTyped DEF Dos
  <2> QED
    BY <2>1, <1>2, <1>7, <1>8, <1>12 DEF FrameSet
<1>14. Waits(g) = {m, l} /\ Owns(g) = {n, m, l}
  BY <1>6, <1>13 DEF Waits, Owns
<1>15. FrameOK(g)
  BY <1>3, <1>6, <1>8, <1>13 DEF FrameOK, Kinds, Conditional, Operated, Joining
<1>16. Held(new, g)
  <2>1. new[n].placed /\ new[m].placed /\ new[l].placed
    BY <1>7, <1>10 DEF Grown
  <2> QED
    BY <2>1, <1>13, <1>14 DEF Held, Joining
<1>17. Keeps(blocks, new, AllOwned(r)) /\ Frames(blocks, r) /\ Owns(g) \cap AllOwned(r) = {}
  <2>1. R \subseteq DOMAIN mid /\ R \cap {n} = {}
    BY <1>4, <1>7
  <2>2. Keeps(mid, new, R)
    BY <2>1, <1>11, MovedKeeps
  <2>3. Keeps(blocks, new, R)
    BY <2>2, <1>4, <1>7 DEF Keeps
  <2> QED
    BY <2>3, <1>1, <1>4, <1>7, <1>14 DEF Stands
<1>18. Well(new, n, AllWaiting(r) \cup Waits(g), AllOwned(r) \cup Owns(g)) /\ ~HasTerminator(new, n)
  BY <1>1, <1>11, <1>14 DEF Stands, Moved
<1>19. Fits(r, g)
  BY <1>1, <1>2, <1>13, FitsLike
<1>20. PICK e : e = f.node.clauses[1].when[1]
  OBVIOUS
<1>21. Starts(new, emit(e), e) /\ IsExpr(e)
  BY <1>2, <1>3, <1>20, LoopFacts, EmitFrame DEF Current
<1>22. Follows(g, emit(e)) /\ Ready(new, n, emit(e))
  BY <1>13, <1>18, <1>21 DEF Follows, Ready, Starts
<1>23. SoundAt(new, n, Append(Append(r, g), emit(e)))
  BY <1>15, <1>16, <1>17, <1>18, <1>19, <1>21, <1>22, ToCall DEF Starts
<1>24. Here.when[1] = e /\ Fresh = n /\ Fresh + 2 = l
  BY <1>2, <1>3, <1>5, <1>6, <1>20 DEF Here, Fresh
<1>25. work' = Append(Append(r, g), emit(e)) /\ blocks' = new /\ cur' = n /\ val' = val
  BY <1>1, <1>2, <1>5, <1>9, <1>12, <1>24 DEF EmitWhile, Continues
<1> QED
  BY <1>23, <1>25 DEF Continued, Current

(* The head of a postfix if.                                                *)
LEMMA EmitPostfixIfSound ==
  ASSUME Current, work # <<>>, EmitPostfixIf
  PROVE  Continued
<1>1. PICK r, f, R, S : Stands(r, f, R, S) /\ Continues(r)
  BY Standing
<1>2. f = Top /\ f \in FrameSet /\ FrameOK(f) /\ f.do = "postfix_if" /\ f.node \in AllNodes
  BY <1>1 DEF EmitPostfixIf, Stands
<1>3. f.node.k = "postfix_if" /\ f.clause = 1 /\ Waits(f) = {} /\ Owns(f) = {} /\ ~HasTerminator(blocks, cur)
  BY <1>1, <1>2 DEF FrameOK, Kinds, Waits, Owns, Stands, Ready, Open
<1>4. Well(blocks, cur, S, R) /\ R \subseteq DOMAIN blocks
  BY <1>1, <1>3 DEF Stands
<1>5. PICK n, m, new : n = Len(blocks) + 1 /\ m = Len(blocks) + 2
                       /\ new = blocks \o <<NewBlock(TRUE), NewBlock(TRUE)>>
  OBVIOUS
<1>6. /\ Well(new, cur, S \cup {n, m}, R \cup {n, m})
      /\ n \in Nat /\ m \in Nat /\ m = n + 1 /\ n \notin DOMAIN blocks /\ m \notin DOMAIN blocks
      /\ new[n].placed /\ new[m].placed /\ \A b \in DOMAIN blocks : new[b] = blocks[b]
      /\ ~HasTerminator(new, cur) /\ \A b : PredsIn(new, b) = PredsIn(blocks, b)
  <2>1. TwoNew(blocks, cur, S, R, TRUE, TRUE, n, m, new)
    BY <1>4, <1>5, TwoNewKeep
  <2> QED
    BY <2>1, <1>3 DEF TwoNew
<1>7. PICK g : g = [f EXCEPT !.do = "postfix", !.then = n, !.end = m]
  OBVIOUS
<1>8. g \in FrameSet /\ g.do = "postfix" /\ g.node = f.node /\ g.then = n /\ g.end = m /\ g.clause = f.clause
  <2>1. "postfix" \in Dos
    BY DEF Dos
  <2> QED
    BY <2>1, <1>2, <1>6, <1>7 DEF FrameSet
<1>9. Waits(g) = {n, m} /\ Owns(g) = {n, m}
  BY <1>8 DEF Waits, Owns
<1>10. FrameOK(g)
  <2>1. m # n
    BY <1>6
  <2> QED
    BY <2>1, <1>3, <1>8 DEF FrameOK, Kinds, Conditional, Operated, Joining
<1>11. Held(new, g)
  BY <1>6, <1>8, <1>9 DEF Held, Joining
<1>12. Keeps(blocks, new, AllOwned(r)) /\ Frames(blocks, r) /\ Owns(g) \cap AllOwned(r) = {}
  BY <1>1, <1>4, <1>6, <1>9 DEF Keeps, Stands
<1>13. Well(new, cur, AllWaiting(r) \cup Waits(g), AllOwned(r) \cup Owns(g))
  BY <1>1, <1>6, <1>9 DEF Stands
<1>14. Fits(r, g)
  BY <1>1, <1>2, <1>8, FitsLike
<1>15. PICK e : e = f.node.clauses[1].when[1]
  OBVIOUS
<1>16. Starts(new, emit(e), e) /\ IsExpr(e)
  BY <1>2, <1>3, <1>15, LoopFacts, EmitFrame DEF Current
<1>17. Follows(g, emit(e)) /\ Ready(new, cur, emit(e))
  BY <1>6, <1>8, <1>16 DEF Follows, Ready, Starts
<1>18. SoundAt(new, cur, Append(Append(r, g), emit(e)))
  BY <1>10, <1>11, <1>12, <1>13, <1>14, <1>16, <1>17, ToCall DEF Starts
<1>19. Here.when[1] = e /\ Fresh = n /\ Fresh + 1 = m
  BY <1>2, <1>3, <1>5, <1>6, <1>15 DEF Here, Fresh
<1>20. blocks \o [i \in 1..2 |-> NewBlock(TRUE)] = new
  <2>1. blocks \in Seq(BlockSet) /\ NewBlock(TRUE) \in BlockSet
    <3>1. <<>> \in Seq(Instrs)
      BY EmptySeq
    <3> QED
      BY <3>1, <1>4 DEF NewBlock, BlockSet, Well
  <2> QED
    BY <2>1, <1>5, MoreBlocks, TwoMore
<1>21. work' = Append(Append(r, g), emit(e)) /\ blocks' = new /\ cur' = cur /\ val' = val
  BY <1>1, <1>2, <1>7, <1>19, <1>20 DEF EmitPostfixIf, Continues
<1> QED
  BY <1>18, <1>21 DEF Continued, Current

(* The test of a loop.                                                      *)
LEMMA EmitLoopTestSound ==
  ASSUME Current, work # <<>>, EmitLoopTest
  PROVE  Continued
<1>1. PICK r, f, R, S : Stands(r, f, R, S) /\ Continues(r)
  BY Standing
<1>2. /\ f = Top /\ f \in FrameSet /\ FrameOK(f) /\ f.do = "loop" /\ f.node \in AllNodes
      /\ Held(blocks, f)
  BY <1>1 DEF EmitLoopTest, Stands
<1>3. PICK n, l, m : n = f.then /\ l = f.end /\ m = n + 1
  OBVIOUS
<1>4. /\ f.node.k = "while_stmt" /\ l # m /\ n \in Nat /\ n # m
      /\ Waits(f) = {m, l} /\ Owns(f) = {n, m, l} /\ ~HasTerminator(blocks, cur)
  <2>1. f.node.k = "while_stmt" /\ l # m /\ n \in Nat
    BY <1>2, <1>3 DEF FrameOK, FrameSet
  <2>2. Waits(f) = {m, l} /\ Owns(f) = {n, m, l} /\ ~HasTerminator(blocks, cur)
    BY <1>1, <1>2, <1>3 DEF Waits, Owns, Stands, Ready, Open
  <2> QED
    BY <2>1, <2>2, <1>3
<1>5. PICK W, O : W = S \cup {m, l} /\ O = R \cup {n, m, l}
  OBVIOUS
<1>6. /\ Well(blocks, cur, W, O) /\ O \subseteq DOMAIN blocks /\ S \subseteq R /\ {n, m, l} \cap R = {}
      /\ blocks[n].placed /\ blocks[m].placed /\ blocks[l].placed
  BY <1>1, <1>2, <1>4, <1>5 DEF Stands, Held
<1>7. PICK new : new = Put(blocks, cur, CondBr(val, NoValue, m, l))
  OBVIOUS
<1>8. Grown(blocks, new, cur, W, O, {m, l}, TRUE)
  <2>1. val \in ValueSet /\ NoValue \in ValueSet /\ m \in O /\ l \in O
    BY <1>5, InstrTyped DEF Current
  <2> QED
    BY <2>1, <1>4, <1>6, <1>7, CondBrGrows
<1>9. Moved(blocks, new, cur, {m, l}, m, S \cup {l}, R \cup {n, l})
  <2>1. /\ S \cup {l} = W \ {m} /\ m \in W
        /\ S \cup {l} \subseteq R \cup {n, l} /\ R \cup {n, l} \subseteq O
    BY <1>4, <1>5, <1>6
  <2>2. new[m].placed
    BY <1>5, <1>6, <1>8 DEF Grown
  <2> QED
    BY <2>1, <2>2, <1>8, MoveOn
<1>10. PICK g : g = [f EXCEPT !.do = "body"]
  OBVIOUS
<1>11. g \in FrameSet /\ g.do = "body" /\ g.node = f.node /\ g.then = n /\ g.end = l
  BY <1>2, <1>3, <1>10 DEF FrameSet, Dos
<1>12. Waits(g) = {l} /\ Owns(g) = {n, l}
  BY <1>4, <1>11 DEF Waits, Owns
<1>13. FrameOK(g)
  BY <1>4, <1>11 DEF FrameOK, Kinds, Conditional, Operated, Joining
<1>14. Held(new, g)
  BY <1>5, <1>6, <1>9, <1>11, <1>12 DEF Held, Joining, Moved
<1>15. Keeps(blocks, new, AllOwned(r)) /\ Frames(blocks, r) /\ Owns(g) \cap AllOwned(r) = {}
  <2>1. R \subseteq DOMAIN blocks /\ R \cap {m, l} = {}
    BY <1>5, <1>6
  <2> QED
    BY <2>1, <1>1, <1>6, <1>9, <1>12, MovedKeeps DEF Stands
<1>16. Well(new, m, AllWaiting(r) \cup Waits(g), AllOwned(r) \cup Owns(g)) /\ Fits(r, g)
  BY <1>1, <1>2, <1>9, <1>11, <1>12, FitsLike DEF Stands, Moved
<1>17. PICK h : h = Block(f.node, 1)
  OBVIOUS
<1>18. Starts(new, h, f.node) /\ h.do = "block"
  BY <1>2, <1>4, <1>17, LoopFacts, BlockFrame DEF Current
<1>19. Follows(g, h) /\ Ready(new, m, h)
  BY <1>11, <1>18 DEF Follows, Ready, Starts, Open
<1>20. SoundAt(new, m, Append(Append(r, g), h))
  BY <1>13, <1>14, <1>15, <1>16, <1>18, <1>19, ToCall DEF Starts
<1>21. work' = Append(Append(r, g), h) /\ blocks' = new /\ cur' = m /\ val' = val
  BY <1>1, <1>2, <1>3, <1>7, <1>10, <1>17 DEF EmitLoopTest, Continues
<1> QED
  BY <1>20, <1>21 DEF Continued, Current

(* The test of a postfix if.                                                *)
LEMMA EmitPostfixTestSound ==
  ASSUME Current, work # <<>>, EmitPostfixTest
  PROVE  Continued
<1>1. PICK r, f, R, S : Stands(r, f, R, S) /\ Continues(r)
  BY Standing
<1>2. /\ f = Top /\ f \in FrameSet /\ FrameOK(f) /\ f.do = "postfix" /\ f.node \in AllNodes
      /\ Held(blocks, f)
  BY <1>1 DEF EmitPostfixTest, Stands
<1>3. PICK n, l : n = f.then /\ l = f.end
  OBVIOUS
<1>4. /\ f.node.k = "postfix_if" /\ l # n /\ f.clause = 1
      /\ Waits(f) = {n, l} /\ Owns(f) = {n, l} /\ ~HasTerminator(blocks, cur)
  BY <1>1, <1>2, <1>3 DEF FrameOK, Waits, Owns, Stands, Ready, Open
<1>5. PICK W, O : W = S \cup {n, l} /\ O = R \cup {n, l}
  OBVIOUS
<1>6. /\ Well(blocks, cur, W, O) /\ O \subseteq DOMAIN blocks /\ S \subseteq R /\ {n, l} \cap R = {}
      /\ blocks[n].placed /\ blocks[l].placed
  BY <1>1, <1>2, <1>4, <1>5 DEF Stands, Held
<1>7. PICK t, u : IF f.node.name = "unless" THEN t = l /\ u = n ELSE t = n /\ u = l
  OBVIOUS
<1>8. PICK new : new = Put(blocks, cur, CondBr(val, NoValue, t, u))
  OBVIOUS
<1>9. Grown(blocks, new, cur, W, O, {n, l}, TRUE)
  <2>1. val \in ValueSet /\ NoValue \in ValueSet /\ t \in O /\ u \in O /\ {t, u} = {n, l}
    BY <1>5, <1>7, InstrTyped DEF Current
  <2>2. Grown(blocks, new, cur, W, O, {t, u}, TRUE)
    BY <2>1, <1>4, <1>6, <1>8, CondBrGrows
  <2> QED
    BY <2>1, <2>2
<1>10. Moved(blocks, new, cur, {n, l}, n, S \cup {l}, R \cup {l})
  <2>1. /\ S \cup {l} = W \ {n} /\ n \in W
        /\ S \cup {l} \subseteq R \cup {l} /\ R \cup {l} \subseteq O
    BY <1>4, <1>5, <1>6
  <2>2. new[n].placed
    BY <1>5, <1>6, <1>9 DEF Grown
  <2> QED
    BY <2>1, <2>2, <1>9, MoveOn
<1>11. PICK g : g = [f EXCEPT !.do = "body"]
  OBVIOUS
<1>12. g \in FrameSet /\ g.do = "body" /\ g.node = f.node /\ g.then = n /\ g.end = l
  BY <1>2, <1>3, <1>11 DEF FrameSet, Dos
<1>13. Waits(g) = {l} /\ Owns(g) = {l}
  BY <1>4, <1>12 DEF Waits, Owns
<1>14. FrameOK(g)
  BY <1>4, <1>12 DEF FrameOK, Kinds, Conditional, Operated, Joining
<1>15. Held(new, g)
  BY <1>5, <1>6, <1>10, <1>12, <1>13 DEF Held, Joining, Moved
<1>16. Keeps(blocks, new, AllOwned(r)) /\ Frames(blocks, r) /\ Owns(g) \cap AllOwned(r) = {}
  <2>1. R \subseteq DOMAIN blocks /\ R \cap {n, l} = {}
    BY <1>5, <1>6
  <2> QED
    BY <2>1, <1>1, <1>6, <1>10, <1>13, MovedKeeps DEF Stands
<1>17. /\ Well(new, n, AllWaiting(r) \cup Waits(g), AllOwned(r) \cup Owns(g)) /\ Fits(r, g)
       /\ ~HasTerminator(new, n)
  BY <1>1, <1>2, <1>10, <1>12, <1>13, FitsLike DEF Stands, Moved
<1>18. PICK e : e = f.node.clauses[1].stmts[1]
  OBVIOUS
<1>19. Starts(new, emit(e), e)
  BY <1>2, <1>4, <1>18, LoopFacts, EmitFrame DEF Current
<1>20. Follows(g, emit(e)) /\ Ready(new, n, emit(e))
  BY <1>12, <1>17, <1>19 DEF Follows, Ready, Starts, Open
<1>21. SoundAt(new, n, Append(Append(r, g), emit(e)))
  BY <1>14, <1>15, <1>16, <1>17, <1>19, <1>20, ToCall DEF Starts
<1>22. work' = Append(Append(r, g), emit(e)) /\ blocks' = new /\ cur' = n /\ val' = val
  <2>1. Here.stmts[1] = e
    BY <1>2, <1>4, <1>18 DEF Here
  <2> QED
    BY <2>1, <1>1, <1>2, <1>3, <1>7, <1>8, <1>11 DEF EmitPostfixTest, Continues
<1> QED
  BY <1>21, <1>22 DEF Continued, Current

(* The end of a loop with a condition and of a postfix if.                  *)
LEMMA LeaveBodySound ==
  ASSUME Current, work # <<>>, LeaveBody
  PROVE  Continued
<1>1. PICK r, f, R, S : Stands(r, f, R, S) /\ Continues(r)
  BY Standing
<1>2. /\ f = Top /\ f \in FrameSet /\ FrameOK(f) /\ f.do = "body" /\ f.node.k \in {"while_stmt", "postfix_if"}
      /\ Held(blocks, f)
  BY <1>1 DEF LeaveBody, Stands
<1>3. PICK t, l : t = (IF f.node.k = "while_stmt" THEN f.then ELSE f.end) /\ l = f.end
  OBVIOUS
<1>4. Waits(f) = {l} /\ Owns(f) = {t, l}
  BY <1>2, <1>3 DEF Waits, Owns
<1>5. PICK W, O, D : W = S \cup {l} /\ O = R \cup {t, l} /\ D = IF HasTerminator(blocks, cur) THEN {} ELSE {t}
  OBVIOUS
<1>6. /\ Well(blocks, cur, W, O) /\ O \subseteq DOMAIN blocks /\ S \subseteq R /\ {t, l} \cap R = {}
      /\ blocks[l].placed
  BY <1>1, <1>2, <1>4, <1>5 DEF Stands, Held
<1>7. PICK new : new = terminate_with_br(blocks, t)
  OBVIOUS
<1>8. Grown(blocks, new, cur, W, O, D, TRUE)
  <2>1. t \in O
    BY <1>5
  <2> QED
    BY <2>1, <1>5, <1>6, <1>7, TerminateGrows
<1>9. Moved(blocks, new, cur, D, l, S, R)
  <2>1. S = W \ {l} /\ l \in W /\ S \subseteq R /\ R \subseteq O
    BY <1>5, <1>6
  <2>2. new[l].placed
    BY <1>5, <1>6, <1>8 DEF Grown
  <2> QED
    BY <2>1, <2>2, <1>8, MoveOn
<1>10. Keeps(blocks, new, AllOwned(r)) /\ Frames(blocks, r)
  <2>1. R \subseteq DOMAIN blocks /\ R \cap D = {}
    BY <1>5, <1>6
  <2> QED
    BY <2>1, <1>1, <1>9, MovedKeeps DEF Stands
<1>11. Well(new, l, AllWaiting(r), AllOwned(r)) /\ Fits(r, f) /\ ~HasTerminator(new, l)
  BY <1>1, <1>9 DEF Stands, Moved
<1>12. SoundAt(new, l, r)
  BY <1>10, <1>11, ToReturn
<1>13. work' = r /\ blocks' = new /\ cur' = l /\ val' = val
  BY <1>1, <1>2, <1>3, <1>7 DEF LeaveBody, Continues
<1> QED
  BY <1>12, <1>13 DEF Continued, Current

(* The head of a for over an array or a container.                          *)
LEMMA EmitForSound ==
  ASSUME Current, work # <<>>, EmitFor
  PROVE  Continued
<1>1. PICK r, f, R, S : Stands(r, f, R, S) /\ Continues(r)
  BY Standing
<1>2. /\ f = Top /\ f \in FrameSet /\ FrameOK(f) /\ f.do = "start" /\ f.node.k = "for_stmt"
      /\ f.node \in AllNodes
  BY <1>1 DEF EmitFor, Stands
<1>3. Waits(f) = {} /\ Owns(f) = {} /\ ~HasTerminator(blocks, cur)
  BY <1>1, <1>2 DEF Waits, Owns, Stands, Ready, Open
<1>4. Well(blocks, cur, S, R) /\ R \subseteq DOMAIN blocks /\ S \subseteq R
  BY <1>1, <1>3 DEF Stands
<1>5. PICK n, mid : n = Len(blocks) + 1 /\ mid = blocks \o [i \in 1..3 |-> NewBlock(TRUE)]
  OBVIOUS
<1>6. PICK m, l : m = n + 1 /\ l = n + 2
  OBVIOUS
<1>7. PICK W, O : W = S \cup {n, m, l} /\ O = R \cup {n, m, l}
  OBVIOUS
<1>8. /\ Well(mid, cur, W, O)
      /\ n \in Nat \ {0} /\ n \notin DOMAIN blocks /\ m \notin DOMAIN blocks /\ l \notin DOMAIN blocks
      /\ DOMAIN mid = DOMAIN blocks \cup {n, m, l}
      /\ mid[n].placed /\ mid[m].placed /\ mid[l].placed /\ \A b \in DOMAIN blocks : mid[b] = blocks[b]
      /\ ~HasTerminator(mid, cur) /\ \A b : PredsIn(mid, b) = PredsIn(blocks, b)
  <2>1. ThreeNew(blocks, cur, S, R, n, mid)
    BY <1>4, <1>5, ThreeNewKeep
  <2> QED
    BY <2>1, <1>3, <1>6, <1>7 DEF ThreeNew
<1>9. m \in Nat /\ l \in Nat /\ n # m /\ n # l /\ m # l
  BY <1>6, <1>8
<1>10. PICK one, two, three, new :
          /\ one = Put(mid, cur, Pass) /\ two = Put(one, cur, Br(n))
          /\ three = Put(two, n, CondBr(Value(f.node.name, 0), NoValue, m, l)) /\ new = Put(three, m, Pass)
  OBVIOUS
<1>11. NoValue \in ValueSet /\ Value(f.node.name, 0) \in ValueSet
  <2>1. f.node.name \in STRING
    BY <1>2, NodeFacts DEF Current
  <2> QED
    BY <2>1, InstrTyped
<1>12. Grown(mid, one, cur, W, O, {}, FALSE)
  <2>1. Grown(mid, one, cur, W, O, {}, "pass" \in {"ret", "unreachable"})
    BY <1>8, <1>10, <1>11, PlainGrows DEF Pass
  <2> QED
    BY <2>1 DEF Grown
<1>13. Grown(one, two, cur, W, O, {n}, TRUE)
  <2>1. n \in O
    BY <1>7
  <2> QED
    BY <2>1, <1>10, <1>12, BrGrows DEF Grown
<1>14. Moved(one, two, cur, {n}, n, S \cup {m, l}, O)
  <2>1. S \cup {m, l} = W \ {n} /\ n \in W /\ S \cup {m, l} \subseteq O
    BY <1>4, <1>7, <1>8, <1>9
  <2>2. two[n].placed
    BY <1>8, <1>12, <1>13 DEF Grown
  <2> QED
    BY <2>1, <2>2, <1>13, MoveOn
<1>15. Grown(two, three, n, S \cup {m, l}, O, {m, l}, TRUE)
  <2>1. m \in O /\ l \in O
    BY <1>7
  <2> QED
    BY <2>1, <1>10, <1>11, <1>14, CondBrGrows DEF Moved
<1>16. Moved(two, three, n, {m, l}, m, S \cup {l}, R \cup {n, l})
  <2>1. S \cup {l} = (S \cup {m, l}) \ {m} /\ S \cup {l} \subseteq R \cup {n, l} /\ R \cup {n, l} \subseteq O
    BY <1>4, <1>7, <1>8, <1>9
  <2>2. three[m].placed
    BY <1>8, <1>12, <1>13, <1>15 DEF Grown
  <2> QED
    BY <2>1, <2>2, <1>15, MoveOn
<1>17. Grown(three, new, m, S \cup {l}, R \cup {n, l}, {}, FALSE)
  <2>1. Grown(three, new, m, S \cup {l}, R \cup {n, l}, {}, "pass" \in {"ret", "unreachable"})
    BY <1>10, <1>11, <1>16, PlainGrows DEF Pass, Moved
  <2> QED
    BY <2>1 DEF Grown
<1>18. ASSUME NEW b \in DOMAIN mid
       PROVE  /\ mid[b].placed => new[b].placed
              /\ b \notin {n, m, l} => PredsIn(new, b) = PredsIn(mid, b)
  <2>1. b \in DOMAIN one /\ b \in DOMAIN two /\ b \in DOMAIN three
    BY <1>12, <1>13, <1>15 DEF Grown
  <2>2. mid[b].placed => new[b].placed
    BY <2>1, <1>12, <1>13, <1>15, <1>17 DEF Grown
  <2>3. PredsIn(one, b) = PredsIn(mid, b) /\ PredsIn(new, b) = PredsIn(three, b)
    BY <1>12, <1>17 DEF Grown
  <2>4. b # n => PredsIn(two, b) = PredsIn(one, b)
    BY <1>13 DEF Grown
  <2>5. b \notin {m, l} => PredsIn(three, b) = PredsIn(two, b)
    BY <1>15 DEF Grown
  <2> QED
    BY <2>2, <2>3, <2>4, <2>5
<1>19. PICK g : g = [f EXCEPT !.do = "body", !.then = n, !.end = l]
  OBVIOUS
<1>20. g \in FrameSet /\ g.do = "body" /\ g.node = f.node /\ g.then = n /\ g.end = l
  <2>1. "body" \in Dos
    BY DEF Dos
  <2> QED
    BY <2>1, <1>2, <1>8, <1>9, <1>19 DEF FrameSet
<1>21. Waits(g) = {l} /\ Owns(g) = {n, l}
  BY <1>2, <1>20 DEF Waits, Owns
<1>22. FrameOK(g)
  BY <1>2, <1>20 DEF FrameOK, Kinds, Conditional, Operated, Joining
<1>23. Held(new, g)
  <2>1. new[n].placed /\ new[l].placed
    BY <1>8, <1>18
  <2> QED
    BY <2>1, <1>20, <1>21 DEF Held, Joining
<1>24. Keeps(blocks, new, AllOwned(r)) /\ Frames(blocks, r) /\ Owns(g) \cap AllOwned(r) = {}
  <2>1. ASSUME NEW b \in R PROVE PredsIn(new, b) = PredsIn(blocks, b) /\ (blocks[b].placed => new[b].placed)
    <3>1. b \in DOMAIN blocks /\ b \in DOMAIN mid /\ b \notin {n, m, l} /\ mid[b] = blocks[b]
      BY <1>4, <1>8
    <3> QED
      BY <3>1, <1>8, <1>18
  <2> QED
    BY <2>1, <1>1, <1>4, <1>8, <1>21 DEF Keeps, Stands
<1>25. /\ Well(new, m, AllWaiting(r) \cup Waits(g), AllOwned(r) \cup Owns(g)) /\ Fits(r, g)
       /\ ~HasTerminator(new, m)
  BY <1>1, <1>2, <1>17, <1>20, <1>21, FitsLike DEF Stands, Grown
<1>26. PICK h : h = Block(f.node, 1)
  OBVIOUS
<1>27. Starts(new, h, f.node) /\ h.do = "block"
  BY <1>2, <1>26, LoopFacts, BlockFrame DEF Current
<1>28. Follows(g, h) /\ Ready(new, m, h)
  BY <1>20, <1>27 DEF Follows, Ready, Starts, Open
<1>29. SoundAt(new, m, Append(Append(r, g), h))
  BY <1>22, <1>23, <1>24, <1>25, <1>27, <1>28, ToCall DEF Starts
<1>30. Fresh = n
  BY <1>5 DEF Fresh
<1>31. work' = Append(Append(r, g), h) /\ blocks' = new /\ cur' = m /\ val' = val
  BY <1>1, <1>2, <1>5, <1>6, <1>10, <1>19, <1>26, <1>30 DEF EmitFor, Continues
<1> QED
  BY <1>29, <1>31 DEF Continued, Current

(* Its end: unless emission derails, the body has left an open block.       *)
LEMMA LeaveForSound ==
  ASSUME Current, work # <<>>, LeaveFor, ~Derails
  PROVE  Continued
<1>1. PICK r, f, R, S : Stands(r, f, R, S) /\ Continues(r)
  BY Standing
<1>2. /\ f = Top /\ f \in FrameSet /\ FrameOK(f) /\ f.do = "body" /\ f.node.k = "for_stmt"
      /\ Held(blocks, f) /\ ~HasTerminator(blocks, cur)
  BY <1>1 DEF LeaveFor, Stands, Derails
<1>3. PICK t, l : t = f.then /\ l = f.end
  OBVIOUS
<1>4. Waits(f) = {l} /\ Owns(f) = {t, l}
  BY <1>2, <1>3 DEF Waits, Owns
<1>5. PICK W, O : W = S \cup {l} /\ O = R \cup {t, l}
  OBVIOUS
<1>6. /\ Well(blocks, cur, W, O) /\ O \subseteq DOMAIN blocks /\ S \subseteq R /\ {t, l} \cap R = {}
      /\ blocks[l].placed
  BY <1>1, <1>2, <1>4, <1>5 DEF Stands, Held
<1>7. PICK one, new : one = Put(blocks, cur, Pass) /\ new = Put(one, cur, Br(t))
  OBVIOUS
<1>8. Grown(blocks, one, cur, W, O, {}, FALSE)
  <2>1. Grown(blocks, one, cur, W, O, {}, "pass" \in {"ret", "unreachable"})
    BY <1>2, <1>6, <1>7, InstrTyped, PlainGrows DEF Pass
  <2> QED
    BY <2>1 DEF Grown
<1>9. Grown(one, new, cur, W, O, {t}, TRUE)
  <2>1. t \in O
    BY <1>5
  <2> QED
    BY <2>1, <1>7, <1>8, BrGrows DEF Grown
<1>10. Moved(one, new, cur, {t}, l, S, R)
  <2>1. S = W \ {l} /\ l \in W /\ S \subseteq R /\ R \subseteq O
    BY <1>5, <1>6
  <2>2. new[l].placed
    BY <1>5, <1>6, <1>8, <1>9 DEF Grown
  <2> QED
    BY <2>1, <2>2, <1>9, MoveOn
<1>11. Keeps(blocks, new, AllOwned(r)) /\ Frames(blocks, r)
  <2>1. R \subseteq DOMAIN one /\ R \cap {t} = {}
    BY <1>5, <1>6, <1>8 DEF Grown
  <2>2. Keeps(one, new, R)
    BY <2>1, <1>10, MovedKeeps
  <2>3. Keeps(blocks, new, R)
    BY <2>2, <1>5, <1>6, <1>8 DEF Keeps, Grown
  <2> QED
    BY <2>3, <1>1 DEF Stands
<1>12. Well(new, l, AllWaiting(r), AllOwned(r)) /\ Fits(r, f) /\ ~HasTerminator(new, l)
  BY <1>1, <1>10 DEF Stands, Moved
<1>13. SoundAt(new, l, r)
  BY <1>11, <1>12, ToReturn
<1>14. work' = r /\ blocks' = new /\ cur' = l /\ val' = val
  BY <1>1, <1>2, <1>3, <1>7 DEF LeaveFor, Continues
<1> QED
  BY <1>13, <1>14 DEF Continued, Current

(* An element of a tuple.                                                   *)
LEMMA EmitElementSound ==
  ASSUME Current, work # <<>>, EmitElement, ~Derails
  PROVE  Continued
<1>1. PICK r, f, R, S : Stands(r, f, R, S) /\ Continues(r)
  BY Standing
<1>2. /\ f = Top /\ f \in FrameSet /\ FrameOK(f) /\ f.do = "start" /\ f.node.k = "tuple_for"
      /\ f.node \in AllNodes /\ f.clause <= Len(f.node.clauses) /\ ~HasTerminator(blocks, cur)
  BY <1>1 DEF EmitElement, Stands, Derails
<1>3. Waits(f) = {} /\ Owns(f) = {}
  BY <1>2 DEF Waits, Owns
<1>4. Well(blocks, cur, S, R) /\ R \subseteq DOMAIN blocks
  BY <1>1, <1>3 DEF Stands
<1>5. f.clause \in DOMAIN f.node.clauses /\ f.clause \in Nat \ {0}
  <2>1. f.node.clauses \in Seq([when : Seq(AllNodes), stmts : Seq(AllNodes), last : Seq(AllNodes)])
    BY <1>2, NodeFacts DEF Current
  <2>2. f.clause \in Nat \ {0}
    BY <1>2 DEF FrameSet
  <2> QED
    BY <2>1, <2>2, <1>2, LenProperties
<1>6. PICK new : new = Put(blocks, cur, Pass)
  OBVIOUS
<1>7. Grown(blocks, new, cur, S, R, {}, FALSE)
  <2>1. Grown(blocks, new, cur, S, R, {}, "pass" \in {"ret", "unreachable"})
    BY <1>2, <1>4, <1>6, InstrTyped, PlainGrows DEF Pass
  <2> QED
    BY <2>1 DEF Grown
<1>8. PICK c : c = f.clause + 1
  OBVIOUS
<1>9. PICK g : g = [f EXCEPT !.clause = c]
  OBVIOUS
<1>10. g \in FrameSet /\ g.do = "start" /\ g.node = f.node
  <2>1. c \in Nat \ {0}
    BY <1>5, <1>8
  <2> QED
    BY <2>1, <1>2, <1>9 DEF FrameSet
<1>11. Waits(g) = {} /\ Owns(g) = {}
  BY <1>10 DEF Waits, Owns
<1>12. FrameOK(g) /\ Held(new, g)
  <2>1. ~IsSwitch(g.node)
    BY <1>2, <1>10 DEF IsSwitch
  <2> QED
    BY <2>1, <1>2, <1>10 DEF FrameOK, Held, Kinds, Conditional, Operated, Joining
<1>13. Keeps(blocks, new, AllOwned(r)) /\ Frames(blocks, r)
  BY <1>1, <1>4, <1>7 DEF Keeps, Stands, Grown
<1>14. Well(new, cur, AllWaiting(r) \cup Waits(g), AllOwned(r) \cup Owns(g)) /\ Fits(r, g)
  BY <1>1, <1>2, <1>7, <1>10, <1>11, FitsLike DEF Stands, Grown
<1>15. PICK h : h = Block(f.node, f.clause)
  OBVIOUS
<1>16. Starts(new, h, f.node) /\ h.do = "block"
  BY <1>2, <1>5, <1>15, BlockFrame DEF Current
<1>17. Follows(g, h) /\ Ready(new, cur, h)
  BY <1>2, <1>10, <1>16 DEF Follows, Ready, Starts, Open
<1>18. SoundAt(new, cur, Append(Append(r, g), h))
  BY <1>11, <1>12, <1>13, <1>14, <1>16, <1>17, ToCall DEF Starts
<1>19. g = [f EXCEPT !.clause = @ + 1]
  BY <1>8, <1>9
<1>20. work' = Append(Append(r, g), h) /\ blocks' = new /\ cur' = cur /\ val' = val
  BY <1>1, <1>2, <1>6, <1>15, <1>19 DEF EmitElement, Continues
<1> QED
  BY <1>18, <1>20 DEF Continued, Current

(* The end of a for over a tuple.                                           *)
LEMMA LeaveTupleSound ==
  ASSUME Current, work # <<>>, LeaveTuple
  PROVE  Continued
<1>1. PICK r, f, R, S : Stands(r, f, R, S) /\ Continues(r)
  BY Standing
<1>2. f = Top /\ f.do = "start" /\ f.node.k = "tuple_for"
  BY <1>1 DEF LeaveTuple, Stands
<1>3. /\ Frames(blocks, r) /\ Keeps(blocks, blocks, AllOwned(r)) /\ Fits(r, f)
      /\ Well(blocks, cur, AllWaiting(r), AllOwned(r)) /\ ~IsExpr(f.node)
  BY <1>1, <1>2, KeepsSame DEF Stands, Waits, Owns, IsExpr
<1>4. SoundAt(blocks, cur, r)
  BY <1>3, ToReturn
<1> QED
  BY <1>1, <1>4 DEF LeaveTuple, Continues, Continued, Current

-----------------------------------------------------------------------------
(* The invariant, and what it says of the function at the end.              *)

(* Every step of emit that does not derail leaves the blocks and the frames *)
(* sound.                                                                   *)
LEMMA EmitSound ==
  ASSUME Current, Emit, ~Derails
  PROVE  Continued
<1>1. work # <<>>
  BY DEF Emit
<1>2. CASE EmitStmt
  BY <1>1, <1>2, EmitStmtSound
<1>3. CASE EndOfBlock
  BY <1>1, <1>3, EndOfBlockSound
<1>4. CASE EmitBegin
  BY <1>1, <1>4, EmitBeginSound
<1>5. CASE EmitAtom
  BY <1>1, <1>5, EmitAtomSound
<1>6. CASE EmitOperand
  BY <1>1, <1>6, EmitOperandSound
<1>7. CASE EmitWithOperand
  BY <1>1, <1>7, EmitWithOperandSound
<1>8. CASE EmitConditional
  BY <1>1, <1>8, EmitConditionalSound
<1>9. CASE EmitCondition
  BY <1>1, <1>9, EmitConditionSound
<1>10. CASE EmitBranch
  BY <1>1, <1>10, EmitBranchSound
<1>11. CASE EmitCompare
  BY <1>1, <1>11, EmitCompareSound
<1>12. CASE EmitWhen
  BY <1>1, <1>12, EmitWhenSound
<1>13. CASE JoinClause
  BY <1>1, <1>13, JoinClauseSound
<1>14. CASE EmitElse
  BY <1>1, <1>14, EmitElseSound
<1>15. CASE JoinAll
  BY <1>1, <1>15, JoinAllSound
<1>16. CASE EmitWhile
  BY <1>1, <1>16, EmitWhileSound
<1>17. CASE EmitPostfixIf
  BY <1>1, <1>17, EmitPostfixIfSound
<1>18. CASE EmitLoopTest
  BY <1>1, <1>18, EmitLoopTestSound
<1>19. CASE EmitPostfixTest
  BY <1>1, <1>19, EmitPostfixTestSound
<1>20. CASE LeaveBody
  BY <1>1, <1>20, LeaveBodySound
<1>21. CASE EmitFor
  BY <1>1, <1>21, EmitForSound
<1>22. CASE LeaveFor
  BY <1>1, <1>22, LeaveForSound
<1>23. CASE EmitElement
  BY <1>1, <1>23, EmitElementSound
<1>24. CASE LeaveTuple
  BY <1>1, <1>24, LeaveTupleSound
<1> QED
  BY <1>2, <1>3, <1>4, <1>5, <1>6, <1>7, <1>8, <1>9, <1>10, <1>11, <1>12, <1>13, <1>14, <1>15, <1>16,
     <1>17, <1>18, <1>19, <1>20, <1>21, <1>22, <1>23, <1>24 DEF Emit

(* The block at the end of the function is given a terminator.              *)
LEMMA FinishSound ==
  ASSUME Current, Finish
  PROVE  SoundAt(blocks', cur, work) /\ HasTerminator(blocks', cur)
<1>1. PICK W, O : W = AllWaiting(work) /\ O = AllOwned(work)
  OBVIOUS
<1>2. work = <<>> /\ Well(blocks, cur, W, O) /\ Frames(blocks, work)
  BY <1>1 DEF Finish, Current, SoundAt
<1>3. CASE HasTerminator(blocks, cur)
  BY <1>3 DEF Finish, Current
<1>4. CASE ~HasTerminator(blocks, cur)
  <2>1. PICK v, k : /\ IF program.unit THEN k = "ret" /\ v = Value("unit", 0) ELSE k = "unreachable" /\ v = NoValue
    OBVIOUS
  <2>2. v \in ValueSet /\ k \in {"ret", "unreachable"}
    BY <2>1, InstrTyped
  <2>3. blocks' = Put(blocks, cur, Instr(k, v, NoValue, <<>>))
    BY <2>1, <1>4 DEF Finish, Ret, Unreachable
  <2>4. Grown(blocks, blocks', cur, W, O, {}, k \in {"ret", "unreachable"})
    BY <2>2, <2>3, <1>2, <1>4, PlainGrows
  <2>5. Well(blocks', cur, W, O) /\ HasTerminator(blocks', cur)
    BY <2>2, <2>4 DEF Grown
  <2>6. Frames(blocks', work)
    BY <1>2 DEF Frames
  <2> QED
    BY <2>5, <2>6, <1>1, <1>2 DEF SoundAt
<1> QED
  BY <1>3, <1>4

(* A function starts with an empty block, and its body.                     *)
LEMMA InitSound ==
  ASSUME Init
  PROVE  Current
<1>1. program \in Programs /\ program.body \in AllNodes /\ program.body.k = "func"
  <2>1. program \in Programs
    BY DEF Init
  <2> QED
    BY <2>1, ProgramsAssumption DEF AllNodes
<1>2. PICK n : n = program.body
  OBVIOUS
<1>3. 1 \in DOMAIN n.clauses /\ ~IsExpr(n)
  <2>1. n.clauses # <<>> /\ n.clauses \in Seq([when : Seq(AllNodes), stmts : Seq(AllNodes), last : Seq(AllNodes)])
    BY <1>1, <1>2, NodeFacts DEF WellShaped
  <2>2. 1 \in DOMAIN n.clauses
    BY <2>1, EmptySeq, LenProperties
  <2>3. ~IsExpr(n)
    BY <1>1, <1>2 DEF IsExpr
  <2> QED
    BY <2>2, <2>3
<1>4. PICK f, x, r : f = Block(n, 1) /\ x = NewBlock(TRUE) /\ r = <<>>
  OBVIOUS
<1>5. PICK bs : bs = <<x>>
  OBVIOUS
<1>6. Starts(bs, f, n) /\ f.do = "block"
  BY <1>1, <1>2, <1>3, <1>4, BlockFrame
<1>7. x \in BlockSet /\ x.placed /\ x.code = <<>>
  <2>1. <<>> \in Seq(Instrs)
    BY EmptySeq
  <2> QED
    BY <2>1, <1>4 DEF NewBlock, BlockSet
<1>8. bs \in Seq(BlockSet) /\ DOMAIN bs = {1} /\ bs[1] = x
  BY <1>5, <1>7
<1>9. ~HasTerminator(bs, 1)
  BY <1>7, <1>8 DEF HasTerminator
<1>10. Well(bs, 1, {}, {})
  BY <1>7, <1>8 DEF Well
<1>11. r \in Seq(FrameSet) /\ DOMAIN r = {}
  BY <1>4, EmptySeq
<1>12. Frames(bs, r) /\ AllOwned(r) = {} /\ AllWaiting(r) = {}
  BY <1>11 DEF Frames, AllOwned, AllWaiting
<1>13. Fits(r, f) /\ Ready(bs, 1, f) /\ Keeps(bs, bs, AllOwned(r))
  BY <1>3, <1>4, <1>6, <1>9, KeepsSame DEF Fits, Bottom, Ready, Starts
<1>14. SoundAt(bs, 1, Append(r, f))
  BY <1>6, <1>10, <1>12, <1>13, ToGoOn DEF Starts
<1>15. Append(r, f) = <<f>>
  BY <1>4
<1>16. NoValue \in ValueSet
  BY InstrTyped
<1> QED
  BY <1>2, <1>4, <1>5, <1>14, <1>15, <1>16 DEF Init, Current

(* EmitterInv is inductive.                                                 *)
LEMMA EmitterInvKept ==
  ASSUME EmitterInv, [Next]_vars
  PROVE  EmitterInv'
<1>1. CASE Emit
  <2>1. program' = program /\ done' = done /\ derailed' = (derailed \/ Derails)
    BY <1>1 DEF Emit
  <2>2. derailed' \in BOOLEAN /\ program' \in Programs
    BY <2>1 DEF EmitterInv
  <2>3. ASSUME ~derailed' PROVE Current' /\ (done' => work' = <<>> /\ HasTerminator(blocks', cur'))
    <3>1. ~derailed /\ ~Derails
      BY <2>1, <2>3
    <3>2. Current /\ ~done
      BY <3>1, <1>1 DEF EmitterInv, Emit
    <3>3. Continued
      BY <1>1, <3>1, <3>2, EmitSound
    <3> QED
      BY <2>1, <3>2, <3>3 DEF Current, Continued
  <2> QED
    BY <2>2, <2>3 DEF EmitterInv
<1>2. CASE Finish
  <2>1. UNCHANGED <<program, cur, work, val, derailed>>
    BY <1>2 DEF Finish
  <2>2. ASSUME ~derailed' PROVE Current' /\ (done' => work' = <<>> /\ HasTerminator(blocks', cur'))
    <3>1. Current
      BY <2>1, <2>2 DEF EmitterInv
    <3>2. SoundAt(blocks', cur, work) /\ HasTerminator(blocks', cur) /\ work = <<>>
      BY <1>2, <3>1, FinishSound DEF Finish
    <3> QED
      BY <2>1, <3>1, <3>2 DEF Current
  <2> QED
    BY <2>1, <2>2 DEF EmitterInv
<1>3. CASE UNCHANGED vars
  BY <1>3 DEF EmitterInv, Current, vars
<1> QED
  BY <1>1, <1>2, <1>3 DEF Next

(* One value for each block that branches to the phi.                       *)
LEMMA OneValueEach ==
  ASSUME NEW bs, NEW b, NEW in \in IncomingSet, Gathers(bs, b, in)
  PROVE  Cardinality(Froms(in)) = Len(in)
<1>1. PICK n : n = Len(in)
  OBVIOUS
<1>2. n \in Nat /\ DOMAIN in = 1..n
  BY <1>1, LenProperties DEF IncomingSet
<1>3. PICK m, T : m = [i \in 1..n |-> in[i].from] /\ T = Froms(in)
  OBVIOUS
<1>4. \A i \in 1..n : m[i] = in[i].from /\ m[i] \in T
  BY <1>2, <1>3 DEF Froms, ToSet
<1>5. m \in [1..n -> T]
  BY <1>3, <1>4
<1>6. \A t \in T : \E i \in 1..n : m[i] = t
  <2>1. SUFFICES ASSUME NEW t \in T PROVE \E i \in 1..n : m[i] = t
    OBVIOUS
  <2>2. PICK i \in DOMAIN in : t = in[i].from
    BY <2>1, <1>3 DEF Froms, ToSet
  <2> QED
    BY <2>2, <1>2, <1>4
<1>7. IsInjective(m)
  BY <1>2, <1>4, <1>5 DEF Gathers, IsInjective
<1>8. m \in Bijection(1..n, T)
  BY <1>5, <1>6, <1>7 DEF Bijection, Injection, Surjection
<1>9. Cardinality(T) = n
  BY <1>2, <1>8, FS_CountingElements DEF ExistsBijection
<1> QED
  BY <1>1, <1>3, <1>9

(* When the function is done no frame is left, and every block is complete. *)
LEMMA EmitterInvWellFormed ==
  ASSUME EmitterInv
  PROVE  WellFormed
<1>1. SUFFICES ASSUME done, ~derailed PROVE Verifies
  BY DEF WellFormed
<1>2. HasTerminator(blocks, cur) /\ Well(blocks, cur, {}, {})
  <2>1. work = <<>> /\ HasTerminator(blocks, cur) /\ Well(blocks, cur, AllWaiting(work), AllOwned(work))
    BY <1>1 DEF EmitterInv, Current, SoundAt
  <2>2. AllWaiting(work) = {} /\ AllOwned(work) = {}
    BY <2>1 DEF AllWaiting, AllOwned
  <2> QED
    BY <2>1, <2>2
<1>3. SUFFICES ASSUME NEW b \in Placed PROVE VerifiesBlock(b)
  BY DEF Verifies
<1>4. b \in DOMAIN blocks /\ HasTerminator(blocks, b) /\ \A i \in DOMAIN blocks[b].code : GoodInstr(blocks, {}, {}, b, i)
  BY <1>2, <1>3 DEF Well, Placed
<1>5. PICK code : code = blocks[b].code
  OBVIOUS
<1>6. code \in Seq(Instrs)
  <2>1. blocks[b] \in BlockSet
    BY <1>2, <1>4, ElementOfSeq, LenProperties DEF Well
  <2> QED
    BY <2>1, <1>5 DEF BlockSet
<1>7. code # <<>> /\ Len(code) \in Nat \ {0} /\ DOMAIN code = 1..Len(code) /\ Last(code) = code[Len(code)]
  BY <1>4, <1>5, <1>6, EmptySeq, LenProperties DEF HasTerminator, Last
<1>8. \A i \in 1..(Len(code) - 1) : code[i].k \notin Terminator
  <2>1. SUFFICES ASSUME NEW i \in 1..(Len(code) - 1), code[i].k \in Terminator PROVE FALSE
    OBVIOUS
  <2>2. i \in DOMAIN code /\ i # Len(code)
    <3>1. PICK m : m = Len(code)
      OBVIOUS
    <3>2. m \in Nat /\ DOMAIN code = 1..m /\ i \in 1..(m - 1)
      BY <1>7, <3>1
    <3> QED
      BY <3>1, <3>2
  <2> QED
    BY <2>1, <2>2, <1>4, <1>5 DEF GoodInstr
<1>9. ToSet(Last(code).to) \subseteq Placed
  <2>1. Len(code) \in DOMAIN code
    BY <1>7
  <2> QED
    BY <2>1, <1>4, <1>5, <1>7 DEF GoodInstr, Placed
<1>10. ASSUME NEW i \in DOMAIN code, code[i].k = "phi"
       PROVE  /\ i = 1
              /\ Froms(code[i].from) = Preds(b)
              /\ Cardinality(Froms(code[i].from)) = Len(code[i].from)
  <2>1. i = 1 /\ Gathers(blocks, b, code[i].from)
    BY <1>4, <1>5, <1>10 DEF GoodInstr
  <2>2. Preds(b) = PredsIn(blocks, b)
    BY DEF Preds, Placed, PredsIn
  <2>3. code[i].from \in IncomingSet
    <3>1. code[i] \in Instrs
      BY <1>6, <1>7, <1>10, ElementOfSeq
    <3> QED
      BY <3>1 DEF Instrs
  <2> QED
    BY <2>1, <2>2, <2>3, OneValueEach DEF Gathers
<1> QED
  BY <1>4, <1>5, <1>8, <1>9, <1>10 DEF VerifiesBlock, Froms

(* The blocks of a function whose emission has not derailed are ones that   *)
(* LLVM accepts: each is terminated once, every branch goes to a block of   *)
(* the function, and every phi has one value for each predecessor.          *)
THEOREM EmitterWellFormed == Spec => []WellFormed
<1>1. Init => EmitterInv
  <2>1. SUFFICES ASSUME Init PROVE EmitterInv
    OBVIOUS
  <2>2. Current
    BY <2>1, InitSound
  <2> QED
    BY <2>1, <2>2 DEF Init, EmitterInv
<1>2. EmitterInv /\ [Next]_vars => EmitterInv'
  BY EmitterInvKept
<1>3. EmitterInv => WellFormed
  BY EmitterInvWellFormed
<1> QED
  BY <1>1, <1>2, <1>3, PTL DEF Spec

=============================================================================
