--------------------------- MODULE MC_Correlate ---------------------------
(***************************************************************************)
(* A base object and a patched build of the same source in which gcc has   *)
(* chosen other numbers for its mangled and static-local names:           *)
(*   f          global function in .text.f, using the statics c, __key and *)
(*              d and the string label .LC0;                               *)
(*   g.isra.N   a clone in .text.g.isra.N with a jump table in             *)
(*              .rodata.g.isra.N; its rela section, if any, calls f;       *)
(*   c.N        static local bundled in .bss.c.N;                          *)
(*   __key.N    a special static bundled in .bss.__key.N;                  *)
(*   d.N        static local in the shared .data section, which also holds *)
(*              the global v; either comes first, in either build;         *)
(*   .LC0       a constant label in .rodata.str;                           *)
(*   .group     a section group whose contents may differ.                 *)
(* A reference is emitted as the assembler emits it: to a global symbol   *)
(* or a constant label directly, to a local symbol or into a section      *)
(* through the section symbol, the addend biased by the instruction's     *)
(* tail for R_X86_64_PC32. f's reference to d may use any of the handled  *)
(* types and, in the patched build, another byte of d.                    *)
(* With DupClones, a second clone of g (as gcc makes for two constant     *)
(* propagations); with SharedStem, a second static named c used by g; with *)
(* GainRela, a clone that has relocations only in the patched build.      *)
(***************************************************************************)
EXTENDS MainFront, TLC

CONSTANTS DupClones, SharedStem, GainRela

Clone(n) == << "g", ".", "isra", ".", n >>
Static(stem, n) == << stem, ".", n >>
Sec(kind, name) == << ".", kind, "." >> \o name
RelaSec(name) == << ".", "rela" >> \o name

Sym(id, name, type, bind, sec, value, size) ==
  [id |-> id, name |-> name, type |-> type, bind |-> bind, sec |-> sec, value |-> value, size |-> size]
Section(id, name, kind, base, sym, relas) ==
  [id |-> id, name |-> name, kind |-> kind, base |-> base, sym |-> sym, relas |-> relas]

(* lay: "dv" puts d at 0 and v at 8 of .data, "vd" v at 0 and d at 8. *)
SymDefs(n, lay) ==
  << Sym("f", << "f" >>, "FUNC", "GLOBAL", "tf", 0, 16),
     Sym("g", Clone(n["g"]), "FUNC", "LOCAL", "tg", 0, 16) >>
  \o (IF DupClones THEN << Sym("g2", Clone(n["g2"]), "FUNC", "LOCAL", "tg2", 0, 16) >> ELSE << >>)
  \o << Sym("c", Static("c", n["c"]), "OBJECT", "LOCAL", "bc", 0, 4),
       Sym("key", Static("__key", n["key"]), "OBJECT", "LOCAL", "bk", 0, 4),
       Sym("d", Static("d", n["d"]), "OBJECT", "LOCAL", "data", IF lay = "dv" THEN 0 ELSE 8, 4),
       Sym("v", << "v" >>, "OBJECT", "GLOBAL", "data", IF lay = "dv" THEN 8 ELSE 0, 8),
       Sym("lc", << ".", "LC", "0" >>, "NOTYPE", "LOCAL", "str", 0, 0) >>
  \o (IF SharedStem THEN << Sym("c2", Static("c", n["c2"]), "OBJECT", "LOCAL", "bc2", 0, 4) >>
      ELSE << >>)

(* A reference to byte delta of element tid by an instruction with the     *)
(* given relocation type and tail. *)
Ref(tid, delta, type, tail) == [tid |-> tid, delta |-> delta, type |-> type, tail |-> tail]

Call(fn) == Ref(fn, 0, "PC32", 4)

SecDefs(n, hasRela, dref) ==
  << Section("tf", Sec("text", << "f" >>), "text", "", "f", << >>),
     Section("rtf", RelaSec(Sec("text", << "f" >>)), "rela", "tf", "",
             << Ref("c", 0, "PC32", 4), Ref("key", 0, "PC32", 4), dref, Ref("lc", 0, "32S", 0) >>),
     Section("tg", Sec("text", Clone(n["g"])), "text", "", "g", << >>) >>
  \o (IF hasRela
      THEN << Section("rtg", RelaSec(Sec("text", Clone(n["g"]))), "rela", "tg", "",
                      << Ref("og", 0, "32S", 0), Call("f") >>
                      \o (IF SharedStem THEN << Ref("c2", 0, "PC32", 4) >> ELSE << >>)) >>
      ELSE << >>)
  \o << Section("og", Sec("rodata", Clone(n["g"])), "data", "", "", << >>),
       Section("rog", RelaSec(Sec("rodata", Clone(n["g"]))), "rela", "og", "",
               << Ref("g", 6, "64", 0), Ref("g", 12, "64", 0) >>) >>
  \o (IF DupClones THEN << Section("tg2", Sec("text", Clone(n["g2"])), "text", "", "g2", << >>) >>
      ELSE << >>)
  \o << Section("bc", Sec("bss", Static("c", n["c"])), "data", "", "c", << >>),
       Section("bk", Sec("bss", Static("__key", n["key"])), "data", "", "key", << >>),
       Section("data", << ".", "data" >>, "data", "", "", << >>),
       Section("str", << ".", "rodata", ".", "str" >>, "data", "", "", << >>),
       Section("grp", << ".", "group" >>, "group", "", "", << >>) >>
  \o (IF SharedStem THEN << Section("bc2", Sec("bss", Static("c", n["c2"])), "data", "", "c2", << >>) >>
      ELSE << >>)

IndexOf(list, id) == SelectInSeq(list, LAMBDA x : x.id = id)

Bias(d) == IF d.type = "PC32" THEN d.tail ELSE 0

(* The rela the assembler emits for reference d at position pos of its    *)
(* section: a global symbol or a constant label is the target itself; a   *)
(* local symbol is reached through its section's symbol, an element that *)
(* is a section through its own.                                          *)
Encode(sd, cd, d, pos) ==
  LET ti == IndexOf(sd, d.tid)
      direct == ti # 0 /\ (sd[ti].bind = "GLOBAL" \/ sd[ti].id = "lc")
      base == IF ti # 0 THEN sd[ti].value ELSE 0
  IN d @@ [ off |-> 8 * (pos - 1),
            sym |-> IF direct THEN ti ELSE 0,
            ss |-> CASE direct -> 0
                     [] ti # 0 -> IndexOf(cd, sd[ti].sec)
                     [] OTHER -> IndexOf(cd, d.tid),
            add |-> (IF direct THEN 0 ELSE base) + d.delta - Bias(d) ]

(* Resolve the ids of the definitions to list indices. corr says whether  *)
(* spec section 4.1 has the element correlated with its counterpart:      *)
(* every one but the special static, its section, the constant label,    *)
(* and a section group whose contents changed.                            *)
Obj(sd, cd, content, groupSame) ==
  [ syms |-> [i \in DOMAIN sd |->
                [sd[i] EXCEPT !.sec = IndexOf(cd, @)] @@ [corr |-> sd[i].id \notin {"key", "lc"}]],
    secs |-> [j \in DOMAIN cd |->
                [ cd[j] EXCEPT !.base = IndexOf(cd, @), !.sym = IndexOf(sd, @),
                               !.relas = [r \in DOMAIN @ |-> Encode(sd, cd, @[r], r)] ]
                @@ [ rela |-> SelectInSeq(cd, LAMBDA x : x.base = cd[j].id),
                     content |-> content,
                     corr |-> cd[j].id # "bk" /\ (cd[j].id = "grp" => groupSame) ]] ]

Ids == {"g", "g2", "c", "c2", "key", "d"}

BaseNums == [g |-> "1", g2 |-> "2", c |-> "1", c2 |-> "2", key |-> "1", d |-> "1"]

(* The patched numbers: any, as long as the names stay distinct. *)
PatchedNums ==
  { n \in [Ids -> {"1", "2"}] : (DupClones => n["g"] # n["g2"]) /\ (SharedStem => n["c"] # n["c2"]) }

(* The rela section of g: in both, in neither, only in the base (the     *)
(* patched g no longer calls f) or, with GainRela, only in the patched    *)
(* build. The second c is used by g, so then g has relas in both.          *)
RelaCases ==
  IF SharedStem THEN {"both"}
  ELSE {"both", "none", "base"} \cup (IF GainRela THEN {"patched"} ELSE {})

(* f's access to d: a rip-relative load (tail 4), a rip-relative store of *)
(* an immediate (tail 8) or an absolute address. *)
DRefForms == { [type |-> "PC32", tail |-> 4], [type |-> "PC32", tail |-> 8],
               [type |-> "32S", tail |-> 0] }

MCInputs ==
  { [ base |-> Obj(SymDefs(BaseNums, bl),
                   SecDefs(BaseNums, rc \in {"both", "base"}, Ref("d", 0, fm.type, fm.tail)),
                   "A", cnt = "A"),
      patched |-> Obj(SymDefs(n, pl),
                      SecDefs(n, rc \in {"both", "patched"}, Ref("d", dd, fm.type, fm.tail)),
                      cnt, cnt = "A") ] :
    n \in PatchedNums, rc \in RelaCases, cnt \in {"A", "B"},
    bl \in {"dv", "vd"}, pl \in {"dv", "vd"}, fm \in DRefForms, dd \in {0, 2} }

(* The command lines: the four operands with -d among them and -r after  *)
(* them, which getopt moves in front; three operands; five operands; and *)
(* none. argp calls INIT first, NO_ARGS when there is no operand, then    *)
(* END, SUCCESS and FINI.                                                  *)
Operands == << "base.o", "patched.o", "xen-syms", "out.o", "extra.o" >>
K(name) == [key |-> name]
OperandCalls(n) == [i \in 1..n |-> [key |-> "arg", arg |-> Operands[i]]]
MCCalls ==
  { << K("init"), K("d"), K("r") >> \o OperandCalls(4) \o << K("end"), K("success"), K("fini") >>,
    << K("init") >> \o OperandCalls(3) \o << K("end"), K("success"), K("fini") >>,
    << K("init") >> \o OperandCalls(5) \o << K("end"), K("success"), K("fini") >>,
    << K("init"), K("noargs"), K("end"), K("success"), K("fini") >> }
=============================================================================
