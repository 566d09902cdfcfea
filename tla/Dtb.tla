-------------------------------- MODULE Dtb --------------------------------
(***************************************************************************)
(* The device tree of the Linux guest: dtb_build_linux writes it, one      *)
(* helper call a step, and the kernel reads it back.                       *)
(*                                                                         *)
(* Everything in the structure block is padded to words, and the space for *)
(* it ends at a word: the block is a function from word indices.  A string *)
(* is its words.  The reader is external: the walk of libfdt as the header *)
(* of dtb_gen.c describes it, "libfdt stops property iteration at the      *)
(* first child BEGIN_NODE".                                                *)
(***************************************************************************)
EXTENDS Integers, Sequences, SequencesExt

CONSTANTS BufSize,     \* LINUX_DTB_BUF_SZ
          StrtabCap,   \* bytes of strbuf
          InitrdSize   \* INITRD_SIZE

ASSUME DtbAssumption ==
    /\ BufSize \in Nat /\ StrtabCap \in Nat /\ BufSize > 64 + StrtabCap
    /\ (BufSize - StrtabCap) % 4 = 0
    /\ InitrdSize \in Nat

VARIABLES fdt,   \* the builder's context, and the header once it is written
          meant, \* history: the open nodes, and the properties put on each node
          rd     \* the reader

dtbvars == <<fdt, meant, rd>>

MB == 1048576

\* LINUX_DTB_IPA, and LINUX_INITRD_PA seen from the guest.
DtbIpa == 64 * MB
InitrdIpa == 96 * MB

\* The RAM that device_profile.c gives to Linux.
LinuxRam == {[base |-> 0, size |-> 128 * MB], [base |-> 256 * MB, size |-> 1024 * MB]}
---------------------------------------------------------------------------
\* A word of the block: a number, or the k-th word of a string.
Num(n) == <<"num", n>>
StrWords(s, len) == [k \in 1 .. (len + 3) \div 4 |-> <<s, k>>]

FDT_BEGIN_NODE == Num(1)
FDT_END_NODE == Num(2)
FDT_PROP == Num(3)
FDT_END == Num(9)

\* The calls: a node is opened or closed, a property of "len" bytes is put.
begin_node(name) == [op |-> "BEGIN", name |-> name, words |-> StrWords(name, Len(name) + 1)]
end_node == [op |-> "END"]
Prop(name, len, words) ==
    [op |-> "PROP", name |-> name, len |-> len, words |-> words, checked |-> TRUE]
prop_stringlist(name, val, len) == Prop(name, len, StrWords(val, len))
prop_str(name, val) == prop_stringlist(name, val, Len(val) + 1)
prop_empty(name) == Prop(name, 0, << >>)
Cells(name, vals) == Prop(name, 4 * Len(vals), [k \in DOMAIN vals |-> Num(vals[k])])
prop_u32(name, val) == Cells(name, <<val>>)

\* The values are written whether there is room or not.
prop_cells2(name, hi, lo) == [Cells(name, <<0, hi, 0, lo>>) EXCEPT !.checked = FALSE]

RootProps ==
    <<prop_u32("#address-cells", 2), prop_u32("#size-cells", 2),
      prop_str("compatible", "linux,dummy-virt"), prop_str("model", "Tessolve-Hypervisor-Guest"),
      prop_empty("ranges")>>

Aliases == <<begin_node("aliases"), prop_str("serial0", "/pl011@9000000"), end_node>>

Subnodes ==
    <<begin_node("chosen"),
      prop_stringlist("bootargs", "bootargs", 94),
      prop_str("stdout-path", "serial0:115200n8"),
      prop_u32("linux,initrd-start", InitrdIpa),
      prop_u32("linux,initrd-end", InitrdIpa + InitrdSize),
      end_node,
      begin_node("memory@0"), prop_str("device_type", "memory"), prop_cells2("reg", 0, 128 * MB),
      end_node,
      begin_node("memory@10000000"), prop_str("device_type", "memory"),
      prop_cells2("reg", 256 * MB, 1024 * MB),
      end_node,
      begin_node("intc@8000000"), prop_str("compatible", "arm,gic-v3"),
      prop_u32("#interrupt-cells", 3), prop_empty("interrupt-controller"),
      Cells("reg", <<0, 134217728, 0, 65536, 0, 134873088, 0, 16121856>>),
      prop_u32("phandle", 1),
      end_node,
      begin_node("apb-clk"), prop_str("compatible", "fixed-clock"), prop_u32("#clock-cells", 0),
      prop_u32("clock-frequency", 24000000), prop_u32("phandle", 2),
      end_node,
      begin_node("pl011@9000000"), prop_stringlist("compatible", "arm,pl011 arm,primecell", 23),
      prop_cells2("reg", 144 * MB, 4096), prop_u32("interrupt-parent", 1),
      Cells("interrupts", <<0, 33 - 32, 4>>), Cells("clocks", <<2, 2>>),
      prop_stringlist("clock-names", "uartclk apb_pclk", 17),
      end_node,
      begin_node("timer"), prop_str("compatible", "arm,armv8-timer"), prop_empty("always-on"),
      prop_u32("interrupt-parent", 1),
      Cells("interrupts", <<1, 13, 8, 1, 14, 8, 1, 11, 8, 1, 10, 8>>),
      end_node,
      begin_node("psci"), prop_str("compatible", "arm,psci-0.2"), prop_str("method", "hvc"),
      end_node,
      begin_node("cpus"), prop_u32("#address-cells", 1), prop_u32("#size-cells", 0),
      begin_node("cpu@0"), prop_str("device_type", "cpu"), prop_str("compatible", "arm,cortex-a57"),
      prop_str("enable-method", "psci"), prop_u32("reg", 0),
      end_node, end_node>>

\* Mutant: the order before the fix described at the head of dtb_gen.c.
BuildOrder_aliases_first == <<begin_node("")>> \o Aliases \o RootProps \o Subnodes \o <<end_node>>

\* The calls of dtb_build_linux, in their order.
BuildOrder == <<begin_node("")>> \o RootProps \o Aliases \o Subnodes \o <<end_node>>
---------------------------------------------------------------------------
Cap == (BufSize - 64 - StrtabCap) \div 4

\* Words ws at the position, which moves on even when they do not fit.
emit(c, ws, checked) ==
    [c EXCEPT !.pos = @ + Len(ws),
              !.buf = IF checked /\ c.pos + Len(ws) > Cap THEN @
                      ELSE [i \in DOMAIN @ \union c.pos .. c.pos + Len(ws) - 1 |->
                              IF i >= c.pos THEN ws[i - c.pos + 1] ELSE @[i]]]

emit32(c, v) == emit(c, <<v>>, TRUE)

strtab_add(c, name) ==
    [c EXCEPT !.str_pos = @ + Len(name) + 1,
              !.strtab = IF c.str_pos + Len(name) + 1 > StrtabCap THEN @
                         ELSE @ \union {[off |-> c.str_pos, name |-> name]}]

Emitted(c, call) ==
    CASE call.op = "BEGIN" -> emit(emit32(c, FDT_BEGIN_NODE), call.words, TRUE)
      [] call.op = "END" -> emit32(c, FDT_END_NODE)
      [] call.op = "PROP" ->
           LET head == emit32(emit32(c, FDT_PROP), Num(call.len))
           IN  emit(emit32(strtab_add(head, call.name), Num(c.str_pos)), call.words, call.checked)

\* The end of dtb_build_linux: the strings go behind the structure block.
WithHeader(c) ==
    LET e == emit32(c, FDT_END)
        size == 64 + 4 * e.pos + e.str_pos
    IN  [e EXCEPT !.header = [struct |-> e.pos, total |-> ((size + 3) \div 4) * 4]]

NoHeader == [struct |-> 0, total |-> 0]

DtbInit ==
    /\ fdt = [pc |-> 1, pos |-> 0, buf |-> << >>, str_pos |-> 0, strtab |-> {}, header |-> NoHeader]
    /\ meant = [path |-> << >>, props |-> {}]
    /\ rd = [pos |-> 0, path |-> << >>, parents |-> {}, found |-> {}, done |-> FALSE]

Meaning(m, call) ==
    CASE call.op = "BEGIN" -> [m EXCEPT !.path = Append(@, call.name)]
      [] call.op = "END" -> [m EXCEPT !.path = Front(@)]
      [] call.op = "PROP" ->
           [m EXCEPT !.props = @ \union {[path |-> m.path, name |-> call.name, len |-> call.len,
                                          words |-> call.words]}]

BuildStep ==
    /\ fdt.header = NoHeader /\ fdt.pc <= Len(BuildOrder)
    /\ fdt' = [Emitted(fdt, BuildOrder[fdt.pc]) EXCEPT !.pc = @ + 1]
    /\ meant' = Meaning(meant, BuildOrder[fdt.pc])
    /\ UNCHANGED rd

BuildEnd ==
    /\ fdt.header = NoHeader /\ fdt.pc > Len(BuildOrder)
    /\ fdt' = WithHeader(fdt)
    /\ UNCHANGED <<meant, rd>>
---------------------------------------------------------------------------
\* What the kernel finds at a word, and at an offset of the strings.
WordAt(i) == IF i \in DOMAIN fdt.buf THEN fdt.buf[i] ELSE Num(0)
StringAt(off) ==
    IF \E s \in fdt.strtab : s.off = off THEN (CHOOSE s \in fdt.strtab : s.off = off).name ELSE ""

ReadNode ==
    LET name == WordAt(rd.pos + 1)[1]
    IN  rd' = [rd EXCEPT !.pos = @ + 1 + Len(StrWords(name, Len(name) + 1)),
                         !.parents = @ \union {rd.path},
                         !.path = Append(@, name)]

ReadProp ==
    LET len == WordAt(rd.pos + 1)[2]
        n == (len + 3) \div 4
        p == [path |-> rd.path, name |-> StringAt(WordAt(rd.pos + 2)[2]), len |-> len,
              words |-> [k \in 1 .. n |-> WordAt(rd.pos + 2 + k)]]
    IN  rd' = [rd EXCEPT !.pos = @ + 3 + n,
                         !.found = IF rd.path \in rd.parents THEN @ ELSE @ \union {p}]

\* The kernel walks the block, a token a step; a token it does not know ends it.
ReadStep ==
    /\ fdt.header # NoHeader /\ ~rd.done
    /\ CASE WordAt(rd.pos) = FDT_BEGIN_NODE -> ReadNode
         [] WordAt(rd.pos) = FDT_PROP -> ReadProp
         [] WordAt(rd.pos) = FDT_END_NODE /\ rd.path # << >> ->
              rd' = [rd EXCEPT !.pos = @ + 1, !.path = Front(@)]
         [] OTHER -> rd' = [rd EXCEPT !.pos = @ + 1, !.done = TRUE]
    /\ UNCHANGED <<fdt, meant>>

\* The kernel has the tree and goes on.
Booted == rd.done /\ UNCHANGED dtbvars

DtbNext == BuildStep \/ BuildEnd \/ ReadStep \/ Booted

DtbSpec == DtbInit /\ [][DtbNext]_dtbvars
---------------------------------------------------------------------------
\* A number the kernel reads, or its default.
Cell(path, name, default) ==
    LET ps == {p \in rd.found : p.path = path /\ p.name = name /\ p.len = 4}
    IN  IF ps = {} THEN default ELSE (CHOOSE p \in ps : TRUE).words[1][2]

\* The entries of the "reg" of every memory node, with the root's cell sizes.
Memory ==
    LET ac == Cell(<<"">>, "#address-cells", 1)
        sc == Cell(<<"">>, "#size-cells", 1)
        nodes == {p.path : p \in {q \in rd.found : /\ q.name = "device_type"
                                                  /\ q.words[1][1] = "memory"}}
        Entries_of(p) == {[base |-> p.words[k * (ac + sc) + ac][2],
                           size |-> p.words[(k + 1) * (ac + sc)][2]] :
                             k \in 0 .. (p.len \div (4 * (ac + sc))) - 1}
    IN  UNION {Entries_of(p) : p \in {q \in rd.found : q.name = "reg" /\ q.path \in nodes}}

\* The pieces are in order: the position never passes the space for the block, and
\* the strings stay in theirs.
DtbTypeOK == fdt.pos <= Cap /\ fdt.str_pos <= StrtabCap

Inside(from, to, r) == r.base <= from /\ to <= r.base + r.size

\* Linux reads the tree that was meant: the walk ends with the block, every
\* property is found on its node under its name, and the memory nodes, decoded with
\* the cell sizes of the root, are the RAM that Stage-2 maps.  The tree itself and
\* the initramfs lie in that RAM, apart (dtb_build_linux, create_linux_vm).
LinuxFindsItsMemory ==
    rd.done =>
        /\ rd.pos = fdt.header.struct /\ rd.path = << >>
        /\ rd.found = meant.props
        /\ Memory = LinuxRam
        /\ LET end == Cell(<<"", "chosen">>, "linux,initrd-end", 0)
               start == Cell(<<"", "chosen">>, "linux,initrd-start", 0)
           IN  /\ DtbIpa + fdt.header.total <= start
               /\ \E r \in Memory : Inside(DtbIpa, end, r)
===========================================================================
