--------------------------- MODULE FinalMapLookup ---------------------------
(***************************************************************************)
(* baken_final_map_physical_address of boot/uefi_exit_boot_services.h: the *)
(* cutover callback asks which physical address the final memory map gives *)
(* to an address the loader used until now (the map buffer, the loaded     *)
(* image, the ACPI root pointer), and gives up when the answer is 0.       *)
(*                                                                         *)
(* The descriptors come from the firmware, so the arithmetic on them may   *)
(* wrap.  It is done here with words of Word values as the code does it    *)
(* with 64-bit ones.                                                       *)
(***************************************************************************)
EXTENDS Integers, Sequences

CONSTANTS Word,         \* number of values of a machine word
          Page          \* BAKEN_UEFI_PAGE_SIZE

ASSUME WordAssumption == Word \in Nat \ {0} /\ Page \in 1 .. Word - 1

Words == 0 .. Word - 1
Descriptor == [physical : Words, virtual : Words, pages : Words]

Add(m, n) == (m + n) % Word
\* The byte count of a descriptor, as the product wraps.
Bytes(d) == (d.pages * Page) % Word
PhysicalEnd(d) == Add(d.physical, Bytes(d))
VirtualEnd(d) == Add(d.virtual, Bytes(d))

\* The descriptors the loop does not skip.
Usable(d) ==
  /\ d.pages # 0
  /\ Bytes(d) \div Page = d.pages
  /\ PhysicalEnd(d) > d.physical

IsIdentity(d, a) == d.physical <= a /\ a < PhysicalEnd(d)

IsAlias(d, a) ==
  /\ d.virtual # 0
  /\ VirtualEnd(d) > d.virtual
  /\ d.virtual <= a /\ a < VirtualEnd(d)

Translate(d, a) ==
  IF IsIdentity(d, a) THEN a ELSE Add(d.physical, a - d.virtual)

\* The descriptors of a map at which the loop could stop; it does at the first.
Hits(map, a) ==
  {i \in DOMAIN map : Usable(map[i]) /\ (IsIdentity(map[i], a) \/ IsAlias(map[i], a))}
FirstHit(map, a) == CHOOSE i \in Hits(map, a) : \A j \in Hits(map, a) : i <= j

PhysicalAddress(map, a) ==
  IF a = 0 \/ Hits(map, a) = {} THEN 0 ELSE Translate(map[FirstHit(map, a)], a)

-----------------------------------------------------------------------------
(* What the map says, in exact arithmetic.                                 *)

\* A range of physical memory that exists: it ends inside the address space.
Exists(d) == d.pages # 0 /\ d.physical + d.pages * Page < Word
InRange(start, d, a) == start <= a /\ a < start + d.pages * Page

\* Every answer but 0 is a physical address of an existing range, at the same
\* place in it as the address has in the range or in its alias.
AnswerIsInTheMap(map, a) ==
  LET answer == PhysicalAddress(map, a) IN
  answer # 0 =>
    \E i \in DOMAIN map :
      /\ Exists(map[i]) /\ InRange(map[i].physical, map[i], answer)
      /\ \/ answer = a
         \/ InRange(map[i].virtual, map[i], a)
            /\ answer - map[i].physical = a - map[i].virtual

\* The alias of a range, when it has one that ends inside the address space.
InAlias(d, a) ==
  /\ d.virtual # 0 /\ d.virtual + d.pages * Page < Word
  /\ InRange(d.virtual, d, a)

\* 0 is only answered for an address that no existing range holds, directly or
\* through its alias; or for the alias of physical address 0, which the answer
\* cannot tell from an absent one.
ZeroMeansAbsent(map, a) ==
  PhysicalAddress(map, a) = 0 /\ a # 0 =>
    \/ \E i \in DOMAIN map :
         Exists(map[i]) /\ map[i].physical = 0 /\ map[i].virtual = a
    \/ \A i \in DOMAIN map :
         Exists(map[i]) => /\ ~InRange(map[i].physical, map[i], a)
                          /\ ~InAlias(map[i], a)
=============================================================================
