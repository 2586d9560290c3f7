---------------------------- MODULE Serialization ----------------------------
(***************************************************************************)
(* How a message becomes bytes and is a message again: serialize() and     *)
(* deserialize() of serialization.h.                                       *)
(*                                                                         *)
(* An object is copied twice into one buffer.  The words of the copies     *)
(* that differ are its pointers; they are made relative, and their indices *)
(* are written over the second copy while it is still being read, two of   *)
(* them in a word.  The receiver adds the address of its own buffer.       *)
(*                                                                         *)
(* Memory is a sequence of halves of words, of the values 0 .. Half - 1,   *)
(* and an address counts words.  Indices start at 1 and are the code's     *)
(* plus one, but for those that are stored.                                *)
(***************************************************************************)
EXTENDS Integers, Sequences, SequencesExt

CONSTANT Half  \* 2^32 in the code: the number of values of an int

(* An object: each word is a number or a pointer to one of its words.      *)
Word(n) == [pointer : {TRUE}, value : 0 .. n - 1] \cup [pointer : {FALSE}, value : {0, Half + 1}]
Objects(n) == UNION {[1 .. k -> Word(k)] : k \in 1 .. n}

WordAt(mem, i) == mem[2 * i - 1] + Half * mem[2 * i]
Halves(x) == <<x % Half, x \div Half>>
SetWord(mem, i, x) == [mem EXCEPT ![2 * i - 1] = Halves(x)[1], ![2 * i] = Halves(x)[2]]

(* The copy of an object at an address.                                    *)
CopyOf(obj, base) ==
  FlattenSeq([i \in DOMAIN obj |->
                Halves(IF obj[i].pointer THEN base + obj[i].value ELSE obj[i].value)])

(* A slip: the second index of a word is written to the wrong half.        *)
IndexPlaceWhole(n, found) == 2 * (n + found) + 1

(* The indices of the pointers follow the first copy.                      *)
IndexPlace(n, found) == 2 * n + found + 1

(* One turn of the loop: the memory, and how many pointers were found.     *)
Relocated(mem, found, i, n, base) ==
  IF WordAt(mem, n + i) = WordAt(mem, i)
    THEN [mem |-> mem, found |-> found]
    ELSE [mem |-> [SetWord(mem, i, WordAt(mem, i) - base)
                     EXCEPT ![IndexPlace(n, found)] = i - 1],
          found |-> found + 1]

Serialize(obj, base) ==
  LET n == Len(obj)
      loop[i \in 0 .. n] ==
        IF i = 0
          THEN [mem |-> CopyOf(obj, base) \o CopyOf(obj, base + n), found |-> 0]
          ELSE Relocated(loop[i - 1].mem, loop[i - 1].found, i, n, base)
      ends == 2 * n + loop[n].found + 1
  IN  SubSeq([loop[n].mem EXCEPT ![ends] = 2 * n], 1, ends)

(* FALSE stands for a VERIFY that fails.                                   *)
Deserialize(buf, base) ==
  LET intCount == Len(buf) - 1
      diffIndex == buf[Len(buf)]
      loop[i \in diffIndex .. intCount] ==
        IF i = diffIndex
          THEN buf
          ELSE LET mem == loop[i - 1]
               IN  SetWord(mem, mem[i] + 1, WordAt(mem, mem[i] + 1) + base)
      valid == /\ diffIndex <= intCount
               /\ \A i \in diffIndex + 1 .. intCount : buf[i] < diffIndex \div 2
  IN  IF valid THEN SubSeq(loop[intCount], 1, diffIndex) ELSE FALSE
=============================================================================
