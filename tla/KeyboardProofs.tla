--------------------------- MODULE KeyboardProofs ---------------------------
(***************************************************************************)
(* The keyboard driver follows its user, for every set of keys and any     *)
(* number of bytes that wait in the controller.                            *)
(*                                                                         *)
(* The driver reads the codes later than the user sends them.  The         *)
(* invariant is therefore about the future: what the driver will be in,    *)
(* once it has read the bytes of port one after the other, is what the     *)
(* user is in now.  The states in between are a function over the          *)
(* positions of port.                                                      *)
(***************************************************************************)
EXTENDS Keyboard, SequenceTheorems, TLAPS

Bytes == 0..255
Ext == \he0          \* the prefix
Characters == Bytes \X BOOLEAN

(* The state of the driver as a set of flags. *)
Modifiers == {"ctrl", "shift", "alt", "caps"}
FlagNames == Modifiers \cup {"ext"}

DriverFlags ==
  {n \in FlagNames : \/ n = "ctrl" /\ ctrl_status
                     \/ n = "shift" /\ shift_status
                     \/ n = "alt" /\ alt_status
                     \/ n = "caps" /\ caps_lock_status
                     \/ n = "ext" /\ ext_scancode}

(* What the flags should be when all is read. *)
UserFlags ==
  {n \in FlagNames : \/ n = "ctrl" /\ down \cap CtrlKeys # {}
                     \/ n = "shift" /\ down \cap ShiftKeys # {}
                     \/ n = "alt" /\ down \cap AltKeys # {}
                     \/ n = "caps" /\ caps_on}

(* What one byte does to the flags, and to the characters. *)
Code(flags, byte) == IF "ext" \in flags THEN \he000 + byte ELSE byte
Mapped(code) == (code > 0 /\ code < \h3b) \/ code \in {\he038, \he01d}
MakeCodes(n) ==
  IF n = "ctrl" THEN CtrlCodes ELSE IF n = "shift" THEN ShiftCodes
  ELSE IF n = "alt" THEN AltCodes ELSE {}
SetBytes(n) ==
  IF n = "ctrl" THEN {\h1d} ELSE IF n = "shift" THEN {\h2a, \h36}
  ELSE IF n = "alt" THEN {\h38} ELSE {}

Kept(n, flags, byte) ==
  IF byte >= \h80 THEN n \in flags /\ Code(flags, byte) - \h80 \notin MakeCodes(n)
  ELSE IF ~Mapped(Code(flags, byte)) THEN n \in flags
  ELSE IF n = "caps" THEN n \in flags <=> byte # \h3a
  ELSE n \in flags \/ byte \in SetBytes(n)

NextFlags(flags, byte) ==
  IF byte = \he0 THEN flags \cup {"ext"} ELSE {n \in Modifiers : Kept(n, flags, byte)}

Visible(flags, byte) ==
  byte < \h80 /\ Mapped(Code(flags, byte)) /\ byte \notin Invisible
TwoOn(code) ==
  code < \h0e \/ code \in {\h29, \h1a, \h1b, \h2b, \h27, \h28, \h33, \h34, \h35}
Upper(flags, byte) ==
  \/ "shift" \in flags /\ (TwoOn(Code(flags, byte)) \/ "caps" \notin flags)
  \/ "shift" \notin flags /\ "caps" \in flags /\ ~TwoOn(Code(flags, byte))

NextTyped(flags, chars, byte) ==
  IF Visible(flags, byte) THEN Append(chars, keymap(byte, Upper(flags, byte))) ELSE chars

(* The one sequence begins with the other. *)
Begins(a, b) == Len(a) <= Len(b) /\ \A j \in 1..Len(a) : a[j] = b[j]

(* Reading p takes the driver from the one state to the other: f[i] and    *)
(* t[i] are the flags and the characters after i bytes.                    *)
Reads(flags0, chars0, p, flags1, chars1) ==
  \E f \in [0..Len(p) -> SUBSET FlagNames], t \in [0..Len(p) -> Seq(Characters)] :
    /\ f[0] = flags0 /\ t[0] = chars0
    /\ f[Len(p)] = flags1 /\ t[Len(p)] = chars1
    /\ \A i \in 1..Len(p) : /\ f[i] = NextFlags(f[i - 1], p[i])
                            /\ t[i] = NextTyped(f[i - 1], t[i - 1], p[i])
    /\ \A i \in 0..Len(p) : Begins(t[i], chars1)

-----------------------------------------------------------------------------
(* Reading bytes. *)

(* A byte leaves flags and characters, and takes no character away. *)
LEMMA NextTypes ==
  ASSUME NEW f \in SUBSET FlagNames, NEW t \in Seq(Characters), NEW b \in Bytes
  PROVE  /\ NextFlags(f, b) \in SUBSET FlagNames
         /\ NextTyped(f, t, b) \in Seq(Characters)
         /\ Begins(t, NextTyped(f, t, b))
<1>1. NextFlags(f, b) \in SUBSET FlagNames
  <2> HIDE DEF Kept
  <2> QED  BY DEF NextFlags, FlagNames
<1>2. PICK c \in Characters : c = keymap(b, Upper(f, b))
  <2>1. \A u : (u /\ b \notin SameInBoth) \in BOOLEAN
    BY Zenon
  <2>2. \A u : u \in BOOLEAN => <<b, u>> \in Bytes \X BOOLEAN
    BY Zenon
  <2>3. keymap(b, Upper(f, b)) \in Characters
    BY <2>1, <2>2, Zenon DEF keymap, Characters
  <2> QED  BY <2>3, Zenon
<1>3. /\ Append(t, c) \in Seq(Characters) /\ Len(Append(t, c)) = Len(t) + 1 /\ Len(t) \in Nat
      /\ \A j \in 1..Len(t) : Append(t, c)[j] = t[j]
  BY AppendProperties, LenProperties
<1>4. Begins(t, t)
  BY <1>3 DEF Begins
<1>5. Begins(t, Append(t, c))
  BY <1>3 DEF Begins
<1>6. NextTyped(f, t, b) = t \/ NextTyped(f, t, b) = Append(t, c)
  BY <1>2 DEF NextTyped
<1> QED  BY <1>1, <1>3, <1>4, <1>5, <1>6

LEMMA BeginsTransitive ==
  ASSUME NEW a \in Seq(Characters), NEW b \in Seq(Characters), NEW c \in Seq(Characters),
         Begins(a, b), Begins(b, c)
  PROVE  Begins(a, c)
<1>1. Len(a) \in Nat /\ Len(b) \in Nat /\ Len(c) \in Nat
  BY LenProperties
<1> QED  BY <1>1 DEF Begins

(* When there is nothing to read, the driver is where it will be. *)
LEMMA ReadsNone ==
  ASSUME NEW f0, NEW t0, NEW f1, NEW t1, Reads(f0, t0, << >>, f1, t1)
  PROVE  f0 = f1 /\ t0 = t1
  BY DEF Reads

(* And it is there at the beginning, when nothing was sent. *)
LEMMA ReadsNothing ==
  ASSUME NEW f0 \in SUBSET FlagNames, NEW t0 \in Seq(Characters)
  PROVE  Reads(f0, t0, << >>, f0, t0)
<1>1. Len(<< >>) = 0 /\ Len(t0) \in Nat
  BY LenProperties
<1>2. PICK f \in [0..0 -> SUBSET FlagNames] : f[0] = f0
  <2>1. [i \in 0..0 |-> f0] \in [0..0 -> SUBSET FlagNames] /\ [i \in 0..0 |-> f0][0] = f0
    OBVIOUS
  <2> QED  BY <2>1
<1>3. PICK t \in [0..0 -> Seq(Characters)] : t[0] = t0
  <2>1. [i \in 0..0 |-> t0] \in [0..0 -> Seq(Characters)] /\ [i \in 0..0 |-> t0][0] = t0
    OBVIOUS
  <2> QED  BY <2>1
<1>4. \A i \in 0..0 : Begins(t[i], t0)
  BY <1>1, <1>3 DEF Begins
<1> QED  BY <1>1, <1>2, <1>3, <1>4 DEF Reads

(* A byte that is read is the first. *)
LEMMA ReadsOne ==
  ASSUME NEW f0, NEW t0, NEW f1, NEW t1, NEW p \in Seq(Bytes), p # << >>,
         Reads(f0, t0, p, f1, t1)
  PROVE  Reads(NextFlags(f0, Head(p)), NextTyped(f0, t0, Head(p)), Tail(p), f1, t1)
<1>1. PICK f \in [0..Len(p) -> SUBSET FlagNames], t \in [0..Len(p) -> Seq(Characters)] :
        /\ f[0] = f0 /\ t[0] = t0
        /\ f[Len(p)] = f1 /\ t[Len(p)] = t1
        /\ \A i \in 1..Len(p) : /\ f[i] = NextFlags(f[i - 1], p[i])
                                /\ t[i] = NextTyped(f[i - 1], t[i - 1], p[i])
        /\ \A i \in 0..Len(p) : Begins(t[i], t1)
  BY DEF Reads
<1>2. PICK n \in Nat : n = Len(p) - 1
  <2>1. Len(p) \in Nat /\ Len(p) # 0
    BY LenProperties, EmptySeq
  <2>2. PICK m \in Nat : m = Len(p)
    BY <2>1, Zenon
  <2>3. m - 1 \in Nat
    BY <2>1, <2>2
  <2> QED  BY <2>2, <2>3, Zenon
<1>3. /\ Len(Tail(p)) = n /\ Head(p) = p[1] /\ Len(p) = n + 1
      /\ \A i \in 1..n : Tail(p)[i] = p[i + 1]
  BY <1>2, HeadTailProperties, LenProperties
<1>4. PICK g \in [0..n -> SUBSET FlagNames] : \A i \in 0..n : g[i] = f[i + 1]
  <2>1. [i \in 0..n |-> f[i + 1]] \in [0..n -> SUBSET FlagNames]
    BY <1>3
  <2> QED  BY <2>1
<1>5. PICK u \in [0..n -> Seq(Characters)] : \A i \in 0..n : u[i] = t[i + 1]
  <2>1. [i \in 0..n |-> t[i + 1]] \in [0..n -> Seq(Characters)]
    BY <1>3
  <2> QED  BY <2>1
<1>6. 1 \in 1..Len(p) /\ 0 \in 0..n /\ n \in 0..n
  BY <1>2, <1>3
<1>7. g[0] = NextFlags(f0, Head(p)) /\ u[0] = NextTyped(f0, t0, Head(p))
  <2>1. f[1] = NextFlags(f[1 - 1], p[1]) /\ t[1] = NextTyped(f[1 - 1], t[1 - 1], p[1])
    BY <1>1, <1>6
  <2>2. g[0] = f[1] /\ u[0] = t[1] /\ 1 - 1 = 0
    BY <1>4, <1>5, <1>6
  <2> QED  BY <1>1, <1>3, <2>1, <2>2
<1>8. g[n] = f1 /\ u[n] = t1
  BY <1>1, <1>3, <1>4, <1>5, <1>6
<1>9. ASSUME NEW i \in 1..n
      PROVE  /\ g[i] = NextFlags(g[i - 1], Tail(p)[i])
             /\ u[i] = NextTyped(g[i - 1], u[i - 1], Tail(p)[i])
  <2>1. i + 1 \in 1..Len(p) /\ i \in 0..n /\ i - 1 \in 0..n /\ (i + 1) - 1 = i /\ (i - 1) + 1 = i
    BY <1>3
  <2>2. f[i + 1] = NextFlags(f[i], p[i + 1]) /\ t[i + 1] = NextTyped(f[i], t[i], p[i + 1])
    BY <1>1, <2>1
  <2>3. g[i] = f[i + 1] /\ u[i] = t[i + 1] /\ g[i - 1] = f[i] /\ u[i - 1] = t[i]
    BY <1>4, <1>5, <2>1
  <2> QED  BY <1>3, <2>2, <2>3
<1>10. \A i \in 0..n : Begins(u[i], t1)
  <2>1. ASSUME NEW i \in 0..n
        PROVE  Begins(u[i], t1)
    <3>1. i + 1 \in 0..Len(p) /\ u[i] = t[i + 1]
      BY <1>3, <1>5
    <3> QED  BY <1>1, <3>1
  <2> QED  BY <2>1
<1> QED
  <2> HIDE DEF NextFlags, NextTyped
  <2> QED  BY <1>3, <1>7, <1>8, <1>9, <1>10 DEF Reads

(* A byte that is sent is the last. *)
LEMMA ReadsMore ==
  ASSUME NEW f0, NEW t0, NEW f1, NEW t1, NEW p \in Seq(Bytes), NEW b \in Bytes,
         Reads(f0, t0, p, f1, t1)
  PROVE  /\ Append(p, b) \in Seq(Bytes)
         /\ Reads(f0, t0, Append(p, b), NextFlags(f1, b), NextTyped(f1, t1, b))
<1>1. PICK f \in [0..Len(p) -> SUBSET FlagNames], t \in [0..Len(p) -> Seq(Characters)] :
        /\ f[0] = f0 /\ t[0] = t0
        /\ f[Len(p)] = f1 /\ t[Len(p)] = t1
        /\ \A i \in 1..Len(p) : /\ f[i] = NextFlags(f[i - 1], p[i])
                                /\ t[i] = NextTyped(f[i - 1], t[i - 1], p[i])
        /\ \A i \in 0..Len(p) : Begins(t[i], t1)
  BY DEF Reads
<1>2. PICK n \in Nat : n = Len(p)
  BY LenProperties
<1>3. PICK q : q = Append(p, b)
  OBVIOUS
<1>4. /\ q \in Seq(Bytes) /\ Len(q) = n + 1 /\ q[n + 1] = b
      /\ \A i \in 1..n : q[i] = p[i]
  BY <1>2, <1>3, AppendProperties
<1>5. PICK f2, t2 : f2 = NextFlags(f1, b) /\ t2 = NextTyped(f1, t1, b)
  OBVIOUS
<1>6. f2 \in SUBSET FlagNames /\ t2 \in Seq(Characters) /\ Begins(t1, t2)
  <2>1. f1 \in SUBSET FlagNames /\ t1 \in Seq(Characters)
    BY <1>1, <1>2
  <2> QED  BY <1>5, <2>1, NextTypes
<1>7. PICK g \in [0..(n + 1) -> SUBSET FlagNames] :
        g[n + 1] = f2 /\ \A i \in 0..n : g[i] = f[i]
  <2>1. PICK h : h = [i \in 0..(n + 1) |-> IF i = n + 1 THEN f2 ELSE f[i]]
    OBVIOUS
  <2>2. h \in [0..(n + 1) -> SUBSET FlagNames]
    BY <1>2, <1>6, <2>1
  <2>3. h[n + 1] = f2 /\ \A i \in 0..n : h[i] = f[i]
    BY <2>1
  <2> QED  BY <2>2, <2>3, Zenon
<1>8. PICK u \in [0..(n + 1) -> Seq(Characters)] :
        u[n + 1] = t2 /\ \A i \in 0..n : u[i] = t[i]
  <2>1. PICK h : h = [i \in 0..(n + 1) |-> IF i = n + 1 THEN t2 ELSE t[i]]
    OBVIOUS
  <2>2. h \in [0..(n + 1) -> Seq(Characters)]
    BY <1>2, <1>6, <2>1
  <2>3. h[n + 1] = t2 /\ \A i \in 0..n : h[i] = t[i]
    BY <2>1
  <2> QED  BY <2>2, <2>3, Zenon
<1>9. g[0] = f0 /\ u[0] = t0
  BY <1>1, <1>7, <1>8
<1>10. ASSUME NEW i \in 1..(n + 1)
       PROVE  g[i] = NextFlags(g[i - 1], q[i]) /\ u[i] = NextTyped(g[i - 1], u[i - 1], q[i])
  <2>1. CASE i = n + 1
    <3>1. n \in 0..n /\ i - 1 = n
      BY <2>1
    <3>2. g[i - 1] = f1 /\ u[i - 1] = t1 /\ q[i] = b /\ g[i] = f2 /\ u[i] = t2
      BY <1>1, <1>2, <1>4, <1>7, <1>8, <2>1, <3>1
    <3> QED  BY <1>5, <3>2, Zenon
  <2>2. CASE i \in 1..n
    <3>1. i \in 0..n /\ i - 1 \in 0..n
      BY <2>2
    <3>2. g[i] = f[i] /\ u[i] = t[i] /\ g[i - 1] = f[i - 1] /\ u[i - 1] = t[i - 1] /\ q[i] = p[i]
      BY <1>4, <1>7, <1>8, <2>2, <3>1
    <3> QED  BY <1>1, <1>2, <2>2, <3>2, Zenon
  <2> QED  BY <2>1, <2>2
<1>11. ASSUME NEW i \in 0..(n + 1)
       PROVE  Begins(u[i], t2)
  <2>1. CASE i = n + 1
    <3>1. Len(t2) \in Nat
      BY <1>6, LenProperties
    <3> QED  BY <1>8, <2>1, <3>1 DEF Begins
  <2>2. CASE i \in 0..n
    <3>1. u[i] = t[i] /\ Begins(t[i], t1) /\ t[i] \in Seq(Characters) /\ t1 \in Seq(Characters)
      <4>1. i \in 0..Len(p) /\ Len(p) \in 0..Len(p)
        BY <1>2, <2>2
      <4>2. t[i] \in Seq(Characters) /\ t[Len(p)] \in Seq(Characters)
        BY <4>1, Zenon
      <4> QED  BY <1>1, <1>8, <2>2, <4>1, <4>2, Zenon
    <3> QED  BY <1>6, <3>1, BeginsTransitive
  <2> QED  BY <2>1, <2>2
<1>12. Reads(f0, t0, q, f2, t2)
  BY <1>4, <1>7, <1>8, <1>9, <1>10, <1>11 DEF Reads
<1> QED  BY <1>3, <1>4, <1>5, <1>12, Zenon

(* What is read is the beginning of what will have been read. *)
LEMMA ReadsBegin ==
  ASSUME NEW f0, NEW t0, NEW f1, NEW t1, NEW p \in Seq(Bytes), Reads(f0, t0, p, f1, t1)
  PROVE  Begins(t0, t1)
<1>1. Len(p) \in Nat
  BY LenProperties
<1> QED  BY <1>1 DEF Reads

-----------------------------------------------------------------------------
(* The invariant. *)

KeyTypes ==
  /\ ctrl_status \in BOOLEAN /\ shift_status \in BOOLEAN /\ alt_status \in BOOLEAN
  /\ caps_lock_status \in BOOLEAN /\ ext_scancode \in BOOLEAN /\ caps_on \in BOOLEAN
  /\ port \in Seq(Bytes) /\ typed \in Seq(Characters) /\ meant \in Seq(Characters)
  /\ down \subseteq Keys

Follows == Reads(DriverFlags, typed, port, UserFlags, meant)

KeyboardInv == KeyTypes /\ Follows

(* The flags, one by one. *)
Flagged ==
  /\ DriverFlags \in SUBSET FlagNames
  /\ "ctrl" \in DriverFlags <=> ctrl_status
  /\ "shift" \in DriverFlags <=> shift_status
  /\ "alt" \in DriverFlags <=> alt_status
  /\ "caps" \in DriverFlags <=> caps_lock_status
  /\ "ext" \in DriverFlags <=> ext_scancode

LEMMA DriverFlagged == Flagged
  BY DEF Flagged, DriverFlags, FlagNames, Modifiers

UserFlagged ==
  /\ UserFlags \in SUBSET FlagNames
  /\ "ctrl" \in UserFlags <=> down \cap CtrlKeys # {}
  /\ "shift" \in UserFlags <=> down \cap ShiftKeys # {}
  /\ "alt" \in UserFlags <=> down \cap AltKeys # {}
  /\ "caps" \in UserFlags <=> caps_on
  /\ "ext" \notin UserFlags

LEMMA UserFlaggedHolds == UserFlagged
  BY DEF UserFlagged, UserFlags, FlagNames, Modifiers

(* Sets of flags with the same members. *)
LEMMA SameFlags ==
  ASSUME NEW A \in SUBSET FlagNames, NEW B \in SUBSET FlagNames,
         "ctrl" \in A <=> "ctrl" \in B, "shift" \in A <=> "shift" \in B,
         "alt" \in A <=> "alt" \in B, "caps" \in A <=> "caps" \in B, "ext" \in A <=> "ext" \in B
  PROVE  A = B
<1>1. \A n \in FlagNames : n = "ctrl" \/ n = "shift" \/ n = "alt" \/ n = "caps" \/ n = "ext"
  BY DEF FlagNames, Modifiers
<1>2. \A n \in FlagNames : n \in A <=> n \in B
  BY <1>1
<1>3. A \subseteq FlagNames /\ B \subseteq FlagNames
  OBVIOUS
<1> QED  BY <1>2, <1>3, Zenon

-----------------------------------------------------------------------------
(* intr_keyboard_handler. *)

Handler ==
  \/ PrefixInterrupt \/ BreakInterrupt
  \/ CharacterInterrupt \/ ModifierInterrupt \/ UnknownInterrupt

(* The scan code, with the prefix of the byte before. *)
LEMMA Scancode ==
  ASSUME KeyTypes, NEW b, b = Head(port), port # << >>
  PROVE  /\ b \in Nat /\ b < 256
         /\ scancode = Code(DriverFlags, b) /\ scancode \in Nat
         /\ scancode % 256 = b
         /\ break_code <=> b >= 128
         /\ scancode - 128 \in Int
<1>1. b \in Nat /\ b < 256
  <2>1. b \in Bytes
    BY HeadTailProperties DEF KeyTypes
  <2>2. \A x \in Bytes : x \in Nat /\ x < 256
    BY DEF Bytes
  <2> QED  BY <2>1, <2>2, Zenon
<1>2. scancode = Code(DriverFlags, b)
  <2>1. "ext" \in DriverFlags <=> ext_scancode
    BY DriverFlagged DEF Flagged
  <2> QED  BY <1>1, <2>1, SMT DEF scancode, Code
<1>3. scancode = 57344 + b \/ scancode = b
  BY <1>2, SMT DEF Code
<1>4. (57344 + b) % 256 = b /\ b % 256 = b
  BY <1>1, SMT
<1>5. scancode \in Nat /\ scancode % 256 = b
  BY <1>1, <1>3, <1>4, SMT
<1> QED  BY <1>1, <1>2, <1>5, SMT DEF break_code

(* What the handler does to the flags and the characters is what one byte  *)
(* does to them.                                                           *)
LEMMA HandlerReads ==
  ASSUME KeyTypes, Handler
  PROVE  /\ port # << >> /\ port' = Tail(port) /\ Head(port) \in Bytes
         /\ DriverFlags' = NextFlags(DriverFlags, Head(port))
         /\ typed' = NextTyped(DriverFlags, typed, Head(port))
         /\ UNCHANGED userVars
<1>1. port # << >> /\ port' = Tail(port) /\ UNCHANGED userVars
  BY DEF Handler, PrefixInterrupt, BreakInterrupt, CharacterInterrupt, ModifierInterrupt,
         UnknownInterrupt, Read
<1>2. PICK b : b = Head(port)
  OBVIOUS
<1>3. PICK code \in Nat : /\ code = scancode /\ code = Code(DriverFlags, b)
                          /\ scancode % 256 = b /\ b \in Nat /\ b < 256
                          /\ break_code <=> b >= 128
  BY <1>1, <1>2, Scancode
<1>4. b \in Bytes
  BY <1>3 DEF Bytes
<1>5. InKeymap <=> Mapped(code)
  BY <1>3, SMT DEF InKeymap, Mapped
<1>6. Flagged /\ Flagged'
  BY DriverFlagged, PTL
<1>7. NextFlags(DriverFlags, b) \in SUBSET FlagNames
  BY <1>4, <1>6, NextTypes DEF Flagged, KeyTypes
<1>8. TwoCharacters <=> TwoOn(code)
  BY <1>3, SMT DEF TwoCharacters, TwoOn
<1>9. CASE PrefixInterrupt
  <2>1. /\ b = 224 /\ ext_scancode' /\ UNCHANGED statusVars /\ typed' = typed
    BY <1>2, <1>9 DEF PrefixInterrupt
  <2>2. NextFlags(DriverFlags, b) = DriverFlags \cup {"ext"}
    BY <2>1, SMT DEF NextFlags
  <2>3. DriverFlags' = NextFlags(DriverFlags, b)
    BY <1>6, <1>7, <2>1, <2>2, SameFlags DEF Flagged, statusVars
  <2>4. NextTyped(DriverFlags, typed, b) = typed
    BY <2>1, SMT DEF NextTyped, Visible
  <2> QED  BY <1>1, <1>2, <1>4, <2>1, <2>3, <2>4, Zenon
<1>10. ASSUME b # 224
       PROVE  /\ "ctrl" \in NextFlags(DriverFlags, b) <=> Kept("ctrl", DriverFlags, b)
              /\ "shift" \in NextFlags(DriverFlags, b) <=> Kept("shift", DriverFlags, b)
              /\ "alt" \in NextFlags(DriverFlags, b) <=> Kept("alt", DriverFlags, b)
              /\ "caps" \in NextFlags(DriverFlags, b) <=> Kept("caps", DriverFlags, b)
              /\ "ext" \notin NextFlags(DriverFlags, b)
  <2>1. NextFlags(DriverFlags, b) = {n \in Modifiers : Kept(n, DriverFlags, b)}
    BY <1>10, SMT DEF NextFlags
  <2>2. /\ "ctrl" \in Modifiers /\ "shift" \in Modifiers /\ "alt" \in Modifiers
        /\ "caps" \in Modifiers /\ "ext" \notin Modifiers
    BY DEF Modifiers
  <2> QED  BY <2>1, <2>2, Zenon
<1>11. CASE BreakInterrupt
  <2>1. /\ b # 224 /\ b >= 128 /\ ~ext_scancode' /\ typed' = typed
        /\ caps_lock_status' = caps_lock_status
        /\ ctrl_status' <=> ctrl_status /\ code - 128 \notin CtrlCodes
        /\ shift_status' <=> shift_status /\ code - 128 \notin ShiftCodes
        /\ alt_status' <=> alt_status /\ code - 128 \notin AltCodes
    <3>1. /\ ctrl_status' = (ctrl_status /\ scancode - 128 \notin CtrlCodes)
          /\ shift_status' = (shift_status /\ scancode - 128 \notin ShiftCodes)
          /\ alt_status' = (alt_status /\ scancode - 128 \notin AltCodes)
      BY <1>11, Zenon DEF BreakInterrupt
    <3>2. /\ b # 224 /\ b >= 128 /\ ~ext_scancode' /\ typed' = typed
          /\ caps_lock_status' = caps_lock_status
      BY <1>2, <1>3, <1>11 DEF BreakInterrupt
    <3> QED  BY <1>3, <3>1, <3>2, Zenon
  <2>2. /\ Kept("ctrl", DriverFlags, b) <=> ctrl_status'
        /\ Kept("shift", DriverFlags, b) <=> shift_status'
        /\ Kept("alt", DriverFlags, b) <=> alt_status'
        /\ Kept("caps", DriverFlags, b) <=> caps_lock_status'
    BY <1>3, <1>6, <2>1, SMT DEF Kept, MakeCodes, Flagged
  <2>3. DriverFlags' = NextFlags(DriverFlags, b)
    BY <1>6, <1>7, <1>10, <2>1, <2>2, SameFlags DEF Flagged
  <2>4. NextTyped(DriverFlags, typed, b) = typed
    BY <1>3, <2>1, SMT DEF NextTyped, Visible
  <2> QED  BY <1>1, <1>2, <1>4, <2>1, <2>3, <2>4, Zenon
<1>12. CASE CharacterInterrupt
  <2>1. /\ b # 224 /\ b < 128 /\ Mapped(code) /\ b \notin Invisible /\ ~ext_scancode'
        /\ UNCHANGED statusVars /\ typed' = Append(typed, keymap(b, shift_column))
    <3>1. typed' = Append(typed, keymap(scancode % 256, shift_column))
      BY <1>12, Zenon DEF CharacterInterrupt
    <3>2. /\ b # 224 /\ ~break_code /\ InKeymap /\ scancode % 256 \notin Invisible
          /\ ~ext_scancode' /\ UNCHANGED statusVars
      BY <1>2, <1>12, Zenon DEF CharacterInterrupt
    <3>3. b < 128
      BY <1>3, <3>2
    <3> QED  BY <1>3, <1>5, <3>1, <3>2, <3>3, Zenon
  <2>2. /\ Kept("ctrl", DriverFlags, b) <=> ctrl_status'
        /\ Kept("shift", DriverFlags, b) <=> shift_status'
        /\ Kept("alt", DriverFlags, b) <=> alt_status'
        /\ Kept("caps", DriverFlags, b) <=> caps_lock_status'
    BY <1>3, <1>6, <2>1, SMT DEF Kept, SetBytes, Invisible, Flagged, statusVars
  <2>3. DriverFlags' = NextFlags(DriverFlags, b)
    BY <1>6, <1>7, <1>10, <2>1, <2>2, SameFlags DEF Flagged
  <2>4. Visible(DriverFlags, b)
    BY <1>3, <2>1, SMT DEF Visible
  <2>5. shift_column <=> Upper(DriverFlags, b)
    BY <1>3, <1>6, <1>8, SMT DEF shift_column, Upper, Flagged, KeyTypes
  <2>6. keymap(b, shift_column) = keymap(b, Upper(DriverFlags, b))
    <3>1. (shift_column /\ b \notin SameInBoth) = (Upper(DriverFlags, b) /\ b \notin SameInBoth)
      BY <2>5, Zenon
    <3> QED  BY <3>1, Zenon DEF keymap
  <2>7. typed' = NextTyped(DriverFlags, typed, b)
    BY <2>1, <2>4, <2>6, Zenon DEF NextTyped
  <2> QED  BY <1>1, <1>2, <1>4, <2>3, <2>7, Zenon
<1>13. CASE ModifierInterrupt
  <2>1. /\ b # 224 /\ b < 128 /\ Mapped(code) /\ b \in Invisible /\ ~ext_scancode'
        /\ typed' = typed
        /\ ctrl_status' <=> ctrl_status \/ b = 29
        /\ shift_status' <=> shift_status \/ b \in {42, 54}
        /\ alt_status' <=> alt_status \/ b = 56
        /\ caps_lock_status' <=> (caps_lock_status <=> b # 58)
    <3>1. /\ ctrl_status' = (ctrl_status \/ scancode % 256 = 29)
          /\ shift_status' = (shift_status \/ scancode % 256 \in {42, 54})
          /\ alt_status' = (alt_status \/ scancode % 256 = 56)
          /\ caps_lock_status' = (caps_lock_status # (scancode % 256 = 58))
          /\ scancode % 256 \in Invisible
      BY <1>13, Zenon DEF ModifierInterrupt
    <3>2. /\ b # 224 /\ ~break_code /\ InKeymap /\ ~ext_scancode' /\ typed' = typed
      BY <1>2, <1>13, Zenon DEF ModifierInterrupt
    <3>3. b < 128
      BY <1>3, <3>2
    <3>4. caps_lock_status' <=> (caps_lock_status <=> b # 58)
      BY <1>3, <3>1, Zenon DEF KeyTypes
    <3> QED  BY <1>3, <1>5, <3>1, <3>2, <3>3, <3>4, Zenon
  <2>2. /\ Kept("ctrl", DriverFlags, b) <=> ctrl_status'
        /\ Kept("shift", DriverFlags, b) <=> shift_status'
        /\ Kept("alt", DriverFlags, b) <=> alt_status'
        /\ Kept("caps", DriverFlags, b) <=> caps_lock_status'
    BY <1>3, <1>6, <2>1, SMT DEF Kept, SetBytes, Flagged
  <2>3. DriverFlags' = NextFlags(DriverFlags, b)
    BY <1>6, <1>7, <1>10, <2>1, <2>2, SameFlags DEF Flagged
  <2>4. NextTyped(DriverFlags, typed, b) = typed
    BY <2>1, Zenon DEF NextTyped, Visible
  <2> QED  BY <1>1, <1>2, <1>4, <2>1, <2>3, <2>4, Zenon
<1>14. CASE UnknownInterrupt
  <2>1. /\ b # 224 /\ b < 128 /\ ~Mapped(code) /\ ~ext_scancode'
        /\ UNCHANGED statusVars /\ typed' = typed
    BY <1>2, <1>3, <1>5, <1>14, SMT DEF UnknownInterrupt
  <2>2. /\ Kept("ctrl", DriverFlags, b) <=> ctrl_status'
        /\ Kept("shift", DriverFlags, b) <=> shift_status'
        /\ Kept("alt", DriverFlags, b) <=> alt_status'
        /\ Kept("caps", DriverFlags, b) <=> caps_lock_status'
    BY <1>3, <1>6, <2>1, SMT DEF Kept, Flagged, statusVars
  <2>3. DriverFlags' = NextFlags(DriverFlags, b)
    BY <1>6, <1>7, <1>10, <2>1, <2>2, SameFlags DEF Flagged
  <2>4. NextTyped(DriverFlags, typed, b) = typed
    BY <1>3, <2>1, Zenon DEF NextTyped, Visible
  <2> QED  BY <1>1, <1>2, <1>4, <2>1, <2>3, <2>4, Zenon
<1> QED  BY <1>9, <1>11, <1>12, <1>13, <1>14 DEF Handler

-----------------------------------------------------------------------------
(* The codes of the keys. *)

(* What the codes of a key do to flags without the prefix. *)
AfterMake(flags, k) ==
  IF k \in ShiftKeys THEN flags \cup {"shift"}
  ELSE IF k \in CtrlKeys THEN flags \cup {"ctrl"}
  ELSE IF k \in AltKeys THEN flags \cup {"alt"}
  ELSE IF k = "caps_lock" /\ "caps" \in flags THEN flags \ {"caps"}
  ELSE IF k = "caps_lock" THEN flags \cup {"caps"}
  ELSE flags
AfterBreak(flags, k) ==
  IF k \in ShiftKeys THEN flags \ {"shift"}
  ELSE IF k \in CtrlKeys THEN flags \ {"ctrl"}
  ELSE IF k \in AltKeys THEN flags \ {"alt"}
  ELSE flags
CharacterKeys == {"a", "equal", "slash", "backspace"}
TypedBy(flags, chars, k) ==
  IF k \in CharacterKeys
    THEN Append(chars, keymap(MakeCode[k][1], Upper(flags, MakeCode[k][1])))
    ELSE chars

(* The flags after a byte, from what it does to each: the flag m is set,   *)
(* or cleared, or none changes.                                            *)
LEMMA FlagsAfter ==
  ASSUME NEW F \in SUBSET FlagNames, "ext" \notin F, NEW H, NEW b \in Nat, b # 224
  PROVE  /\ \A m \in Modifiers :
              (\A n \in Modifiers : Kept(n, H, b) <=> n \in F \/ n = m)
                => NextFlags(H, b) = F \cup {m}
         /\ \A m \in Modifiers :
              (\A n \in Modifiers : Kept(n, H, b) <=> n \in F /\ n # m)
                => NextFlags(H, b) = F \ {m}
         /\ (\A n \in Modifiers : Kept(n, H, b) <=> n \in F) => NextFlags(H, b) = F
<1>1. NextFlags(H, b) = {n \in Modifiers : Kept(n, H, b)}
  BY SMT DEF NextFlags
<1>2. F \subseteq Modifiers
  BY DEF FlagNames
<1> QED  BY <1>1, <1>2, Zenon

(* Make codes: a modifier is set, Caps Lock changes, other keys leave the flags. *)
LEMMA PlainMake ==
  ASSUME NEW F \in SUBSET FlagNames, "ext" \notin F
  PROVE  /\ NextFlags(F, 42) = F \cup {"shift"}
         /\ NextFlags(F, 54) = F \cup {"shift"}
         /\ NextFlags(F, 29) = F \cup {"ctrl"}
         /\ NextFlags(F, 56) = F \cup {"alt"}
         /\ "caps" \in F => NextFlags(F, 58) = F \ {"caps"}
         /\ "caps" \notin F => NextFlags(F, 58) = F \cup {"caps"}
         /\ NextFlags(F, 30) = F
         /\ NextFlags(F, 13) = F
         /\ NextFlags(F, 53) = F
         /\ NextFlags(F, 14) = F
<1>1. \A n \in Modifiers : Kept(n, F, 42) <=> n \in F \/ n = "shift"
  BY SMT DEF Kept, Code, Mapped, SetBytes, Modifiers
<1>2. \A n \in Modifiers : Kept(n, F, 54) <=> n \in F \/ n = "shift"
  BY SMT DEF Kept, Code, Mapped, SetBytes, Modifiers
<1>3. \A n \in Modifiers : Kept(n, F, 29) <=> n \in F \/ n = "ctrl"
  BY SMT DEF Kept, Code, Mapped, SetBytes, Modifiers
<1>4. \A n \in Modifiers : Kept(n, F, 56) <=> n \in F \/ n = "alt"
  BY SMT DEF Kept, Code, Mapped, SetBytes, Modifiers
<1>5. "caps" \in F => \A n \in Modifiers : Kept(n, F, 58) <=> n \in F /\ n # "caps"
  BY SMT DEF Kept, Code, Mapped, SetBytes, Modifiers
<1>6. "caps" \notin F => \A n \in Modifiers : Kept(n, F, 58) <=> n \in F \/ n = "caps"
  BY SMT DEF Kept, Code, Mapped, SetBytes, Modifiers
<1>7. \A n \in Modifiers : Kept(n, F, 30) <=> n \in F
  BY SMT DEF Kept, Code, Mapped, SetBytes, Modifiers
<1>8. \A n \in Modifiers : Kept(n, F, 13) <=> n \in F
  BY SMT DEF Kept, Code, Mapped, SetBytes, Modifiers
<1>9. \A n \in Modifiers : Kept(n, F, 53) <=> n \in F
  BY SMT DEF Kept, Code, Mapped, SetBytes, Modifiers
<1>10. \A n \in Modifiers : Kept(n, F, 14) <=> n \in F
  BY SMT DEF Kept, Code, Mapped, SetBytes, Modifiers
<1>11. "ctrl" \in Modifiers /\ "shift" \in Modifiers /\ "alt" \in Modifiers /\ "caps" \in Modifiers
  BY DEF Modifiers
<1> QED
  BY <1>1, <1>2, <1>3, <1>4, <1>5, <1>6, <1>7, <1>8, <1>9, <1>10, <1>11,
     FlagsAfter

(* Break codes: a modifier is cleared. *)
LEMMA PlainBreak ==
  ASSUME NEW F \in SUBSET FlagNames, "ext" \notin F
  PROVE  /\ NextFlags(F, 170) = F \ {"shift"}
         /\ NextFlags(F, 182) = F \ {"shift"}
         /\ NextFlags(F, 157) = F \ {"ctrl"}
         /\ NextFlags(F, 184) = F \ {"alt"}
         /\ NextFlags(F, 186) = F
         /\ NextFlags(F, 158) = F
         /\ NextFlags(F, 141) = F
         /\ NextFlags(F, 181) = F
         /\ NextFlags(F, 142) = F
<1>1. \A n \in Modifiers : Kept(n, F, 170) <=> n \in F /\ n # "shift"
  BY SMT DEF Kept, Code, MakeCodes, CtrlCodes, ShiftCodes, AltCodes, Modifiers
<1>2. \A n \in Modifiers : Kept(n, F, 182) <=> n \in F /\ n # "shift"
  BY SMT DEF Kept, Code, MakeCodes, CtrlCodes, ShiftCodes, AltCodes, Modifiers
<1>3. \A n \in Modifiers : Kept(n, F, 157) <=> n \in F /\ n # "ctrl"
  BY SMT DEF Kept, Code, MakeCodes, CtrlCodes, ShiftCodes, AltCodes, Modifiers
<1>4. \A n \in Modifiers : Kept(n, F, 184) <=> n \in F /\ n # "alt"
  BY SMT DEF Kept, Code, MakeCodes, CtrlCodes, ShiftCodes, AltCodes, Modifiers
<1>5. \A n \in Modifiers : Kept(n, F, 186) <=> n \in F
  BY SMT DEF Kept, Code, MakeCodes, CtrlCodes, ShiftCodes, AltCodes, Modifiers
<1>6. \A n \in Modifiers : Kept(n, F, 158) <=> n \in F
  BY SMT DEF Kept, Code, MakeCodes, CtrlCodes, ShiftCodes, AltCodes, Modifiers
<1>7. \A n \in Modifiers : Kept(n, F, 141) <=> n \in F
  BY SMT DEF Kept, Code, MakeCodes, CtrlCodes, ShiftCodes, AltCodes, Modifiers
<1>8. \A n \in Modifiers : Kept(n, F, 181) <=> n \in F
  BY SMT DEF Kept, Code, MakeCodes, CtrlCodes, ShiftCodes, AltCodes, Modifiers
<1>9. \A n \in Modifiers : Kept(n, F, 142) <=> n \in F
  BY SMT DEF Kept, Code, MakeCodes, CtrlCodes, ShiftCodes, AltCodes, Modifiers
<1>10. "ctrl" \in Modifiers /\ "shift" \in Modifiers /\ "alt" \in Modifiers /\ "caps" \in Modifiers
  BY DEF Modifiers
<1> QED
  BY <1>1, <1>2, <1>3, <1>4, <1>5, <1>6, <1>7, <1>8, <1>9, <1>10,
     FlagsAfter

(* After the prefix: Ctrl and Alt of the right side, and the cursor keys. *)
LEMMA PrefixMake ==
  ASSUME NEW F \in SUBSET FlagNames, "ext" \notin F, NEW H, "ext" \in H,
         \A n \in Modifiers : n \in H <=> n \in F
  PROVE  /\ NextFlags(H, 29) = F \cup {"ctrl"}
         /\ NextFlags(H, 56) = F \cup {"alt"}
         /\ NextFlags(H, 42) = F
         /\ NextFlags(H, 72) = F
<1>1. \A n \in Modifiers : Kept(n, H, 29) <=> n \in F \/ n = "ctrl"
  BY SMT DEF Kept, Code, Mapped, SetBytes, Modifiers
<1>2. \A n \in Modifiers : Kept(n, H, 56) <=> n \in F \/ n = "alt"
  BY SMT DEF Kept, Code, Mapped, SetBytes, Modifiers
<1>3. \A n \in Modifiers : Kept(n, H, 42) <=> n \in F
  BY SMT DEF Kept, Code, Mapped, SetBytes, Modifiers
<1>4. \A n \in Modifiers : Kept(n, H, 72) <=> n \in F
  BY SMT DEF Kept, Code, Mapped, SetBytes, Modifiers
<1>5. "ctrl" \in Modifiers /\ "shift" \in Modifiers /\ "alt" \in Modifiers /\ "caps" \in Modifiers
  BY DEF Modifiers
<1> QED
  BY <1>1, <1>2, <1>3, <1>4, <1>5,
     FlagsAfter

LEMMA PrefixBreak ==
  ASSUME NEW F \in SUBSET FlagNames, "ext" \notin F, NEW H, "ext" \in H,
         \A n \in Modifiers : n \in H <=> n \in F
  PROVE  /\ NextFlags(H, 157) = F \ {"ctrl"}
         /\ NextFlags(H, 184) = F \ {"alt"}
         /\ NextFlags(H, 200) = F
         /\ NextFlags(H, 170) = F
<1>1. \A n \in Modifiers : Kept(n, H, 157) <=> n \in F /\ n # "ctrl"
  BY SMT DEF Kept, Code, MakeCodes, CtrlCodes, ShiftCodes, AltCodes, Modifiers
<1>2. \A n \in Modifiers : Kept(n, H, 184) <=> n \in F /\ n # "alt"
  BY SMT DEF Kept, Code, MakeCodes, CtrlCodes, ShiftCodes, AltCodes, Modifiers
<1>3. \A n \in Modifiers : Kept(n, H, 200) <=> n \in F
  BY SMT DEF Kept, Code, MakeCodes, CtrlCodes, ShiftCodes, AltCodes, Modifiers
<1>4. \A n \in Modifiers : Kept(n, H, 170) <=> n \in F
  BY SMT DEF Kept, Code, MakeCodes, CtrlCodes, ShiftCodes, AltCodes, Modifiers
<1>5. "ctrl" \in Modifiers /\ "shift" \in Modifiers /\ "alt" \in Modifiers /\ "caps" \in Modifiers
  BY DEF Modifiers
<1> QED
  BY <1>1, <1>2, <1>3, <1>4, <1>5,
     FlagsAfter

(* Codes without a character: break codes, modifiers, cursor keys. *)
LEMMA Untyped ==
  ASSUME NEW F, NEW t, NEW b \in Nat,
         b >= 128 \/ b \in Invisible \/ ("ext" \in F /\ b \in {42, 72})
  PROVE  NextTyped(F, t, b) = t
<1>1. ~Visible(F, b)
  BY SMT DEF Visible, Code, Mapped, Invisible
<1> QED  BY <1>1, Zenon DEF NextTyped

LEMMA Typed ==
  ASSUME NEW F, NEW t, "ext" \notin F, NEW b \in {30, 13, 53, 14}
  PROVE  NextTyped(F, t, b) = Append(t, keymap(b, Upper(F, b)))
<1>1. Visible(F, b)
  BY SMT DEF Visible, Code, Mapped, Invisible
<1> QED  BY <1>1, Zenon DEF NextTyped

(* Sequences of one to four bytes. *)
LEMMA TwoBytes ==
  ASSUME NEW a \in Bytes, NEW b \in Bytes
  PROVE  <<a>> \o <<b>> = <<a, b>>
<1> HIDE DEF Bytes
<1>1. /\ <<a>> \in Seq(Bytes) /\ Len(<<a>>) = 1 /\ <<a>>[1] = a
      /\ <<b>> \in Seq(Bytes) /\ Len(<<b>>) = 1 /\ <<b>>[1] = b
  OBVIOUS
<1>2. PICK s : s = <<a>> \o <<b>>
  OBVIOUS
<1>3. s \in Seq(Bytes) /\ Len(s) = 2 /\ s[1] = a /\ s[2] = b
  BY <1>1, <1>2, ConcatProperties
<1>4. s = <<a, b>>
  BY <1>3
<1> QED  BY <1>2, <1>4

LEMMA FourBytes ==
  ASSUME NEW a \in Bytes, NEW b \in Bytes, NEW c \in Bytes, NEW d \in Bytes
  PROVE  <<a, b>> \o <<c, d>> = <<a, b, c, d>>
<1> HIDE DEF Bytes
<1>1. /\ <<a, b>> \in Seq(Bytes) /\ Len(<<a, b>>) = 2 /\ <<a, b>>[1] = a /\ <<a, b>>[2] = b
      /\ <<c, d>> \in Seq(Bytes) /\ Len(<<c, d>>) = 2 /\ <<c, d>>[1] = c /\ <<c, d>>[2] = d
  OBVIOUS
<1>2. PICK s : s = <<a, b>> \o <<c, d>>
  OBVIOUS
<1>3. s \in Seq(Bytes) /\ Len(s) = 4 /\ s[1] = a /\ s[2] = b /\ s[3] = c /\ s[4] = d
  BY <1>1, <1>2, ConcatProperties
<1>4. s = <<a, b, c, d>>
  BY <1>3
<1> QED  BY <1>2, <1>4

(* Codes of one, two and four bytes are sent. *)
LEMMA SendOne ==
  ASSUME NEW f0, NEW t0, NEW F, NEW t, NEW p \in Seq(Bytes), NEW b \in Bytes, NEW G, NEW u,
         Reads(f0, t0, p, F, t), NextFlags(F, b) = G, NextTyped(F, t, b) = u
  PROVE  p \o <<b>> \in Seq(Bytes) /\ Reads(f0, t0, p \o <<b>>, G, u)
<1>1. Append(p, b) = p \o <<b>>
  BY AppendIsConcat
<1>2. /\ Append(p, b) \in Seq(Bytes)
      /\ Reads(f0, t0, Append(p, b), NextFlags(F, b), NextTyped(F, t, b))
  BY ReadsMore
<1>3. PICK q : q = p \o <<b>>
  OBVIOUS
<1> QED  BY <1>1, <1>2, <1>3, Zenon

LEMMA SendTwo ==
  ASSUME NEW f0, NEW t0, NEW F, NEW t, NEW p \in Seq(Bytes), NEW b \in Bytes, NEW c \in Bytes,
         NEW H, NEW v, NEW G, NEW u, Reads(f0, t0, p, F, t),
         NextFlags(F, b) = H, NextTyped(F, t, b) = v,
         NextFlags(H, c) = G, NextTyped(H, v, c) = u
  PROVE  p \o <<b, c>> \in Seq(Bytes) /\ Reads(f0, t0, p \o <<b, c>>, G, u)
<1>1. p \o <<b>> \in Seq(Bytes) /\ Reads(f0, t0, p \o <<b>>, H, v)
  BY SendOne
<1>2. ASSUME NEW q \in Seq(Bytes), Reads(f0, t0, q, H, v)
      PROVE  q \o <<c>> \in Seq(Bytes) /\ Reads(f0, t0, q \o <<c>>, G, u)
  BY <1>2, SendOne
<1>3. PICK q \in Seq(Bytes) : q = p \o <<b>> /\ Reads(f0, t0, q, H, v)
  BY <1>1, Zenon
<1>4. <<b>> \in Seq(Bytes) /\ <<c>> \in Seq(Bytes) /\ <<b>> \o <<c>> = <<b, c>>
  <2> HIDE DEF Bytes
  <2> QED  BY TwoBytes
<1>5. (p \o <<b>>) \o <<c>> = p \o (<<b>> \o <<c>>)
  BY <1>4, ConcatAssociative
<1> QED  BY <1>2, <1>3, <1>4, <1>5, Zenon

LEMMA SendPrefixed ==
  ASSUME NEW f0, NEW t0, NEW F, NEW t, NEW p \in Seq(Bytes), NEW b \in Bytes, NEW G, NEW u,
         NEW H, H = F \cup {"ext"}, Reads(f0, t0, p, F, t),
         NextFlags(H, b) = G, NextTyped(H, t, b) = u
  PROVE  p \o <<Ext, b>> \in Seq(Bytes) /\ Reads(f0, t0, p \o <<Ext, b>>, G, u)
<1>1. Ext \in Bytes /\ Ext \in Nat /\ Ext >= 128
  BY DEF Bytes, Ext
<1>2. NextFlags(F, Ext) = H
  BY SMT DEF NextFlags, Ext
<1>3. NextTyped(F, t, Ext) = t
  BY <1>1, Untyped
<1> QED  BY <1>1, <1>2, <1>3, SendTwo, Zenon

(* The second bytes of the codes of a cursor key. *)
CursorBytes == {42, 72, 200, 170}

LEMMA SendCursor ==
  ASSUME NEW f0, NEW t0, NEW F \in SUBSET FlagNames, "ext" \notin F, NEW t,
         NEW p \in Seq(Bytes), NEW b \in CursorBytes, NEW c \in CursorBytes,
         Reads(f0, t0, p, F, t)
  PROVE  p \o <<Ext, b, Ext, c>> \in Seq(Bytes) /\ Reads(f0, t0, p \o <<Ext, b, Ext, c>>, F, t)
<1>1. Ext \in Bytes /\ b \in Bytes /\ c \in Bytes
  BY DEF Bytes, Ext, CursorBytes
<1>2. PICK H : H = F \cup {"ext"}
  OBVIOUS
<1>3. ASSUME NEW d \in CursorBytes
      PROVE  NextFlags(H, d) = F /\ NextTyped(H, t, d) = t
  <2>1. "ext" \in H /\ \A n \in Modifiers : n \in H <=> n \in F
    BY <1>2 DEF Modifiers
  <2>2. NextFlags(H, 42) = F /\ NextFlags(H, 72) = F
    BY <2>1, PrefixMake
  <2>3. NextFlags(H, 200) = F /\ NextFlags(H, 170) = F
    BY <2>1, PrefixBreak
  <2>4. NextTyped(H, t, d) = t
    BY <2>1, Untyped DEF CursorBytes
  <2> QED  BY <2>2, <2>3, <2>4 DEF CursorBytes
<1>4. ASSUME NEW q \in Seq(Bytes), Reads(f0, t0, q, F, t), NEW d \in CursorBytes
      PROVE  q \o <<Ext, d>> \in Seq(Bytes) /\ Reads(f0, t0, q \o <<Ext, d>>, F, t)
  <2>1. d \in Bytes
    BY DEF Bytes, CursorBytes
  <2> QED  BY <1>2, <1>3, <1>4, <2>1, SendPrefixed, Zenon
<1>5. PICK q \in Seq(Bytes) : q = p \o <<Ext, b>> /\ Reads(f0, t0, q, F, t)
  BY <1>4, Zenon
<1>6. /\ <<Ext, b>> \in Seq(Bytes) /\ <<Ext, c>> \in Seq(Bytes)
      /\ <<Ext, b>> \o <<Ext, c>> = <<Ext, b, Ext, c>>
  <2> HIDE DEF Bytes
  <2> QED  BY <1>1, FourBytes
<1>7. (p \o <<Ext, b>>) \o <<Ext, c>> = p \o (<<Ext, b>> \o <<Ext, c>>)
  BY <1>6, ConcatAssociative
<1> QED  BY <1>4, <1>5, <1>6, <1>7, Zenon

(* The codes. *)
LEMMA MakeCodesAre ==
  /\ MakeCode["shift_l"] = <<42>> /\ MakeCode["shift_r"] = <<54>>
  /\ MakeCode["ctrl_l"] = <<29>> /\ MakeCode["ctrl_r"] = <<Ext, 29>>
  /\ MakeCode["alt_l"] = <<56>> /\ MakeCode["alt_r"] = <<Ext, 56>>
  /\ MakeCode["caps_lock"] = <<58>> /\ MakeCode["a"] = <<30>>
  /\ MakeCode["equal"] = <<13>> /\ MakeCode["slash"] = <<53>>
  /\ MakeCode["backspace"] = <<14>> /\ MakeCode["arrow"] = <<Ext, 42, Ext, 72>>
  BY DEF MakeCode, Ext

KeyNames ==
  ShiftKeys \cup CtrlKeys \cup AltKeys \cup CharacterKeys \cup {"caps_lock", "arrow"}

LEMMA KeyNamesAre == DOMAIN MakeCode = KeyNames
  BY DEF MakeCode, KeyNames, ShiftKeys, CtrlKeys, AltKeys, CharacterKeys

LEMMA BreakCodesAre ==
  /\ BreakCode["shift_l"] = <<170>> /\ BreakCode["shift_r"] = <<182>>
  /\ BreakCode["ctrl_l"] = <<157>> /\ BreakCode["ctrl_r"] = <<Ext, 157>>
  /\ BreakCode["alt_l"] = <<184>> /\ BreakCode["alt_r"] = <<Ext, 184>>
  /\ BreakCode["caps_lock"] = <<186>> /\ BreakCode["a"] = <<158>>
  /\ BreakCode["equal"] = <<141>> /\ BreakCode["slash"] = <<181>>
  /\ BreakCode["backspace"] = <<142>> /\ BreakCode["arrow"] = <<Ext, 200, Ext, 170>>
<1> DEFINE Broken(m) == [i \in DOMAIN m |-> Break(m[i])]
<1>1. ASSUME NEW k \in KeyNames
      PROVE  /\ k = "arrow" => BreakCode[k] = <<Ext, 200, Ext, 170>>
             /\ k # "arrow" => BreakCode[k] = Broken(MakeCode[k])
  BY <1>1, KeyNamesAre DEF BreakCode, Ext
<1>2. ASSUME NEW b \in Nat, b # Ext
      PROVE  Broken(<<b>>) = <<b + 128>> /\ Broken(<<Ext, b>>) = <<Ext, b + 128>>
  BY <1>2, SMT DEF Break, Ext
<1> HIDE DEF Broken
<1>3. ASSUME NEW k \in KeyNames, k # "arrow", NEW b \in Nat, b # Ext
      PROVE  /\ MakeCode[k] = <<b>> => BreakCode[k] = <<b + 128>>
             /\ MakeCode[k] = <<Ext, b>> => BreakCode[k] = <<Ext, b + 128>>
  BY <1>1, <1>2, <1>3, Zenon
<1>4. /\ "shift_l" \in KeyNames /\ "shift_r" \in KeyNames /\ "ctrl_l" \in KeyNames
      /\ "ctrl_r" \in KeyNames /\ "alt_l" \in KeyNames /\ "alt_r" \in KeyNames
      /\ "caps_lock" \in KeyNames /\ "a" \in KeyNames /\ "equal" \in KeyNames
      /\ "slash" \in KeyNames /\ "backspace" \in KeyNames /\ "arrow" \in KeyNames
  BY DEF KeyNames, ShiftKeys, CtrlKeys, AltKeys, CharacterKeys
<1>5. BreakCode["arrow"] = <<Ext, 200, Ext, 170>>
  BY <1>1, <1>4, Zenon
<1>6. /\ 42 + 128 = 170 /\ 54 + 128 = 182 /\ 29 + 128 = 157 /\ 56 + 128 = 184
      /\ 58 + 128 = 186 /\ 30 + 128 = 158 /\ 13 + 128 = 141 /\ 53 + 128 = 181
      /\ 14 + 128 = 142
  OBVIOUS
<1>7. /\ BreakCode["shift_l"] = <<42 + 128>> /\ BreakCode["shift_r"] = <<54 + 128>>
      /\ BreakCode["ctrl_l"] = <<29 + 128>> /\ BreakCode["ctrl_r"] = <<Ext, 29 + 128>>
      /\ BreakCode["alt_l"] = <<56 + 128>> /\ BreakCode["alt_r"] = <<Ext, 56 + 128>>
      /\ BreakCode["caps_lock"] = <<58 + 128>> /\ BreakCode["a"] = <<30 + 128>>
      /\ BreakCode["equal"] = <<13 + 128>> /\ BreakCode["slash"] = <<53 + 128>>
      /\ BreakCode["backspace"] = <<14 + 128>>
  BY <1>3, <1>4, MakeCodesAre, SMT DEF Ext
<1> QED  BY <1>5, <1>6, <1>7

(* A key is pressed: its code, and with it the flags and the characters.   *)
LEMMA MakeReads ==
  ASSUME NEW f0, NEW t0, NEW F \in SUBSET FlagNames, "ext" \notin F, NEW t,
         NEW p \in Seq(Bytes), Reads(f0, t0, p, F, t), NEW k \in KeyNames
  PROVE  /\ p \o MakeCode[k] \in Seq(Bytes)
         /\ Reads(f0, t0, p \o MakeCode[k], AfterMake(F, k), TypedBy(F, t, k))
<1>1. PICK H : H = F \cup {"ext"} /\ "ext" \in H /\ \A n \in Modifiers : n \in H <=> n \in F
  <2>1. PICK H : H = F \cup {"ext"}
    OBVIOUS
  <2>2. "ext" \in H /\ \A n \in Modifiers : n \in H <=> n \in F
    BY <2>1 DEF Modifiers
  <2> QED  BY <2>1, <2>2, Zenon
<1>2. ASSUME NEW b \in Bytes, MakeCode[k] = <<b>>,
             NextFlags(F, b) = AfterMake(F, k), NextTyped(F, t, b) = TypedBy(F, t, k)
      PROVE  /\ p \o MakeCode[k] \in Seq(Bytes)
             /\ Reads(f0, t0, p \o MakeCode[k], AfterMake(F, k), TypedBy(F, t, k))
  BY <1>2, SendOne, Zenon
<1>3. ASSUME NEW b \in Bytes, MakeCode[k] = <<Ext, b>>,
             NextFlags(H, b) = AfterMake(F, k), NextTyped(H, t, b) = TypedBy(F, t, k)
      PROVE  /\ p \o MakeCode[k] \in Seq(Bytes)
             /\ Reads(f0, t0, p \o MakeCode[k], AfterMake(F, k), TypedBy(F, t, k))
  BY <1>1, <1>3, SendPrefixed, Zenon
<1>4. CASE k = "shift_l"
  <2>1. MakeCode[k] = <<42>> /\ 42 \in Bytes
    BY <1>4, MakeCodesAre DEF Bytes
  <2>2. AfterMake(F, k) = F \cup {"shift"} /\ TypedBy(F, t, k) = t
    BY <1>4 DEF AfterMake, TypedBy, CharacterKeys, ShiftKeys, CtrlKeys, AltKeys
  <2>3. NextFlags(F, 42) = F \cup {"shift"}
    BY PlainMake
  <2>4. NextTyped(F, t, 42) = t
    BY Untyped DEF Invisible
  <2> QED  BY <1>2, <2>1, <2>2, <2>3, <2>4
<1>5. CASE k = "shift_r"
  <2>1. MakeCode[k] = <<54>> /\ 54 \in Bytes
    BY <1>5, MakeCodesAre DEF Bytes
  <2>2. AfterMake(F, k) = F \cup {"shift"} /\ TypedBy(F, t, k) = t
    BY <1>5 DEF AfterMake, TypedBy, CharacterKeys, ShiftKeys, CtrlKeys, AltKeys
  <2>3. NextFlags(F, 54) = F \cup {"shift"}
    BY PlainMake
  <2>4. NextTyped(F, t, 54) = t
    BY Untyped DEF Invisible
  <2> QED  BY <1>2, <2>1, <2>2, <2>3, <2>4
<1>6. CASE k = "ctrl_l"
  <2>1. MakeCode[k] = <<29>> /\ 29 \in Bytes
    BY <1>6, MakeCodesAre DEF Bytes
  <2>2. AfterMake(F, k) = F \cup {"ctrl"} /\ TypedBy(F, t, k) = t
    BY <1>6 DEF AfterMake, TypedBy, CharacterKeys, ShiftKeys, CtrlKeys, AltKeys
  <2>3. NextFlags(F, 29) = F \cup {"ctrl"}
    BY PlainMake
  <2>4. NextTyped(F, t, 29) = t
    BY Untyped DEF Invisible
  <2> QED  BY <1>2, <2>1, <2>2, <2>3, <2>4
<1>7. CASE k = "ctrl_r"
  <2>1. MakeCode[k] = <<Ext, 29>> /\ 29 \in Bytes
    BY <1>7, MakeCodesAre DEF Bytes
  <2>2. AfterMake(F, k) = F \cup {"ctrl"} /\ TypedBy(F, t, k) = t
    BY <1>7 DEF AfterMake, TypedBy, CharacterKeys, ShiftKeys, CtrlKeys, AltKeys
  <2>3. NextFlags(H, 29) = F \cup {"ctrl"}
    BY <1>1, PrefixMake
  <2>4. NextTyped(H, t, 29) = t
    BY Untyped DEF Invisible
  <2> QED  BY <1>3, <2>1, <2>2, <2>3, <2>4
<1>8. CASE k = "alt_l"
  <2>1. MakeCode[k] = <<56>> /\ 56 \in Bytes
    BY <1>8, MakeCodesAre DEF Bytes
  <2>2. AfterMake(F, k) = F \cup {"alt"} /\ TypedBy(F, t, k) = t
    BY <1>8 DEF AfterMake, TypedBy, CharacterKeys, ShiftKeys, CtrlKeys, AltKeys
  <2>3. NextFlags(F, 56) = F \cup {"alt"}
    BY PlainMake
  <2>4. NextTyped(F, t, 56) = t
    BY Untyped DEF Invisible
  <2> QED  BY <1>2, <2>1, <2>2, <2>3, <2>4
<1>9. CASE k = "alt_r"
  <2>1. MakeCode[k] = <<Ext, 56>> /\ 56 \in Bytes
    BY <1>9, MakeCodesAre DEF Bytes
  <2>2. AfterMake(F, k) = F \cup {"alt"} /\ TypedBy(F, t, k) = t
    BY <1>9 DEF AfterMake, TypedBy, CharacterKeys, ShiftKeys, CtrlKeys, AltKeys
  <2>3. NextFlags(H, 56) = F \cup {"alt"}
    BY <1>1, PrefixMake
  <2>4. NextTyped(H, t, 56) = t
    BY Untyped DEF Invisible
  <2> QED  BY <1>3, <2>1, <2>2, <2>3, <2>4
<1>10. CASE k = "caps_lock"
  <2>1. MakeCode[k] = <<58>> /\ 58 \in Bytes
    BY <1>10, MakeCodesAre DEF Bytes
  <2>2. /\ "caps" \in F => AfterMake(F, k) = F \ {"caps"}
        /\ "caps" \notin F => AfterMake(F, k) = F \cup {"caps"}
        /\ TypedBy(F, t, k) = t
    BY <1>10 DEF AfterMake, TypedBy, CharacterKeys, ShiftKeys, CtrlKeys, AltKeys
  <2>3. /\ "caps" \in F => NextFlags(F, 58) = F \ {"caps"}
        /\ "caps" \notin F => NextFlags(F, 58) = F \cup {"caps"}
    BY PlainMake
  <2>4. NextTyped(F, t, 58) = t
    BY Untyped DEF Invisible
  <2>5. NextFlags(F, 58) = AfterMake(F, k)
    BY <2>2, <2>3, Zenon
  <2> QED  BY <1>2, <2>1, <2>2, <2>4, <2>5
<1>11. CASE k \in CharacterKeys
  <2>1. PICK b \in {30, 13, 53, 14} : MakeCode[k] = <<b>>
    BY <1>11, MakeCodesAre DEF CharacterKeys
  <2>2. b \in Bytes
    BY DEF Bytes
  <2>3. MakeCode[k][1] = b
    BY <2>1
  <2>4. AfterMake(F, k) = F
    BY <1>11 DEF AfterMake, CharacterKeys, ShiftKeys, CtrlKeys, AltKeys
  <2>5. NextFlags(F, b) = F
    BY PlainMake
  <2>6. TypedBy(F, t, k) = Append(t, keymap(b, Upper(F, b)))
    BY <1>11, <2>3, Zenon DEF TypedBy
  <2>7. NextTyped(F, t, b) = Append(t, keymap(b, Upper(F, b)))
    BY Typed, Zenon
  <2>8. NextFlags(F, b) = AfterMake(F, k) /\ NextTyped(F, t, b) = TypedBy(F, t, k)
    BY <2>4, <2>5, <2>6, <2>7, Zenon
  <2> QED  BY <1>2, <2>1, <2>2, <2>8, Zenon
<1>12. CASE k = "arrow"
  <2>1. PICK b \in CursorBytes, c \in CursorBytes : MakeCode[k] = <<Ext, b, Ext, c>>
    <3>1. MakeCode[k] = <<Ext, 42, Ext, 72>> /\ 42 \in CursorBytes /\ 72 \in CursorBytes
      BY <1>12, MakeCodesAre DEF CursorBytes
    <3> QED  BY <3>1
  <2>2. AfterMake(F, k) = F /\ TypedBy(F, t, k) = t
    BY <1>12 DEF AfterMake, TypedBy, CharacterKeys, ShiftKeys, CtrlKeys, AltKeys
  <2> QED  BY <2>1, <2>2, SendCursor, Zenon
<1> QED
  BY <1>4, <1>5, <1>6, <1>7, <1>8, <1>9, <1>10, <1>11, <1>12
     DEF KeyNames, ShiftKeys, CtrlKeys, AltKeys

(* A key is released. *)
LEMMA BreakReads ==
  ASSUME NEW f0, NEW t0, NEW F \in SUBSET FlagNames, "ext" \notin F, NEW t,
         NEW p \in Seq(Bytes), Reads(f0, t0, p, F, t), NEW k \in KeyNames
  PROVE  /\ p \o BreakCode[k] \in Seq(Bytes)
         /\ Reads(f0, t0, p \o BreakCode[k], AfterBreak(F, k), t)
<1>1. PICK H : H = F \cup {"ext"} /\ "ext" \in H /\ \A n \in Modifiers : n \in H <=> n \in F
  <2>1. PICK H : H = F \cup {"ext"}
    OBVIOUS
  <2>2. "ext" \in H /\ \A n \in Modifiers : n \in H <=> n \in F
    BY <2>1 DEF Modifiers
  <2> QED  BY <2>1, <2>2, Zenon
<1>2. ASSUME NEW b \in Bytes, BreakCode[k] = <<b>>,
             NextFlags(F, b) = AfterBreak(F, k), NextTyped(F, t, b) = t
      PROVE  /\ p \o BreakCode[k] \in Seq(Bytes)
             /\ Reads(f0, t0, p \o BreakCode[k], AfterBreak(F, k), t)
  BY <1>2, SendOne, Zenon
<1>3. ASSUME NEW b \in Bytes, BreakCode[k] = <<Ext, b>>,
             NextFlags(H, b) = AfterBreak(F, k), NextTyped(H, t, b) = t
      PROVE  /\ p \o BreakCode[k] \in Seq(Bytes)
             /\ Reads(f0, t0, p \o BreakCode[k], AfterBreak(F, k), t)
  BY <1>1, <1>3, SendPrefixed, Zenon
<1>4. CASE k = "shift_l"
  <2>1. BreakCode[k] = <<170>> /\ 170 \in Bytes
    BY <1>4, BreakCodesAre DEF Bytes
  <2>2. AfterBreak(F, k) = F \ {"shift"}
    BY <1>4 DEF AfterBreak, ShiftKeys, CtrlKeys, AltKeys
  <2>3. NextFlags(F, 170) = F \ {"shift"}
    BY PlainBreak
  <2>4. NextTyped(F, t, 170) = t
    BY Untyped DEF Invisible
  <2> QED  BY <1>2, <2>1, <2>2, <2>3, <2>4
<1>5. CASE k = "shift_r"
  <2>1. BreakCode[k] = <<182>> /\ 182 \in Bytes
    BY <1>5, BreakCodesAre DEF Bytes
  <2>2. AfterBreak(F, k) = F \ {"shift"}
    BY <1>5 DEF AfterBreak, ShiftKeys, CtrlKeys, AltKeys
  <2>3. NextFlags(F, 182) = F \ {"shift"}
    BY PlainBreak
  <2>4. NextTyped(F, t, 182) = t
    BY Untyped DEF Invisible
  <2> QED  BY <1>2, <2>1, <2>2, <2>3, <2>4
<1>6. CASE k = "ctrl_l"
  <2>1. BreakCode[k] = <<157>> /\ 157 \in Bytes
    BY <1>6, BreakCodesAre DEF Bytes
  <2>2. AfterBreak(F, k) = F \ {"ctrl"}
    BY <1>6 DEF AfterBreak, ShiftKeys, CtrlKeys, AltKeys
  <2>3. NextFlags(F, 157) = F \ {"ctrl"}
    BY PlainBreak
  <2>4. NextTyped(F, t, 157) = t
    BY Untyped DEF Invisible
  <2> QED  BY <1>2, <2>1, <2>2, <2>3, <2>4
<1>7. CASE k = "ctrl_r"
  <2>1. BreakCode[k] = <<Ext, 157>> /\ 157 \in Bytes
    BY <1>7, BreakCodesAre DEF Bytes
  <2>2. AfterBreak(F, k) = F \ {"ctrl"}
    BY <1>7 DEF AfterBreak, ShiftKeys, CtrlKeys, AltKeys
  <2>3. NextFlags(H, 157) = F \ {"ctrl"}
    BY <1>1, PrefixBreak
  <2>4. NextTyped(H, t, 157) = t
    BY Untyped DEF Invisible
  <2> QED  BY <1>3, <2>1, <2>2, <2>3, <2>4
<1>8. CASE k = "alt_l"
  <2>1. BreakCode[k] = <<184>> /\ 184 \in Bytes
    BY <1>8, BreakCodesAre DEF Bytes
  <2>2. AfterBreak(F, k) = F \ {"alt"}
    BY <1>8 DEF AfterBreak, ShiftKeys, CtrlKeys, AltKeys
  <2>3. NextFlags(F, 184) = F \ {"alt"}
    BY PlainBreak
  <2>4. NextTyped(F, t, 184) = t
    BY Untyped DEF Invisible
  <2> QED  BY <1>2, <2>1, <2>2, <2>3, <2>4
<1>9. CASE k = "alt_r"
  <2>1. BreakCode[k] = <<Ext, 184>> /\ 184 \in Bytes
    BY <1>9, BreakCodesAre DEF Bytes
  <2>2. AfterBreak(F, k) = F \ {"alt"}
    BY <1>9 DEF AfterBreak, ShiftKeys, CtrlKeys, AltKeys
  <2>3. NextFlags(H, 184) = F \ {"alt"}
    BY <1>1, PrefixBreak
  <2>4. NextTyped(H, t, 184) = t
    BY Untyped DEF Invisible
  <2> QED  BY <1>3, <2>1, <2>2, <2>3, <2>4
<1>10. CASE k \in CharacterKeys \cup {"caps_lock"}
  <2>1. PICK b \in {186, 158, 141, 181, 142} : BreakCode[k] = <<b>>
    BY <1>10, BreakCodesAre DEF CharacterKeys
  <2>2. b \in Bytes
    BY DEF Bytes
  <2>3. AfterBreak(F, k) = F
    BY <1>10 DEF AfterBreak, CharacterKeys, ShiftKeys, CtrlKeys, AltKeys
  <2>4. NextFlags(F, b) = F
    BY PlainBreak
  <2>5. NextTyped(F, t, b) = t
    BY Untyped
  <2> QED  BY <1>2, <2>1, <2>2, <2>3, <2>4, <2>5
<1>11. CASE k = "arrow"
  <2>1. PICK b \in CursorBytes, c \in CursorBytes : BreakCode[k] = <<Ext, b, Ext, c>>
    <3>1. BreakCode[k] = <<Ext, 200, Ext, 170>> /\ 200 \in CursorBytes /\ 170 \in CursorBytes
      BY <1>11, BreakCodesAre DEF CursorBytes
    <3> QED  BY <3>1
  <2>2. AfterBreak(F, k) = F
    BY <1>11 DEF AfterBreak, ShiftKeys, CtrlKeys, AltKeys
  <2> QED  BY <2>1, <2>2, SendCursor, Zenon
<1> QED
  BY <1>4, <1>5, <1>6, <1>7, <1>8, <1>9, <1>10, <1>11
     DEF KeyNames, ShiftKeys, CtrlKeys, AltKeys

LEMMA AfterMakeHas ==
  ASSUME NEW F \in SUBSET FlagNames, NEW k
  PROVE  /\ AfterMake(F, k) \in SUBSET FlagNames
         /\ "ctrl" \in AfterMake(F, k) <=> "ctrl" \in F \/ k \in CtrlKeys
         /\ "shift" \in AfterMake(F, k) <=> "shift" \in F \/ k \in ShiftKeys
         /\ "alt" \in AfterMake(F, k) <=> "alt" \in F \/ k \in AltKeys
         /\ "caps" \in AfterMake(F, k) <=> ("caps" \in F <=> k # "caps_lock")
         /\ "ext" \in AfterMake(F, k) <=> "ext" \in F
  BY DEF AfterMake, FlagNames, Modifiers, ShiftKeys, CtrlKeys, AltKeys

LEMMA AfterBreakHas ==
  ASSUME NEW F \in SUBSET FlagNames, NEW k
  PROVE  /\ AfterBreak(F, k) \in SUBSET FlagNames
         /\ "ctrl" \in AfterBreak(F, k) <=> "ctrl" \in F /\ k \notin CtrlKeys
         /\ "shift" \in AfterBreak(F, k) <=> "shift" \in F /\ k \notin ShiftKeys
         /\ "alt" \in AfterBreak(F, k) <=> "alt" \in F /\ k \notin AltKeys
         /\ "caps" \in AfterBreak(F, k) <=> "caps" \in F
         /\ "ext" \in AfterBreak(F, k) <=> "ext" \in F
  BY DEF AfterBreak, FlagNames, Modifiers, ShiftKeys, CtrlKeys, AltKeys

-----------------------------------------------------------------------------
(* The user. *)

(* What the user holds changes as the codes of the key say. *)
LEMMA PressFlags ==
  ASSUME KeyTypes, NEW k \in Keys, Press(k) \/ Repeat(k)
  PROVE  UserFlags' = AfterMake(UserFlags, k)
<1>1. UserFlagged /\ UserFlagged'
  BY UserFlaggedHolds, PTL
<1>2. PICK A \in SUBSET FlagNames :
        /\ A = AfterMake(UserFlags, k)
        /\ "ctrl" \in A <=> "ctrl" \in UserFlags \/ k \in CtrlKeys
        /\ "shift" \in A <=> "shift" \in UserFlags \/ k \in ShiftKeys
        /\ "alt" \in A <=> "alt" \in UserFlags \/ k \in AltKeys
        /\ "caps" \in A <=> ("caps" \in UserFlags <=> k # "caps_lock")
        /\ "ext" \in A <=> "ext" \in UserFlags
  <2>1. PICK F \in SUBSET FlagNames : F = UserFlags
    BY <1>1, Zenon DEF UserFlagged
  <2>2. PICK A : A = AfterMake(F, k)
    OBVIOUS
  <2>3. /\ A \in SUBSET FlagNames
        /\ "ctrl" \in A <=> "ctrl" \in F \/ k \in CtrlKeys
        /\ "shift" \in A <=> "shift" \in F \/ k \in ShiftKeys
        /\ "alt" \in A <=> "alt" \in F \/ k \in AltKeys
        /\ "caps" \in A <=> ("caps" \in F <=> k # "caps_lock")
        /\ "ext" \in A <=> "ext" \in F
    BY <2>2, AfterMakeHas
  <2> QED  BY <2>1, <2>2, <2>3, Zenon
<1>3. down' = down \cup {k} /\ (caps_on' <=> (caps_on <=> k # "caps_lock"))
  <2>1. CASE Press(k)
    <3>1. down' = down \cup {k} /\ caps_on' = (caps_on # (k = "caps_lock"))
      BY <2>1, Zenon DEF Press
    <3> QED  BY <3>1, Zenon DEF KeyTypes
  <2>2. CASE Repeat(k)
    <3>1. k \in down /\ k # "caps_lock" /\ down' = down /\ caps_on' = caps_on
      BY <2>2 DEF Repeat
    <3>2. down' = down \cup {k}
      BY <3>1
    <3> QED  BY <3>1, <3>2, Zenon
  <2> QED  BY <2>1, <2>2
<1>4. ASSUME NEW S
      PROVE  down' \cap S # {} <=> (down \cap S # {} \/ k \in S)
  BY <1>3
<1>5. /\ "ctrl" \in UserFlags' <=> "ctrl" \in A
      /\ "shift" \in UserFlags' <=> "shift" \in A
      /\ "alt" \in UserFlags' <=> "alt" \in A
      /\ "caps" \in UserFlags' <=> "caps" \in A
      /\ "ext" \in UserFlags' <=> "ext" \in A
  BY <1>1, <1>2, <1>3, <1>4, Zenon DEF UserFlagged
<1> QED  BY <1>1, <1>2, <1>5, SameFlags, Zenon DEF UserFlagged

(* Of two keys of one kind the user has one: the driver does not count.    *)
OneOfEach ==
  ~(ShiftKeys \subseteq Keys) /\ ~(CtrlKeys \subseteq Keys) /\ ~(AltKeys \subseteq Keys)

LEMMA ReleaseFlags ==
  ASSUME OneOfEach, KeyTypes, NEW k \in Keys, Release(k)
  PROVE  UserFlags' = AfterBreak(UserFlags, k)
<1>1. UserFlagged /\ UserFlagged'
  BY UserFlaggedHolds, PTL
<1>2. PICK A \in SUBSET FlagNames :
        /\ A = AfterBreak(UserFlags, k)
        /\ "ctrl" \in A <=> "ctrl" \in UserFlags /\ k \notin CtrlKeys
        /\ "shift" \in A <=> "shift" \in UserFlags /\ k \notin ShiftKeys
        /\ "alt" \in A <=> "alt" \in UserFlags /\ k \notin AltKeys
        /\ "caps" \in A <=> "caps" \in UserFlags
        /\ "ext" \in A <=> "ext" \in UserFlags
  <2>1. PICK F \in SUBSET FlagNames : F = UserFlags
    BY <1>1, Zenon DEF UserFlagged
  <2>2. PICK A : A = AfterBreak(F, k)
    OBVIOUS
  <2>3. /\ A \in SUBSET FlagNames
        /\ "ctrl" \in A <=> "ctrl" \in F /\ k \notin CtrlKeys
        /\ "shift" \in A <=> "shift" \in F /\ k \notin ShiftKeys
        /\ "alt" \in A <=> "alt" \in F /\ k \notin AltKeys
        /\ "caps" \in A <=> "caps" \in F
        /\ "ext" \in A <=> "ext" \in F
    BY <2>2, AfterBreakHas
  <2> QED  BY <2>1, <2>2, <2>3, Zenon
<1>3. k \in down /\ down' = down \ {k} /\ caps_on' = caps_on /\ down \subseteq Keys
  BY DEF Release, KeyTypes
<1>4. /\ down' \cap ShiftKeys # {} <=> (down \cap ShiftKeys # {} /\ k \notin ShiftKeys)
      /\ down' \cap CtrlKeys # {} <=> (down \cap CtrlKeys # {} /\ k \notin CtrlKeys)
      /\ down' \cap AltKeys # {} <=> (down \cap AltKeys # {} /\ k \notin AltKeys)
  BY <1>3 DEF OneOfEach, ShiftKeys, CtrlKeys, AltKeys
<1>5. /\ "ctrl" \in UserFlags' <=> "ctrl" \in A
      /\ "shift" \in UserFlags' <=> "shift" \in A
      /\ "alt" \in UserFlags' <=> "alt" \in A
      /\ "caps" \in UserFlags' <=> "caps" \in A
      /\ "ext" \in UserFlags' <=> "ext" \in A
  BY <1>1, <1>2, <1>3, <1>4, Zenon DEF UserFlagged
<1> QED  BY <1>1, <1>2, <1>5, SameFlags, Zenon DEF UserFlagged

(* What is printed on the key is what the driver will find in keymap. *)
LEMMA MeantIs ==
  ASSUME KeyTypes, NEW k \in KeyNames
  PROVE  meant \o Meant(k) = TypedBy(UserFlags, meant, k)
<1>1. UserFlagged
  BY UserFlaggedHolds
<1>2. CASE k \in CharacterKeys
  <2>1. PICK b \in {30, 13, 53, 14} :
          /\ MakeCode[k] = <<b>> /\ (b = 30 <=> k = "a") /\ (b = 14 <=> k = "backspace")
    BY <1>2, MakeCodesAre DEF CharacterKeys
  <2>2. MakeCode[k][1] = b /\ b \in Bytes
    BY <2>1 DEF Bytes
  <2>3. PICK shift \in BOOLEAN : shift = (down \cap ShiftKeys # {})
    BY Zenon
  <2>4. PICK printed \in BOOLEAN :
          printed = (k # "backspace" /\ shift # (k = "a" /\ caps_on))
    BY Zenon
  <2>5. Meant(k) = << <<b, printed>> >>
    BY <1>2, <2>2, <2>3, <2>4, Zenon DEF Meant, CharacterKeys
  <2>6. printed <=> k # "backspace" /\ ~(shift <=> (k = "a" /\ caps_on))
    BY <2>3, <2>4, Zenon DEF KeyTypes
  <2>7. PICK upper \in BOOLEAN : upper <=> Upper(UserFlags, b) /\ b \notin SameInBoth
    BY Zenon
  <2>8. /\ "shift" \in UserFlags <=> shift
        /\ "caps" \in UserFlags <=> caps_on
        /\ "ext" \notin UserFlags
    BY <1>1, <2>3, Zenon DEF UserFlagged
  <2>9. Code(UserFlags, b) = b
    BY <2>8, SMT DEF Code
  <2>10. upper <=> printed
    BY <2>1, <2>6, <2>7, <2>8, <2>9 DEF Upper, TwoOn, SameInBoth
  <2>11. keymap(b, Upper(UserFlags, b)) = <<b, printed>>
    BY <2>7, <2>10, Zenon DEF keymap
  <2>12. <<b, printed>> \in Characters
    BY <2>2, Zenon DEF Characters
  <2>13. Append(meant, <<b, printed>>) = meant \o << <<b, printed>> >>
    BY <2>12, AppendIsConcat, Zenon DEF KeyTypes
  <2>14. TypedBy(UserFlags, meant, k) = Append(meant, keymap(b, Upper(UserFlags, b)))
    BY <1>2, <2>2, Zenon DEF TypedBy
  <2> QED  BY <2>5, <2>11, <2>13, <2>14, Zenon
<1>3. CASE k \notin CharacterKeys
  <2>1. Meant(k) = << >> /\ TypedBy(UserFlags, meant, k) = meant
    BY <1>3, Zenon DEF Meant, TypedBy, CharacterKeys
  <2> QED  BY <2>1, ConcatEmptySeq, Zenon DEF KeyTypes
<1> QED  BY <1>2, <1>3

-----------------------------------------------------------------------------
(* The driver follows its user. *)

LEMMA ReadsTypes ==
  ASSUME NEW f0, NEW t0, NEW f1, NEW t1, NEW p \in Seq(Bytes), Reads(f0, t0, p, f1, t1)
  PROVE  t0 \in Seq(Characters) /\ t1 \in Seq(Characters)
<1>1. Len(p) \in Nat
  BY LenProperties
<1> QED  BY <1>1 DEF Reads

LEMMA KeyboardInvInit ==
  ASSUME KeyboardInit
  PROVE  KeyboardInv
<1>1. Flagged /\ UserFlagged
  BY DriverFlagged, UserFlaggedHolds
<1>2. /\ ~ctrl_status /\ ~shift_status /\ ~alt_status /\ ~caps_lock_status /\ ~ext_scancode
      /\ typed = << >> /\ port = << >> /\ down = {} /\ ~caps_on /\ meant = << >>
  BY DEF KeyboardInit
<1>3. KeyTypes
  <2>1. << >> \in Seq(Bytes) /\ << >> \in Seq(Characters)
    BY EmptySeq
  <2>2. /\ ctrl_status \in BOOLEAN /\ shift_status \in BOOLEAN /\ alt_status \in BOOLEAN
        /\ caps_lock_status \in BOOLEAN /\ ext_scancode \in BOOLEAN /\ caps_on \in BOOLEAN
    BY Zenon DEF KeyboardInit
  <2> QED  BY <1>2, <2>1, <2>2, Zenon DEF KeyTypes
<1>4. UserFlags = DriverFlags
  BY <1>1, <1>2, SameFlags DEF Flagged, UserFlagged
<1>5. Reads(DriverFlags, typed, << >>, DriverFlags, typed)
  BY <1>1, <1>3, ReadsNothing DEF Flagged, KeyTypes
<1> QED  BY <1>2, <1>3, <1>4, <1>5, Zenon DEF KeyboardInv, Follows

LEMMA KeyboardInvStep ==
  ASSUME OneOfEach, KeyboardInv, [KeyboardNext]_keyboardVars
  PROVE  KeyboardInv'
<1>1. KeyTypes /\ Follows
  BY DEF KeyboardInv
<1>2. ASSUME NEW k \in Keys
      PROVE  k \in KeyNames
  BY <1>2, KeysAssumption, KeyNamesAre, Zenon
<1>3. UserFlags \in SUBSET FlagNames /\ "ext" \notin UserFlags
  BY UserFlaggedHolds, Zenon DEF UserFlagged
<1>4. ASSUME UNCHANGED <<statusVars, ext_scancode>>
      PROVE  /\ DriverFlags' = DriverFlags
             /\ ctrl_status' \in BOOLEAN /\ shift_status' \in BOOLEAN /\ alt_status' \in BOOLEAN
             /\ caps_lock_status' \in BOOLEAN /\ ext_scancode' \in BOOLEAN
  <2>1. /\ ctrl_status' = ctrl_status /\ shift_status' = shift_status
        /\ alt_status' = alt_status /\ caps_lock_status' = caps_lock_status
        /\ ext_scancode' = ext_scancode
    BY <1>4 DEF statusVars
  <2> QED  BY <1>1, <2>1, Zenon DEF DriverFlags, KeyTypes
<1>5. ASSUME NEW k \in Keys, Press(k) \/ Repeat(k)
      PROVE  KeyboardInv'
  <2>1. /\ port' = port \o MakeCode[k] /\ meant' = meant \o Meant(k) /\ typed' = typed
        /\ UNCHANGED <<statusVars, ext_scancode>> /\ down' \subseteq Keys
    BY <1>1, <1>5 DEF Press, Repeat, Send, KeyTypes
  <2>2. caps_on' \in BOOLEAN
    BY <1>1, <1>5, Zenon DEF Press, Repeat, KeyTypes
  <2>3. UserFlags' = AfterMake(UserFlags, k) /\ meant' = TypedBy(UserFlags, meant, k)
    BY <1>1, <1>2, <1>5, <2>1, PressFlags, MeantIs, Zenon
  <2>4. /\ port' \in Seq(Bytes)
        /\ Reads(DriverFlags, typed, port', AfterMake(UserFlags, k), TypedBy(UserFlags, meant, k))
    BY <1>1, <1>2, <1>3, <2>1, MakeReads, Zenon DEF KeyTypes, Follows
  <2>5. Reads(DriverFlags', typed', port', UserFlags', meant')
    BY <1>4, <2>1, <2>3, <2>4, Zenon
  <2>6. typed' \in Seq(Characters) /\ meant' \in Seq(Characters)
    BY <2>4, <2>5, ReadsTypes, Zenon
  <2> QED  BY <1>4, <2>1, <2>2, <2>4, <2>5, <2>6, Zenon DEF KeyboardInv, KeyTypes, Follows
<1>6. ASSUME NEW k \in Keys, Release(k)
      PROVE  KeyboardInv'
  <2>1. /\ port' = port \o BreakCode[k] /\ meant' = meant /\ typed' = typed
        /\ UNCHANGED <<statusVars, ext_scancode>> /\ down' \subseteq Keys /\ caps_on' = caps_on
    BY <1>1, <1>6 DEF Release, Send, KeyTypes
  <2>2. UserFlags' = AfterBreak(UserFlags, k)
    BY <1>1, <1>6, ReleaseFlags, Zenon
  <2>3. port' \in Seq(Bytes) /\ Reads(DriverFlags, typed, port', AfterBreak(UserFlags, k), meant)
    BY <1>1, <1>2, <1>3, <2>1, BreakReads, Zenon DEF KeyTypes, Follows
  <2>4. Reads(DriverFlags', typed', port', UserFlags', meant')
    BY <1>4, <2>1, <2>2, <2>3, Zenon
  <2> QED  BY <1>1, <1>4, <2>1, <2>3, <2>4, Zenon DEF KeyboardInv, KeyTypes, Follows
<1>7. ASSUME Handler
      PROVE  KeyboardInv'
  <2>1. /\ port # << >> /\ port' = Tail(port)
        /\ DriverFlags' = NextFlags(DriverFlags, Head(port))
        /\ typed' = NextTyped(DriverFlags, typed, Head(port))
        /\ UNCHANGED userVars
    BY <1>1, <1>7, HandlerReads, Zenon
  <2>2. UserFlags' = UserFlags /\ meant' = meant /\ down' = down /\ caps_on' = caps_on
    <3>1. meant' = meant /\ down' = down /\ caps_on' = caps_on
      BY <2>1 DEF userVars
    <3> QED  BY <3>1, Zenon DEF UserFlags
  <2>3. Reads(DriverFlags', typed', port', UserFlags', meant')
    BY <1>1, <2>1, <2>2, ReadsOne, Zenon DEF KeyTypes, Follows
  <2>4. port' \in Seq(Bytes)
    BY <1>1, <2>1, HeadTailProperties, Zenon DEF KeyTypes
  <2>5. typed' \in Seq(Characters)
    BY <2>3, <2>4, ReadsTypes, Zenon
  <2>6. /\ ctrl_status' \in BOOLEAN /\ shift_status' \in BOOLEAN /\ alt_status' \in BOOLEAN
        /\ caps_lock_status' \in BOOLEAN /\ ext_scancode' \in BOOLEAN
    <3>1. CASE PrefixInterrupt
      BY <1>1, <3>1 DEF PrefixInterrupt, statusVars, KeyTypes
    <3>2. CASE BreakInterrupt
      BY <1>1, <3>2, Zenon DEF BreakInterrupt, KeyTypes
    <3>3. CASE CharacterInterrupt
      BY <1>1, <3>3 DEF CharacterInterrupt, statusVars, KeyTypes
    <3>4. CASE ModifierInterrupt
      BY <1>1, <3>4, Zenon DEF ModifierInterrupt, KeyTypes
    <3>5. CASE UnknownInterrupt
      BY <1>1, <3>5 DEF UnknownInterrupt, statusVars, KeyTypes
    <3> QED  BY <1>7, <3>1, <3>2, <3>3, <3>4, <3>5, Zenon DEF Handler
  <2> QED  BY <1>1, <2>2, <2>3, <2>4, <2>5, <2>6, Zenon DEF KeyboardInv, KeyTypes, Follows
<1>8. ASSUME UNCHANGED keyboardVars
      PROVE  KeyboardInv'
  <2>1. /\ ctrl_status' = ctrl_status /\ shift_status' = shift_status
        /\ alt_status' = alt_status /\ caps_lock_status' = caps_lock_status
        /\ ext_scancode' = ext_scancode /\ typed' = typed /\ port' = port
        /\ down' = down /\ caps_on' = caps_on /\ meant' = meant
    BY <1>8 DEF keyboardVars, statusVars, userVars
  <2> QED
    BY <1>1, <2>1, Zenon DEF KeyboardInv, KeyTypes, Follows, DriverFlags, UserFlags
<1> QED  BY <1>5, <1>6, <1>7, <1>8, Zenon DEF KeyboardNext, Handler

(* The driver follows its user: once it has read what port holds, its      *)
(* flags are the keys the user holds and its characters the ones the user  *)
(* meant.                                                                  *)
THEOREM KeyboardInvariant ==
  ASSUME OneOfEach
  PROVE  KeyboardSpec => []KeyboardInv
<1>1. KeyboardInit => KeyboardInv
  BY KeyboardInvInit
<1>2. KeyboardInv /\ [KeyboardNext]_keyboardVars => KeyboardInv'
  BY KeyboardInvStep
<1> QED  BY <1>1, <1>2, PTL DEF KeyboardSpec

(* No modifier is stuck or missed: intr_keyboard_handler's status          *)
(* variables agree with the keyboard whenever every byte is read.          *)
THEOREM StatusTracksKeysHolds ==
  ASSUME OneOfEach
  PROVE  KeyboardSpec => []StatusTracksKeys
<1>1. ASSUME KeyboardInv
      PROVE  StatusTracksKeys
  <2>1. KeyTypes /\ Follows /\ Flagged /\ UserFlagged
    BY <1>1, DriverFlagged, UserFlaggedHolds DEF KeyboardInv
  <2>2. ASSUME port = << >>
        PROVE  DriverFlags = UserFlags
    BY <2>1, <2>2, ReadsNone DEF Follows
  <2>3. ASSUME port = << >>
        PROVE  /\ ~ext_scancode
               /\ shift_status <=> (down \cap ShiftKeys # {})
               /\ ctrl_status <=> (down \cap CtrlKeys # {})
               /\ alt_status <=> (down \cap AltKeys # {})
               /\ caps_lock_status <=> caps_on
    BY <2>1, <2>2, <2>3, Zenon DEF Flagged, UserFlagged
  <2>4. ASSUME NEW a \in BOOLEAN, NEW b \in BOOLEAN, a <=> b
        PROVE  a = b
    BY <2>4, Zenon
  <2>5. /\ (down \cap ShiftKeys # {}) \in BOOLEAN /\ (down \cap CtrlKeys # {}) \in BOOLEAN
        /\ (down \cap AltKeys # {}) \in BOOLEAN
    BY Zenon
  <2>6. ASSUME port = << >>
        PROVE  /\ shift_status = (down \cap ShiftKeys # {})
               /\ ctrl_status = (down \cap CtrlKeys # {})
               /\ alt_status = (down \cap AltKeys # {})
               /\ caps_lock_status = caps_on
    BY <2>1, <2>3, <2>4, <2>5, <2>6, Zenon DEF KeyTypes
  <2> QED  BY <2>3, <2>6, Zenon DEF StatusTracksKeys
<1> QED  BY <1>1, KeyboardInvariant, PTL

(* What the handler has put into kbd_buf is the beginning of what the user *)
(* meant to type, and all of it once every byte is read.                   *)
THEOREM TypedAsMeantHolds ==
  ASSUME OneOfEach
  PROVE  KeyboardSpec => []TypedAsMeant
<1>1. ASSUME KeyboardInv
      PROVE  TypedAsMeant
  <2>1. KeyTypes /\ Follows
    BY <1>1 DEF KeyboardInv
  <2>2. Begins(typed, meant)
    BY <2>1, ReadsBegin DEF KeyTypes, Follows
  <2>3. PICK n \in Nat : n = Len(typed) /\ Len(meant) \in Nat
    BY <2>1, LenProperties DEF KeyTypes
  <2>4. n <= Len(meant) /\ \A j \in 1..n : typed[j] = meant[j]
    BY <2>2, <2>3 DEF Begins
  <2>5. typed = SubSeq(meant, 1, n)
    <3>1. PICK s : s = SubSeq(meant, 1, n)
      OBVIOUS
    <3>2. s = [i \in 1..n |-> meant[i]]
      BY <2>1, <2>3, <2>4, <3>1 DEF KeyTypes
    <3>3. typed = [i \in 1..n |-> typed[i]]
      BY <2>1, <2>3 DEF KeyTypes
    <3> QED  BY <2>4, <3>1, <3>2, <3>3
  <2>6. port = << >> => typed = meant
    BY <2>1, ReadsNone DEF Follows
  <2> QED  BY <2>3, <2>4, <2>5, <2>6 DEF TypedAsMeant
<1> QED  BY <1>1, KeyboardInvariant, PTL
=============================================================================
