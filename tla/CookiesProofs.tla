--------------------------- MODULE CookiesProofs ---------------------------
(***************************************************************************)
(* A proof about Cookies for all applications, names, lengths and sizes of *)
(* the two parts of a cookie.  FieldsApart is not inductive: that a new    *)
(* field is apart from the others follows from where it starts, so the     *)
(* invariant says that the fields of an owner lie in the bits it used.     *)
(***************************************************************************)
EXTENDS Cookies, TLAPS

Sizes == MaxGlobal \in Nat /\ MaxLocal \in Nat /\ MaxLength \in Nat

Fields == [offset : Nat, mask : SUBSET Nat]

Types ==
    /\ cookies \in [Owners \X Names -> Fields \cup {None}]
    /\ used_bits \in [Owners -> Nat]

\* The bits of an owner that used so many.
Span(o, used) == Base(o) .. Base(o) + used - 1

InUsed ==
    \A o \in Owners :
        /\ used_bits[o] <= Limit(o)
        /\ \A n \in Names : cookies[<<o, n>>] # None =>
               cookies[<<o, n>>].mask \subseteq Span(o, used_bits[o])

OwnApart ==
    \A o \in Owners : \A m, n \in Names :
        m # n /\ cookies[<<o, m>>] # None /\ cookies[<<o, n>>] # None =>
            cookies[<<o, m>>].mask \cap cookies[<<o, n>>].mask = {}

IInv == Types /\ InUsed /\ OwnApart

\* A mask that is shifted is the interval of its length.
LEMMA ShiftedBits ==
    ASSUME NEW n \in Nat, NEW start \in Nat
    PROVE  Shift(Bits(n), start) = start .. start + n - 1
<1>1. ASSUME NEW b \in start .. start + n - 1 PROVE b \in Shift(Bits(n), start)
  <2>1. b - start \in 0 .. n - 1 /\ b = (b - start) + start
    OBVIOUS
  <2> QED BY <2>1 DEF Shift, Bits
<1>2. ASSUME NEW b \in Bits(n) PROVE b + start \in start .. start + n - 1
  BY DEF Bits
<1> QED BY <1>1, <1>2 DEF Shift

\* Registering a field keeps the invariant: it starts where the used bits of
\* its owner end, and is refused if it does not fit.
LEMMA RegisterKeeps ==
    ASSUME Sizes, IInv, NEW app \in Owners, NEW name \in Names,
           NEW length \in 1 .. MaxLength, RegisterCookieBits(app, name, length)
    PROVE  IInv'
<1> DEFINE start == used_bits[app] + Base(app)
           new == start .. start + length - 1
<1>1. CASE cookies[<<app, name>>] # None \/ ~Fits(app, name, length)
  BY <1>1 DEF RegisterCookieBits, IInv, Types, InUsed, OwnApart, Span, Limit,
                Base
<1>2. CASE ~(cookies[<<app, name>>] # None \/ ~Fits(app, name, length))
  <2>1. /\ length \in Nat /\ used_bits[app] \in Nat
        /\ \A o \in Owners : Base(o) \in Nat /\ Limit(o) \in Nat
        /\ start \in Nat
    BY DEF Sizes, IInv, Types, Base, Limit
  <2>2. /\ used_bits' = [used_bits EXCEPT ![app] = @ + length]
        /\ cookies' = [cookies EXCEPT ![<<app, name>>] =
                          [offset |-> start, mask |-> new]]
        /\ used_bits[app] + length <= Limit(app)
    BY <1>2, <2>1, ShiftedBits DEF RegisterCookieBits, Fits
  <2>3. new \in SUBSET Nat
    BY <2>1
  <2>4. Types'
    BY <2>1, <2>2, <2>3 DEF IInv, Types, Fields
  <2>5. /\ cookies'[<<app, name>>].mask = new
        /\ \A o \in Owners, n \in Names :
              o # app \/ n # name => cookies'[<<o, n>>] = cookies[<<o, n>>]
    BY <2>2 DEF IInv, Types
  <2>6. /\ used_bits'[app] = used_bits[app] + length
        /\ \A o \in Owners : o # app => used_bits'[o] = used_bits[o]
    BY <2>2 DEF IInv, Types
  <2>7. new \subseteq Span(app, used_bits'[app])
        /\ Span(app, used_bits[app]) \cap new = {}
    <3>1. used_bits'[app] = used_bits[app] + length /\ Base(app) \in Nat
      BY <2>1, <2>6
    <3>2. Span(app, used_bits'[app]) = Base(app) .. start + length - 1
      BY <3>1, <2>1 DEF Span
    <3>3. Span(app, used_bits[app]) = Base(app) .. start - 1
      BY <3>1, <2>1 DEF Span
    <3> QED BY <3>1, <3>2, <3>3, <2>1
  <2>8. ASSUME NEW o \in Owners
        PROVE  Span(o, used_bits[o]) \subseteq Span(o, used_bits'[o])
    <3>1. used_bits'[o] \in Nat /\ used_bits[o] \in Nat /\ Base(o) \in Nat
      BY <2>1, <2>4 DEF IInv, Types
    <3>2. used_bits[o] <= used_bits'[o]
      BY <3>1, <2>1, <2>6
    <3> QED BY <3>1, <3>2 DEF Span
  <2>9. InUsed'
    <3> SUFFICES ASSUME NEW o \in Owners
                 PROVE  /\ used_bits'[o] <= Limit(o)
                        /\ \A n \in Names : cookies'[<<o, n>>] # None =>
                             cookies'[<<o, n>>].mask
                                 \subseteq Span(o, used_bits'[o])
      BY DEF InUsed, Limit, Span, Base
    <3>1. used_bits'[o] <= Limit(o)
      BY <2>1, <2>2, <2>6 DEF IInv, InUsed
    <3>2. ASSUME NEW n \in Names, cookies'[<<o, n>>] # None
          PROVE  cookies'[<<o, n>>].mask \subseteq Span(o, used_bits'[o])
      <4>1. CASE o = app /\ n = name
        BY <4>1, <2>5, <2>7
      <4>2. CASE ~(o = app /\ n = name)
        <5>1. cookies'[<<o, n>>] = cookies[<<o, n>>]
          BY <4>2, <2>5
        <5> QED BY <5>1, <3>2, <2>8 DEF IInv, InUsed
      <4> QED BY <4>1, <4>2
    <3> QED BY <3>1, <3>2
  <2>10. OwnApart'
    <3> SUFFICES ASSUME NEW o \in Owners, NEW m \in Names, NEW n \in Names,
                        m # n, cookies'[<<o, m>>] # None,
                        cookies'[<<o, n>>] # None
                 PROVE  cookies'[<<o, m>>].mask
                            \cap cookies'[<<o, n>>].mask = {}
      BY DEF OwnApart
    <3>1. CASE o = app /\ m = name
      <4>1. cookies'[<<o, n>>] = cookies[<<o, n>>]
        BY <3>1, <2>5
      <4>2. cookies'[<<o, n>>].mask \subseteq Span(app, used_bits[app])
        BY <4>1, <3>1 DEF IInv, InUsed
      <4> QED BY <4>2, <3>1, <2>5, <2>7
    <3>2. CASE o = app /\ n = name
      <4>1. cookies'[<<o, m>>] = cookies[<<o, m>>]
        BY <3>2, <2>5
      <4>2. cookies'[<<o, m>>].mask \subseteq Span(app, used_bits[app])
        BY <4>1, <3>2 DEF IInv, InUsed
      <4> QED BY <4>2, <3>2, <2>5, <2>7
    <3>3. CASE ~(o = app /\ m = name) /\ ~(o = app /\ n = name)
      BY <3>3, <2>5 DEF IInv, OwnApart
    <3> QED BY <3>1, <3>2, <3>3
  <2> QED BY <2>4, <2>9, <2>10 DEF IInv
<1> QED BY <1>1, <1>2

\* The invariant holds of the fields no application has registered yet.
LEMMA InitKeeps == ASSUME Sizes, Init PROVE IInv
BY DEF Sizes, Init, IInv, Types, InUsed, OwnApart, Limit

\* What one owner uses is within 64 bits and apart from what the other uses.
LEMMA InvImplies == ASSUME Sizes, IInv PROVE FieldsApart
<1> SUFFICES ASSUME NEW app \in Apps, NEW j \in FieldsOf(app),
                    NEW k \in FieldsOf(app)
             PROVE  /\ cookies[j].mask \subseteq MaskAll
                    /\ j # k => cookies[j].mask \cap cookies[k].mask = {}
  BY DEF FieldsApart
<1>1. PICK o \in {app, GLOBAL_APP_NAME}, m \in Names :
          j = <<o, m>> /\ cookies[<<o, m>>] # None
  BY DEF FieldsOf
<1>2. PICK q \in {app, GLOBAL_APP_NAME}, n \in Names :
          k = <<q, n>> /\ cookies[<<q, n>>] # None
  BY DEF FieldsOf
<1>3. o \in Owners /\ q \in Owners
  BY DEF Owners
<1>4. /\ cookies[j].mask \subseteq Span(o, used_bits[o])
      /\ cookies[k].mask \subseteq Span(q, used_bits[q])
      /\ used_bits[o] <= Limit(o) /\ used_bits[q] <= Limit(q)
      /\ used_bits[o] \in Nat /\ used_bits[q] \in Nat
  BY <1>1, <1>2, <1>3 DEF IInv, Types, InUsed
<1>5. Span(o, used_bits[o]) \subseteq MaskAll
  BY <1>4 DEF Span, Base, Limit, MaskAll, Bits, Sizes
<1>6. CASE o = q
  BY <1>1, <1>2, <1>3, <1>4, <1>5, <1>6 DEF IInv, OwnApart
<1>7. CASE o # q
  <2>1. Span(o, used_bits[o]) \cap Span(q, used_bits[q]) = {}
    BY <1>4, <1>7 DEF Span, Base, Limit, Sizes
  <2> QED BY <2>1, <1>4, <1>5
<1> QED BY <1>6, <1>7

\* For all applications, names and sizes, and however fields are registered
\* and modifiers replaced: no two fields of an application's cookie overlap and
\* none leaves the cookie (register_cookie_bits).
THEOREM FieldsNeverOverlap == ASSUME Sizes PROVE Spec => []FieldsApart
<1>1. ASSUME IInv, [Next]_vars PROVE IInv'
  <2>1. ASSUME NEW app \in Apps, NEW name \in Names,
               NEW length \in 1 .. MaxLength, RegisterLocal(app, name, length)
        PROVE  IInv'
    BY <1>1, <2>1, RegisterKeeps DEF RegisterLocal, Owners
  <2>2. ASSUME NEW name \in Names, NEW length \in 1 .. MaxLength,
               NEW value \in SUBSET Bits(length),
               AddGlobalCookieModifier(name, length, value)
        PROVE  IInv'
    BY <1>1, <2>2, RegisterKeeps DEF AddGlobalCookieModifier, Owners
  <2>3. CASE UNCHANGED vars
    BY <1>1, <2>3 DEF vars, IInv, Types, InUsed, OwnApart, Span, Limit, Base
  <2> QED BY <1>1, <2>1, <2>2, <2>3 DEF Next
<1>2. Init => IInv
  BY InitKeeps
<1>3. IInv => FieldsApart
  BY InvImplies
<1> QED BY <1>1, <1>2, <1>3, PTL DEF Spec
=============================================================================
