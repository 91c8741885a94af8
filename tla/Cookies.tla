------------------------------ MODULE Cookies ------------------------------
(***************************************************************************)
(* The fields of a flow's cookie (controller/common/cookies.py).  The low  *)
(* bits are global: a field there is registered once and a modifier sets   *)
(* it in everything mod_flow sends.  The high bits are local: each         *)
(* application registers fields of its own, such as the number of a        *)
(* security group rule, and deletes flows by them.                         *)
(*                                                                         *)
(* An integer is the set of its bits that are 1, a mask likewise, so that  *)
(* &, | and ~ are set operations and a shift adds to the bits.             *)
(***************************************************************************)
EXTENDS Naturals

CONSTANTS
    Apps,       \* applications with local fields
    Names,      \* names of fields
    MaxLength,  \* lengths that are asked for
    MaxGlobal,  \* _cookie_max_bits_global
    MaxLocal,   \* _cookie_max_bits_local
    None

GLOBAL_APP_NAME == "global cookie namespace"

Bits(n) == 0 .. n - 1
MaskAll == Bits(MaxGlobal + MaxLocal)
Values == SUBSET Bits(MaxLength)    \* of a field or a modifier
Owners == Apps \cup {GLOBAL_APP_NAME}

VARIABLES
    cookies,    \* [Owners \X Names -> [offset, mask], or None]
    used_bits,  \* _cookies_used_bits
    modifiers   \* [Names -> the value its modifier returns, or None]
vars == <<cookies, used_bits, modifiers>>

\* The registered fields keep their type.
TypeOK ==
    /\ cookies \in [Owners \X Names ->
           [offset : MaskAll, mask : SUBSET MaskAll] \cup {None}]
    /\ used_bits \in [Owners -> 0 .. MaxGlobal + MaxLocal]
    /\ \A name \in Names : modifiers[name] \in Values \cup {None}

Init ==
    /\ cookies = [k \in Owners \X Names |-> None]
    /\ used_bits = [o \in Owners |-> 0]
    /\ modifiers = [name \in Names |-> None]

Shift(value, offset) == {b + offset : b \in value}

----------------------------------------------------------------------------
(* Registration. *)

Limit(app) == IF app = GLOBAL_APP_NAME THEN MaxGlobal ELSE MaxLocal

Base(app) == IF app = GLOBAL_APP_NAME THEN 0 ELSE MaxGlobal

\* A field that is registered stays as it is; one that does not fit raises
\* OutOfCookieSpaceException.
Fits(app, name, length) ==
    cookies[<<app, name>>] # None \/ used_bits[app] + length <= Limit(app)

RegisterCookieBits(app, name, length) ==
    IF cookies[<<app, name>>] # None \/ ~Fits(app, name, length)
    THEN UNCHANGED <<cookies, used_bits>>
    ELSE LET start == used_bits[app] + Base(app) IN
         /\ used_bits' = [used_bits EXCEPT ![app] = @ + length]
         /\ cookies' = [cookies EXCEPT ![<<app, name>>] =
                [offset |-> start, mask |-> Shift(Bits(length), start)]]

\* register_local_cookie_bits.
RegisterLocal(app, name, length) ==
    RegisterCookieBits(app, name, length) /\ UNCHANGED modifiers

\* The modifier of a name registered before is replaced.
AddGlobalCookieModifier(name, length, value) ==
    /\ RegisterCookieBits(GLOBAL_APP_NAME, name, length)
    /\ modifiers' = IF Fits(GLOBAL_APP_NAME, name, length)
                    THEN [modifiers EXCEPT ![name] = value] ELSE modifiers

----------------------------------------------------------------------------
(* Encoding. *)

Error == [raised |-> TRUE, cookie |-> {}, mask |-> {}]
Encoded(cookie, mask) == [raised |-> FALSE, cookie |-> cookie, mask |-> mask]

\* Mutant: the bits the old cookie has in the field stay.
GetCookieMixed(app, name, value, old) ==
    LET pair == cookies[<<app, name>>]
        shifted == Shift(value, pair.offset)
    IN  IF shifted \cap pair.mask # shifted THEN Error
        ELSE Encoded(shifted \cup old.cookie, pair.mask \cup old.mask)

\* A field that is encoded already stays; a part of it raises
\* MaskOverlapException, and a value that is too long CookieOverflowException.
GetCookie(app, name, value, old) ==
    LET pair == cookies[<<app, name>>]
        overlap == old.mask \cap pair.mask
        shifted == Shift(value, pair.offset)
    IN  IF overlap # {}
        THEN IF overlap = pair.mask THEN old ELSE Error
        ELSE IF shifted \cap pair.mask # shifted THEN Error
        ELSE Encoded(shifted \cup (old.cookie \ pair.mask),
                     pair.mask \cup old.mask)

ExtractValueFromCookie(app, name, cookie) ==
    LET pair == cookies[<<app, name>>]
    IN  {b - pair.offset : b \in cookie \cap pair.mask}

\* The modifiers of a dictionary, one after the other; the first error ends it.
ApplyGlobalCookieModifiers(old) ==
    LET Apply[names \in SUBSET Names] ==
            IF names = {} THEN old
            ELSE LET name == CHOOSE m \in names : TRUE
                     before == Apply[names \ {name}]
                 IN  IF before.raised THEN before
                     ELSE GetCookie(GLOBAL_APP_NAME, name, modifiers[name],
                                    before)
    IN  Apply[{name \in Names : modifiers[name] # None}]

Next ==
    \/ \E app \in Apps, name \in Names, length \in 1 .. MaxLength :
          RegisterLocal(app, name, length)
    \/ \E name \in Names, length \in 1 .. MaxLength :
          \E value \in SUBSET Bits(length) :
             AddGlobalCookieModifier(name, length, value)

Spec == Init /\ [][Next]_vars

----------------------------------------------------------------------------
(* Properties. *)

\* The fields an application's cookie may have: its own and the global ones.
FieldsOf(app) == {k \in {app, GLOBAL_APP_NAME} \X Names : cookies[k] # None}

\* No two fields of a cookie overlap, and none is outside of its 64 bits,
\* in whatever order and how often they are registered
\* (register_cookie_bits).
FieldsApart ==
    \A app \in Apps : \A j, k \in FieldsOf(app) :
        /\ cookies[j].mask \subseteq MaskAll
        /\ j # k => cookies[j].mask \cap cookies[k].mask = {}

\* The modifiers can be applied: their values fit their fields.
Applicable == \A name \in Names : modifiers[name] # None =>
    Shift(modifiers[name], cookies[<<GLOBAL_APP_NAME, name>>].offset)
        \subseteq cookies[<<GLOBAL_APP_NAME, name>>].mask

\* What an application and the modifiers put into a cookie is what is read
\* from it, so a flow matches the cookie and mask of a deletion exactly when
\* it has the same value and the modifiers did not change: rules do not lose
\* flows to each other, nor to aging (get_cookie, mod_flow).  l3_reactive.py
\* fills the cookie with a number that no field is registered for: the
\* modifiers overwrite their part of it.
EncodingExact ==
    Applicable => \A app \in Apps, name \in Names, value \in Values :
        cookies[<<app, name>>] # None
        /\ Shift(value, cookies[<<app, name>>].offset)
               \subseteq cookies[<<app, name>>].mask =>
          LET sent == ApplyGlobalCookieModifiers(
                  GetCookie(app, name, value, Encoded({}, {})))
              filled == ApplyGlobalCookieModifiers(Encoded(MaskAll, {}))
          IN  /\ ~sent.raised
              /\ ExtractValueFromCookie(app, name, sent.cookie) = value
              /\ cookies[<<app, name>>].mask \subseteq sent.mask
              /\ \A m \in Names : modifiers[m] # None =>
                    /\ ExtractValueFromCookie(GLOBAL_APP_NAME, m, sent.cookie)
                           = modifiers[m]
                    /\ ExtractValueFromCookie(GLOBAL_APP_NAME, m, filled.cookie)
                           = modifiers[m]

\* Fields can be set, read and matched independently of each other.
CookiesExact == FieldsApart /\ EncodingExact
=============================================================================
