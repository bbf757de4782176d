----------------------------- MODULE Validators -----------------------------
(***************************************************************************)
(* Guard's check digits and the dispatch over the validators of a rule     *)
(* (guard/Validators.hpp).  Digits are numbers, letters of an IBAN are     *)
(* their values 10 to 35, and Space stands for what is not a digit.        *)
(***************************************************************************)
EXTENDS Integers, Sequences, SequencesExt

Space == -1

IsDigits(s)         == \A i \in DOMAIN s : s[i] \in 0..9
strip_non_digits(s) == SelectSeq(s, LAMBDA d : d \in 0..9)
Prefix(s, n)        == SubSeq(s, 1, n)

WeightedSum(s, weights) ==
  FoldLeft(+, 0, [i \in DOMAIN s |-> s[i] * weights[i]])

DecimalRemainder(s, modulus) ==
  FoldLeft(LAMBDA r, d : (r * 10 + d) % modulus, 0, s)
-----------------------------------------------------------------------------
Doubled(d) == IF 2 * d > 9 THEN 2 * d - 9 ELSE 2 * d

\* A bug: digits are doubled from the left, whatever the length.
LuhnFromLeft(digits) ==
  FoldLeft(+, 0, [i \in DOMAIN digits |->
    IF i % 2 = 1 THEN Doubled(digits[i]) ELSE digits[i]])

\* Counted from the right, every second digit is doubled.
luhn_sum(digits) ==
  FoldLeft(+, 0, [i \in DOMAIN digits |->
    IF (i - 1) % 2 = Len(digits) % 2 THEN Doubled(digits[i]) ELSE digits[i]])

luhn_check_digit(prefix) ==
  LET sum == FoldLeft(+, 0, [i \in DOMAIN prefix |->
               IF (i - 1) % 2 = (Len(prefix) + 1) % 2 THEN Doubled(prefix[i]) ELSE prefix[i]])
  IN  (10 - (sum % 10)) % 10

luhn_valid(s) == s # <<>> /\ IsDigits(s) /\ luhn_sum(s) % 10 = 0

snils_checksum(nine) ==
  LET sum == WeightedSum(nine, [i \in 1..9 |-> 10 - i]) % 101
      two == IF sum > 99 THEN 0 ELSE sum
  IN  <<two \div 10, two % 10>>

kWeights  == <<2, 4, 10, 3, 5, 9, 4, 6, 8>>
kWeights1 == <<7>> \o kWeights
kWeights2 == <<3>> \o kWeights1

inn_person_checksums(ten) ==
  LET v1 == (WeightedSum(ten, kWeights1) % 11) % 10
  IN  <<v1, (WeightedSum(Append(ten, v1), kWeights2) % 11) % 10>>

inn_org_checksum(nine) == (WeightedSum(nine, kWeights) % 11) % 10

ogrn_check_digit(twelve)     == DecimalRemainder(twelve, 11) % 10
ogrnip_check_digit(fourteen) == DecimalRemainder(fourteen, 13) % 10

Checked(s, n, checksum) == Len(s) = n + Len(checksum) /\ s = Prefix(s, n) \o checksum

snils_valid(s)      == Len(s) = 11 /\ Checked(s, 9, snils_checksum(Prefix(s, 9)))
inn_person_valid(s) == Len(s) = 12 /\ Checked(s, 10, inn_person_checksums(Prefix(s, 10)))
inn_org_valid(s)    == Len(s) = 10 /\ Checked(s, 9, <<inn_org_checksum(Prefix(s, 9))>>)
ogrn_valid(s)       == Len(s) = 13 /\ Checked(s, 12, <<ogrn_check_digit(Prefix(s, 12))>>)
ogrnip_valid(s)     == Len(s) = 15 /\ Checked(s, 14, <<ogrnip_check_digit(Prefix(s, 14))>>)

\* A letter is written as its two digits.
Decimal(s) ==
  FlattenSeq([i \in DOMAIN s |-> IF s[i] > 9 THEN <<s[i] \div 10, s[i] % 10>> ELSE <<s[i]>>])

mod97_decimal_string(s) == DecimalRemainder(s, 97)

iban_mod97(country_code, bban) ==
  LET check == 98 - mod97_decimal_string(Decimal(bban \o country_code \o <<0, 0>>))
  IN  <<check \div 10, check % 10>>

iban_valid(s) ==
  LET iban == SelectSeq(s, LAMBDA c : c # Space)
  IN  /\ Len(iban) >= 4
      /\ mod97_decimal_string(Decimal(SubSeq(iban, 5, Len(iban)) \o Prefix(iban, 4))) = 1

-----------------------------------------------------------------------------
\* The number that the first n digits form.
PrefixValue(s, n) == FoldLeft(LAMBDA v, d : v * 10 + d, 0, Prefix(s, n))

\* The lengths the brand of a prefix has; the first brand that fits decides.
payment_card_shape(s) ==
  /\ Len(s) \in 13..19
  /\ CASE s[1] = 4 -> Len(s) \in {13, 16, 19}
       [] PrefixValue(s, 2) \in {34, 37} -> Len(s) = 15
       [] PrefixValue(s, 2) \in 51..55 \/ PrefixValue(s, 4) \in 2221..2720 -> Len(s) = 16
       [] \/ PrefixValue(s, 4) = 6011 \/ PrefixValue(s, 3) \in 644..649
          \/ PrefixValue(s, 2) \in {62, 65} \/ PrefixValue(s, 4) \in 2200..2204 -> Len(s) >= 16
       [] OTHER -> FALSE

payment_card_valid(s) == payment_card_shape(s) /\ luhn_valid(s)

DigitValidators == {"luhn", "snils", "inn_person", "inn_org", "ogrn", "ogrnip",
                    "payment_card", "payment_card_no_luhn"}

is_known_validator(name) ==
  name \in DigitValidators \cup {"iban_mod97", "email_ascii", "entropy", "banlist", "ip_v4",
                                 "ip_v6", "ip_public", "ip_private"}

\* What one validator says of a value.  other: the validators that are not
\* modelled (email, entropy, ban list, addresses) and accept the value.
Passes(name, value, other) ==
  LET digits == strip_non_digits(value)
  IN  CASE name = "luhn"       -> luhn_valid(digits)
        [] name = "snils"      -> snils_valid(digits)
        [] name = "inn_person" -> inn_person_valid(digits)
        [] name = "inn_org"    -> inn_org_valid(digits)
        [] name = "ogrn"       -> ogrn_valid(digits)
        [] name = "ogrnip"     -> ogrnip_valid(digits)
        [] name = "iban_mod97" -> iban_valid(value)
        [] name = "payment_card"         -> payment_card_valid(digits)
        [] name = "payment_card_no_luhn" -> payment_card_shape(digits)
        [] OTHER -> name \in other

\* Every validator of the rule must accept.
passes_validators(value, validators, other) ==
  \A i \in DOMAIN validators : Passes(validators[i], value, other)
=============================================================================
