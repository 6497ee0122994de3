----------------------------- MODULE PaymentForm -----------------------------
(***************************************************************************)
(* The payment step of pages/CheckoutPage.js: handlePaymentChange, which  *)
(* reformats what the browser hands it before storing it, and             *)
(* validatePayment, which gates the step.                                  *)
(*                                                                         *)
(* A field's text is a sequence of one-character strings.  The browser's  *)
(* onChange value is the stored text with one character typed at any     *)
(* caret position, or with one character deleted; the cardholder name is  *)
(* never reformatted and is abstracted to empty or not.  The errors       *)
(* object only drives helper texts and is left out.                        *)
(***************************************************************************)
EXTENDS Integers, Sequences, SequencesExt

CONSTANTS
    CardChars,     \* characters the user types into the card number
    Chars,         \* characters the user types into the expiry and CVV
    EditedFields   \* the fields the user edits

Fields == {"cardNumber", "expiryDate", "cvv", "cardName"}
ASSUME EditedFields \subseteq Fields

VARIABLE paymentInfo   \* CheckoutPage paymentInfo

-----------------------------------------------------------------------------
IsDigit(c) == c \in {"0", "1", "2", "3", "4", "5", "6", "7", "8", "9"}

\* value.replace(/\s/g, '')
StripSpaces(s) == SelectSeq(s, LAMBDA c : c # " ")

\* .replace(/(.{4})/g, '$1 '): a space after every complete group of four.
RECURSIVE GroupsOfFour(_)
GroupsOfFour(s) ==
    IF Len(s) < 4 THEN s
    ELSE SubSeq(s, 1, 4) \o <<" ">> \o GroupsOfFour(SubSeq(s, 5, Len(s)))

\* .trim(): drops spaces at both ends.
RECURSIVE Trim(_)
Trim(s) ==
    CASE s # <<>> /\ Head(s) = " " -> Trim(Tail(s))
      [] s # <<>> /\ Last(s) = " " -> Trim(Front(s))
      [] OTHER -> s

\* Fault: the expiry regex without its first group, so no '/' is inserted.
FormatExpiryNoSlash(v) == SelectSeq(v, IsDigit)

\* Fault: the card number formatting without .trim().
FormatCardNumberUntrimmed(v) == GroupsOfFour(StripSpaces(v))

\* The formatting of handlePaymentChange, per field name.
FormatCardNumber(v) == Trim(GroupsOfFour(StripSpaces(v)))

\* value.replace(/\D/g, '').replace(/(\d{2})(\d)/, '$1/$2'): the first
\* two digits followed by a third get a '/' between them (one match only).
FormatExpiry(v) ==
    LET d == SelectSeq(v, IsDigit)
    IN IF Len(d) >= 3 THEN SubSeq(d, 1, 2) \o <<"/">> \o SubSeq(d, 3, Len(d))
                      ELSE d

FormatCvv(v) == SelectSeq(v, IsDigit)

\* Fault: the CVV length limit off by one (>= 3 read as > 4).
MaxLengthLoose(name) ==
    CASE name = "cardNumber" -> 19 [] name = "expiryDate" -> 5
      [] name = "cvv" -> 4 [] OTHER -> -1

\* The early returns: formattedValue.length > 19, > 5, > 3 (none for names).
MaxLength(name) ==
    CASE name = "cardNumber" -> 19 [] name = "expiryDate" -> 5
      [] name = "cvv" -> 3 [] OTHER -> -1

\* handlePaymentChange: format by name, drop the change if too long, store.
HandlePaymentChange(name, value) ==
    LET f == CASE name = "cardNumber" -> FormatCardNumber(value)
               [] name = "expiryDate" -> FormatExpiry(value)
               [] name = "cvv"        -> FormatCvv(value)
               [] OTHER               -> value
    IN /\ MaxLength(name) < 0 \/ Len(f) <= MaxLength(name)
       /\ paymentInfo' = [paymentInfo EXCEPT ![name] = f]

\* What the browser passes as e.target.value.
Edits(name) ==
    LET s == paymentInfo[name] IN
    IF name = "cardName" THEN {<<>>, <<"J">>}
    ELSE {InsertAt(s, i, c) : i \in 1..Len(s) + 1,
                              c \in IF name = "cardNumber" THEN CardChars ELSE Chars}
         \cup {RemoveAt(s, i) : i \in 1..Len(s)}

\* Fault: the card number check off by one (15 characters pass).
CardNumberCheckFifteen(s) == s # <<>> /\ Len(StripSpaces(s)) >= 15

\* validatePayment's four checks.
CardNumberCheck(s) == s # <<>> /\ Len(StripSpaces(s)) >= 16
ExpiryCheck(s) == s # <<>> /\ Len(s) >= 5
CvvCheck(s) == s # <<>> /\ Len(s) >= 3
validatePayment ==
    /\ CardNumberCheck(paymentInfo.cardNumber)
    /\ ExpiryCheck(paymentInfo.expiryDate)
    /\ CvvCheck(paymentInfo.cvv)
    /\ paymentInfo.cardName # <<>>

\* The confirmation step's "**** **** **** " + paymentInfo.cardNumber.slice(-4).
LastFour(s) == IF Len(s) <= 4 THEN s ELSE SubSeq(s, Len(s) - 3, Len(s))

Init == paymentInfo = [f \in Fields |-> <<>>]

Next == \E name \in EditedFields : \E v \in Edits(name) : HandlePaymentChange(name, v)

Spec == Init /\ [][Next]_paymentInfo

-----------------------------------------------------------------------------
TypeOK ==
    /\ paymentInfo \in [Fields -> Seq(CardChars \cup Chars \cup {" ", "/", "J"})]
    /\ Len(paymentInfo.cardNumber) <= 19
    /\ Len(paymentInfo.expiryDate) <= 5
    /\ Len(paymentInfo.cvv) <= 3

\* The card number field shows 1234 5678 9012 3456 style text whatever
\* the user types (a space included) or deletes, at any caret position:
\* groups of four characters separated by single spaces, none at either
\* end, and no more than four groups (the early return on length > 19).
CardNumberGrouped ==
    LET s == paymentInfo.cardNumber IN
    /\ Len(s) <= 19
    /\ \A i \in DOMAIN s : (s[i] = " ") <=> (i % 5 = 0)
    /\ s # <<>> => Len(s) % 5 # 0

\* The expiry field is always a prefix of MM/YY and the CVV at most three
\* digits, under any sequence of typed or deleted characters.
DigitFieldsShaped ==
    LET e == paymentInfo.expiryDate
        c == paymentInfo.cvv IN
    /\ \A i \in DOMAIN e : IF i = 3 THEN e[i] = "/" ELSE IsDigit(e[i])
    /\ Len(e) # 3
    /\ \A i \in DOMAIN c : IsDigit(c[i])

\* The confirmation step masks the card as "**** **** **** " followed by
\* the last four characters of the formatted number.  Whenever the payment
\* step validates, those are the card's last four digits: this relies on
\* the 16-character check, the 19-character early return and the grouping
\* together leaving exactly four full groups, whatever was typed.
ConfirmationShowsLastDigits ==
    validatePayment =>
        LET d == StripSpaces(paymentInfo.cardNumber)
        IN Len(d) >= 4 /\ LastFour(paymentInfo.cardNumber) = SubSeq(d, Len(d) - 3, Len(d))

\* spec.md 4.2: the payment step requires a card number of at least 16
\* digits once separators are stripped.  validatePayment strips only
\* whitespace and counts characters.
CardNumberDigits ==
    CardNumberCheck(paymentInfo.cardNumber) =>
        \A i \in DOMAIN paymentInfo.cardNumber :
            IsDigit(paymentInfo.cardNumber[i]) \/ paymentInfo.cardNumber[i] = " "
=============================================================================
