---------------------------- MODULE MC_PaymentForm ----------------------------
(* The form run types a digit or a space anywhere into the card number     *)
(* (spaces are what the grouping acts on), and two digits, a letter or a   *)
(* slash into the expiry and CVV, and fills or clears the cardholder name. *)
(* The letters run types only letters into the card number.                *)
EXTENDS PaymentForm

MCCardChars == {"1", " "}
MCChars == {"0", "1", "a", "/"}
MCAllFields == {"cardNumber", "expiryDate", "cvv", "cardName"}
MCLetters == {"a"}
MCCardOnly == {"cardNumber"}
=============================================================================
