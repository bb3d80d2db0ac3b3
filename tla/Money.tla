-------------------------------- MODULE Money --------------------------------
(***************************************************************************)
(* Money as a caller writes it, { amount, currency }, and as the program   *)
(* holds it: a number of cents in a currency.  decimal.js is exact on what *)
(* NUMERIC(19,2) can hold, so the arithmetic is that of integers, which    *)
(* needs no operators of its own.                                          *)
(*                                                                         *)
(* Written, an amount is a number of cents in one of these forms:          *)
(*   plain  "10.00"   padded " 10.00 "   zeros  "010.00"                   *)
(*   blank  ""        exponent "1e1"     unscaled "10"      signed "-1.00" *)
(* and a currency is a code in one of these: plain "BRL", lower "brl",     *)
(* padded " BRL ", blank "".                                               *)
(***************************************************************************)
EXTENDS Integers

AmountForms ==
  {"plain", "padded", "zeros", "blank", "exponent", "unscaled", "signed"}

CurrencyForms == {"plain", "lower", "padded", "blank"}

Written(Cents, Codes) ==
  [amount : [form : AmountForms, cents : Cents],
   currency : [form : CurrencyForms, code : Codes]]

(* Money.from trims both texts, puts the currency in upper case, and takes *)
(* an amount of digits with exactly two decimals: no sign, no exponent.    *)
IsMoney(props) ==
  /\ props.currency.form # "blank"
  /\ props.amount.form \in {"plain", "padded", "zeros"}

From(props) == [cents |-> props.amount.cents, currency |-> props.currency.code]

IsPositive(money) == money.cents > 0
=============================================================================
