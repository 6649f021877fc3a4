------------------------------ MODULE Binding ------------------------------
(***************************************************************************)
(* What plugin/companion.py makes of its configuration before anything     *)
(* runs: intervals clamped to a range, bind_addresses parsed into          *)
(* selectors, and the host's addresses picked by them.  An address is a    *)
(* number, 0 the wildcard; a value that is no literal IPv4 address (a      *)
(* name, a CIDR suffix, an IPv6 literal) is a number too large to be one.  *)
(* A prefix is given by the number of addresses in its blocks.             *)
(***************************************************************************)
EXTENDS Integers

CONSTANTS
  Addresses,  \* how many addresses there are
  MaxSize     \* size of the blocks of BIND_MIN_PREFIX

ASSUME BindingAssumption == Addresses \in Nat /\ MaxSize \in Nat

-----------------------------------------------------------------------------
(* Intervals *)

\* A configured value: absent (or null), a number, or one no interval can be
\* made of (text, a boolean, NaN, an infinity).
Absent == [kind |-> "absent"]
Junk == [kind |-> "junk"]
Number(n) == [kind |-> "number", n |-> n]

Option(value, default) == IF value.kind = "absent" THEN Number(default) ELSE value

Clamped(n, low, high) == IF n < low THEN low ELSE IF n > high THEN high ELSE n

\* Mutants of ClampInterval: no ceiling; no floor.
ClampOnlyBelow(value, low, high, default, zeroIsDefault) ==
  LET v == Option(value, default)
  IN  IF v.kind = "junk" \/ (zeroIsDefault /\ v.n = 0) THEN default
      ELSE Clamped(v.n, low, IF v.n > high THEN v.n ELSE high)

ClampOnlyAbove(value, low, high, default, zeroIsDefault) ==
  LET v == Option(value, default)
  IN  IF v.kind = "junk" \/ (zeroIsDefault /\ v.n = 0) THEN default
      ELSE Clamped(v.n, IF v.n < low THEN v.n ELSE low, high)

\* zeroIsDefault: 0 is not below the range but another way to say "default".
ClampInterval(value, low, high, default, zeroIsDefault) ==
  LET v == Option(value, default)
  IN  IF v.kind = "junk" \/ (zeroIsDefault /\ v.n = 0) THEN default
      ELSE Clamped(v.n, low, high)

-----------------------------------------------------------------------------
(* Addresses *)

IsBindable(value) == value \in 1 .. Addresses - 1

\* The block of an address, by its network address: strict=False clears the
\* host bits.  An address is in a block if its own network is the block's.
Network(a, size) == a - (a % size)
InBlock(a, selector) == Network(a, selector.size) = selector.a

\* An entry is [kind |-> "address", a], [kind |-> "block", a, size] or Junk.
\* ParseEntry(e): its selector, none when parse_bind_entry raises.
ParseEntry(e) ==
  CASE e.kind = "address" -> {s \in {e} : IsBindable(e.a)}
    [] e.kind = "block"   -> {s \in {[kind |-> "block", a |-> Network(e.a, e.size), size |-> e.size]} :
                                s.a # 0 /\ s.size <= MaxSize}
    [] OTHER              -> {}

\* bind_addresses: Absent, Junk (null, or not a list), or a list of entries.
List(entries) == [kind |-> "list", entries |-> entries]

ParseBindAddresses(option) ==
  IF option.kind = "list" THEN UNION {ParseEntry(e) : e \in option.entries} ELSE {}

\* Mutant of BindAddressesOption: a nulled key read as a missing one.
BindAddressesOrDefault(option, default) == IF option.kind # "list" THEN default ELSE option

BindAddressesOption(option, default) == IF option.kind = "absent" THEN default ELSE option

Matches(a, selector) ==
  IF selector.kind = "block" THEN InBlock(a, selector) ELSE a = selector.a

SelectBindAddresses(local, selectors) ==
  {a \in local : IsBindable(a) /\ \E s \in selectors : Matches(a, s)}

=============================================================================
