------------------------------ MODULE FuseCall ------------------------------
(***************************************************************************)
(* What tegrabl_fuse_write promises its callers, whatever the hardware     *)
(* does and whenever power is lost: no bit but those of the value asked    *)
(* for is blown; a call refused has blown nothing; a call that reports     *)
(* success found the cells it compared equal to the value.                 *)
(***************************************************************************)
CONSTANT
    Cells       \* the bits of the fuses, as <<register, bit>>

VARIABLES
    blown,      \* the bits that read 1
    asked,      \* those of the value of the call last made
    compared,   \* the cells this call reads back at its end
    begun,      \* blown when it began
    outcome     \* how it stands

callVars == << blown, asked, compared, begun, outcome >>

CallInit ==
    /\ blown = {} /\ begun = {}
    /\ asked \subseteq Cells /\ compared \subseteq Cells
    /\ outcome = "none"

\* A call for a value begins.
Ask ==
    /\ outcome # "pending" /\ outcome' = "pending"
    /\ asked' \subseteq Cells /\ compared' \subseteq Cells
    /\ begun' = blown
    /\ UNCHANGED blown

\* Some bits of the value are blown.
Grow == blown \subseteq blown' /\ blown' \subseteq blown \cup asked

Burn ==
    /\ outcome = "pending" /\ Grow
    /\ UNCHANGED << asked, compared, begun, outcome >>

Answer(how) ==
    /\ outcome = "pending" /\ outcome' = how
    /\ UNCHANGED << blown, asked, compared, begun >>

Succeed == blown \cap compared = asked \cap compared /\ Answer("ok")
Refuse == blown = begun /\ Answer("refused")
Fail == Answer("failed")

\* A call without a value returns before it begins.
RefuseAtOnce ==
    /\ outcome # "pending" /\ outcome' = "refused"
    /\ UNCHANGED << blown, asked, compared, begun >>

\* Power is lost; a burn under way may have gone any part of its way.
Interrupt ==
    /\ outcome' = "none"
    /\ \/ UNCHANGED blown
       \/ outcome = "pending" /\ Grow
    /\ UNCHANGED << asked, compared, begun >>

CallNext ==
    \/ Ask \/ Burn
    \/ Succeed \/ Refuse \/ Fail \/ RefuseAtOnce
    \/ Interrupt

CallSpec == CallInit /\ [][CallNext]_callVars
===============================================================================
