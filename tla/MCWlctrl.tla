------------------------------ MODULE MCWlctrl ------------------------------
\* Wlctrl for TLC: by handle, by title, by a title that several windows may have.
EXTENDS Wlctrl

MCTargets ==
    {[by |-> "#", value |-> {}], [by |-> "#", value |-> {CHOOSE id \in Ids : TRUE}]}
        \cup {[by |-> ":", value |-> {CHOOSE t \in Titles : TRUE}]}
=============================================================================
