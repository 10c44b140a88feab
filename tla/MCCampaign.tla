----------------------------- MODULE MCCampaign -----------------------------
(***************************************************************************)
(* Small instances of Campaign for TLC.                                    *)
(***************************************************************************)
EXTENDS Campaign, TLC

CONSTANTS a1, a2, t1, t2

Accounts == {a1, a2}
Symmetry == Permutations(Accounts)

Listing(code, issuer) == [asset_code |-> code, issuer |-> issuer]
Pending(target) == [target_amount |-> target, released_amount |-> 0,
                    status |-> "Locked", released_to |-> None]

Codes == {"XLM", "USDC"}

\* Two tokens; donors reach the first as XLM or by its address.
TwoTokens == {<<Listing("XLM", t1), Listing("USDC", t2)>>}

TwoSteps == {<<Pending(2), Pending(3)>>}

\* One token: alone, listed twice, and beside an XLM entry without an issuer;
\* then the lists initialize rejects.
OneToken ==
    {<<Listing("XLM", t1)>>,
     <<Listing("XLM", t1), Listing("USDC", t1)>>,
     <<Listing("XLM", None), Listing("USDC", t1)>>,
     << >>, <<Listing("TOOLONGACODE1", t1)>>}

\* Three milestones, and the plans initialize rejects for a goal of 4.
ThreeSteps ==
    {<<Pending(1), Pending(2), Pending(4)>>,
     << >>, <<Pending(2), Pending(2), Pending(4)>>, <<Pending(3)>>}

=============================================================================
