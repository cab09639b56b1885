------------------------------- MODULE Office -------------------------------
(***************************************************************************)
(* The components that share no state, side by side: prices, accounts,      *)
(* disputes, option lists, lists read page by page, campaign texts and      *)
(* broadcasts.  A request touches the tables of one of them, so that each    *)
(* moves by itself, in any interleaving with the others.                     *)
(***************************************************************************)
EXTENDS Pricing, Accounts, Disputes, Options, Listing, Drafts, Broadcast

officeVars == <<vars, accountVars, disputeVars, optionVars, listVars, draftVars,
                broadcastVars>>

OfficeInit ==
    /\ Init /\ AccountsInit /\ DisputesInit /\ OptionsInit
    /\ ListingInit /\ DraftsInit /\ BroadcastInit

OfficeNext ==
    /\ [Next]_vars /\ [AccountsNext]_accountVars /\ [DisputesNext]_disputeVars
    /\ [OptionsNext]_optionVars /\ [ListingNext]_listVars /\ [DraftsNext]_draftVars
    /\ [BroadcastNext]_broadcastVars

OfficeSpec == OfficeInit /\ [][OfficeNext]_officeVars

\* Every row, list and handler in flight of these components has the shape the code
\* gives it, in every interleaving: no price, status or cursor out of its range is
\* written by a handler that works on what it read before (updateTask, suspendUser,
\* createCampaignDispute, queryPublishedTasksPage, notifyContributorsOfNewTask).
OfficeTypeOK ==
    /\ TypeOK /\ AccountsTypeOK /\ DisputesTypeOK /\ OptionsTypeOK
    /\ ListingTypeOK /\ DraftsTypeOK /\ BroadcastTypeOK
=============================================================================
