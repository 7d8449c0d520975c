--------------------------- MODULE FilterRecords ---------------------------
(***************************************************************************)
(* Event filters, from the form to the row, for any filters and fields.    *)
(***************************************************************************)
EXTENDS Naturals, FiniteSets

CONSTANTS
    AllFilters, FirstFilters,       \* filters that may exist, and those that exist at the start
    ChosenFields, TypedFields,      \* fields of a condition, by what their value comes from
    NoValue,                        \* no form, no filter, no value
    MaxConditions, MaxFilterForms, MaxFilterEdits, MaxFilterClicks      \* bounds

\* Fields can be listed, some are typed, and no id means that there is none.
ASSUME FiltersAssumption ==
    /\ IsFiniteSet(ChosenFields) /\ IsFiniteSet(TypedFields) /\ TypedFields # {}
    /\ MaxConditions \in Nat /\ NoValue \notin Nat

VARIABLES
    filterStore, nextCondition, filterList, orphanFilter, filterForm, filterRemoval,    \* FilterForm
    filterRequests, filterForms, filterEdits, filterClicks

filterVars == <<filterStore, nextCondition, filterList, orphanFilter, filterForm, filterRemoval,
                filterRequests, filterForms, filterEdits, filterClicks>>

EventFilters == INSTANCE FilterForm WITH
    Filters <- AllFilters, Existing <- FirstFilters, None <- NoValue,
    MaxForms <- MaxFilterForms, MaxEdits <- MaxFilterEdits, MaxClicks <- MaxFilterClicks,
    store <- filterStore, nextId <- nextCondition, list <- filterList, orphan <- orphanFilter,
    form <- filterForm, removal <- filterRemoval, requests <- filterRequests,
    forms <- filterForms, edits <- filterEdits, clicks <- filterClicks

-----------------------------------------------------------------------------
(* Properties *)

\* An update leaves as many conditions as were sent, with their fields, in their order.
StoredAsSent == EventFilters!StoredAsSent

\* A condition has a test for its field.  Does not hold.
OwnTest == EventFilters!OwnTest
=============================================================================
