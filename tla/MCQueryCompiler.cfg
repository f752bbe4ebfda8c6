\* Queries of up to six builder calls.
CONSTANTS
    Selections <- MCSelections
    Conditions <- MCConditions
    Subqueries <- MCSubqueries
    Criteria <- MCCriteria
    SetOperations = {"EXCEPT"}
    Values = {"v1", "v2"}
    MaxCalls = 6
    MaxLen = 120
SPECIFICATION Spec
INVARIANTS ParamsBound ClauseOrder
