SPECIFICATION Spec
CHECK_DEADLOCK FALSE
INVARIANTS NamesResolve WrittenBeforeRead NoResultIsLost GraphIsComplete ArityAgrees PacksStayTogether
