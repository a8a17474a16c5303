CONSTANTS
  t1 = t1
  t2 = t2
  Tab = {t1, t2}
  Environments <- MCEnvironments
  HouseholdChange <- MCHouseholdChange
SPECIFICATION FairSpec
CONSTRAINT Explored
INVARIANTS StartsAgain FinishedAsChecked
PROPERTIES ClosedBehind ComesToAnEnd
