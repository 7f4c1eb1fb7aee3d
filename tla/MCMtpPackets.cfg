SPECIFICATION Spec
CONSTANTS
  Long = 1048576
  Byte = 4
  CardNames <- MCCardNames
  HostNames <- MCHostNames
  Nothing = Nothing
  MaxHandle = 5
  MaxWrites = 1
  MaxRare = 1
  Tids = 3
  TroubleOps = {"SetObjectPropValue", "SendObjectInfo", "CloseSession"}
INVARIANTS
  TypeOK
  AnswersItsRequest
  NoneUnanswered
  DescriptionsReadBack
  ListTellsTruth
