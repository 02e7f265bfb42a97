CONSTANTS
  Heads = {h1, h2}
  Elem = {i1, i2, i3, i4}
  MaxKey = 7
  TreeElem <- ElementsOfTrees
  Key <- KeyOf
  Node = Node
  Null = Null
  Half = 8
  Units = {3, 4}
  Factors = {2, 4, 8, 16, 32}
  MaxSec = 1
SPECIFICATION HeadersSpec
INVARIANTS
  TypeOK
  ArithmeticIsExact
  TimersAreExact
  ConversionsRoundDown
  AnswersOfQueues
  AnswersFromSet
  Linked
  RedBlackRules
  ParentsKnowChildren
PROPERTIES
  QueuesActOnLists
  RedBlackActsOnSet
  SplayActsOnSet
