CONSTANTS
  MinYear = 2020
  MaxYear = 2021
  FirstSummerMonth = 3
  LastSummerMonth = 9
  Disabled <- MCDisabled
  Fdows = {0, 1}
  Today <- MCToday
  PopupFields = {Field1, Field2}
  PopupDates = {1, 2, 3}
  PopupToday = 2
  PopupDisabled = {1}
  Empty = Empty
  FirstYear = 2019
  LastYear = 2020
  PageDates <- MCPageDates
  ChosenMonths = {1, 2, 11, 12}
  ChosenDays = {1, 29, 30, 31}
  MaxTimers = 4
SPECIFICATION MCSpec
INVARIANTS GridAgrees PartsAgree
PROPERTIES GridSteps PopupSteps
