SPECIFICATION DecisionSpec
CONSTANTS
  Listings <- MCListings
  Bands <- MCBands
  Horizon = 5
  FirstWeekday = 3
  PercentileNights = 3
  NightInputs <- MCNights
  HistoryInputs <- MCHistory
  CalendarInputs <- MCCalendars
  EntryInputs <- MCBoards
  MessageInputs <- MCMessages
  MaxMessages = 3
  AnswerInputs <- MCAnswers
  ScheduleInputs <- MCSchedules
  ClockInputs <- MCClock
  Marks <- MCMarks
  Overlap <- MCOverlap
  Evidence <- MCEvidence
  Unattributed = "unattributed"
  CandidateInputs <- MCCandidates
  LetterInputs <- MCLetters
  MaxLetters = 5
  ShortWords <- MCShortWords
INVARIANTS
  ProposalsAreBounded
  EvidenceDecides
  BoardIsTrue
  StaysFollowPolicy
  WhatIsLearnedWasWritten
CHECK_DEADLOCK FALSE
